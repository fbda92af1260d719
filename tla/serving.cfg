SPECIFICATION FairSpec
CONSTANTS
    Messages <- MCMessages
    Shape <- MCShape
    Requests <- MCRequests
    SizeOf <- MCSizeOf
    Binary <- MCBinary
    Replies <- MCReplies
    LengthLimit = 4
    Welcome = "welcome"
    Abort = "abort"
    NoProtocol = NoProtocol
    Damage = "damage"
    MaxSent = 3
    MaxFrames = 2
    MaxTasks = 2
INVARIANTS
    TypeOK
    RepliesReadBack
    NoOrphans
PROPERTIES
    ImplementsChannel
    GoneClientsForgotten
