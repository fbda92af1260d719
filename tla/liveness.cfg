SPECIFICATION FairSpec
CONSTANTS
    t1 = t1
    t2 = t2
    t3 = t3
    NoTopic = NoTopic
    SubIds <- MCSubIds
    SubIdOf <- MCSubIdOf
    Conns = {c1}
    Topics = {t2}
    FalsyTopics = {}
    MaxRequests = 2
    MaxProgress = 1
    MaxEvents = 0
    ClientRequests <- MCMixed
    PreHandlers = {}
    AuthedHandlers = {a1}
    TransportAuthenticators = 0
    CraConfigured = FALSE
    TicketConfigured = FALSE
    SynchronizeRequests = FALSE
    ServerShutsDown = FALSE
    Faults = {"user", "malformed", "cancel"}
PROPERTIES
    DisconnectEndsSession
    RequestsEnd
    ImplementsConversation
