SPECIFICATION Spec
CONSTANTS
    t1 = t1
    t2 = t2
    t3 = t3
    NoTopic = NoTopic
    SubIds <- MCSubIds
    SubIdOf <- MCSubIdOf
    Conns = {c1}
    Topics = {t2}
    FalsyTopics = {}
    MaxRequests = 2
    MaxProgress = 0
    MaxEvents = 0
    ClientRequests <- MCCallAndSubscribe
    PreHandlers = {p1, p2}
    AuthedHandlers = {a1, a2}
    TransportAuthenticators = 1
    CraConfigured = TRUE
    TicketConfigured = TRUE
    SynchronizeRequests = TRUE
    ServerShutsDown = TRUE
    Faults = {"user", "malformed", "cancel"}
INVARIANTS
    TypeOK
    HandshakeOrder
    CleanupComplete
    TasksJoined
    RequestsSynchronized
PROPERTIES
    ImplementsConversation
