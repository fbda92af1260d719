SPECIFICATION Spec
CONSTANTS
    t1 = t1
    t2 = t2
    t3 = t3
    NoTopic = NoTopic
    SubIds <- MCSubIds
    SubIdOf <- MCSubIdOf
    Conns = {c1, c2}
    Topics = {t2}
    FalsyTopics = {}
    MaxRequests = 1
    MaxProgress = 0
    MaxEvents = 0
    ClientRequests <- MCGoodbye
    PreHandlers = {}
    AuthedHandlers = {}
    TransportAuthenticators = 1
    CraConfigured = FALSE
    TicketConfigured = FALSE
    SynchronizeRequests = FALSE
    ServerShutsDown = TRUE
    Faults = {}
SYMMETRY MCSymmetry
INVARIANTS
    HandshakeOrder
    TasksJoined
PROPERTIES
    ClosedStaysClosed
    ImplementsConversation
