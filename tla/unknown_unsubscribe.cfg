SPECIFICATION Spec
CONSTANTS
    t1 = t1
    t2 = t2
    t3 = t3
    NoTopic = NoTopic
    SubIds <- MCSubIds
    SubIdOf <- MCSubIdOf
    Conns = {c1}
    Topics = {t2}
    FalsyTopics = {}
    MaxRequests = 1
    MaxProgress = 0
    MaxEvents = 0
    ClientRequests <- MCSubscriptions
    PreHandlers = {}
    AuthedHandlers = {}
    TransportAuthenticators = 0
    CraConfigured = FALSE
    TicketConfigured = FALSE
    SynchronizeRequests = FALSE
    ServerShutsDown = FALSE
    Faults = {"user", "malformed", "cancel"}
PROPERTIES
    UnknownUnsubscribeAnswered
