SPECIFICATION Spec
CONSTANTS
    t1 = t1
    t2 = t2
    t3 = t3
    NoTopic = NoTopic
    SubIds <- MCSubIds
    SubIdOf <- MCSubIdOf
    Conns = {c1}
    Topics = {t2}
    FalsyTopics = {}
    MaxRequests = 3
    MaxProgress = 1
    MaxEvents = 0
    ClientRequests <- MCMixed
    PreHandlers = {}
    AuthedHandlers = {}
    TransportAuthenticators = 0
    CraConfigured = FALSE
    TicketConfigured = FALSE
    SynchronizeRequests = FALSE
    ServerShutsDown = FALSE
    Faults = {"user", "cancel"}
INVARIANTS
    NothingAfterFinalResponse
    FinishedCallsAnswered
    SubscriptionAcksInOrder
    TasksJoined
