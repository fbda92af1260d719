SPECIFICATION Spec
CONSTANTS
    t1 = t1
    t2 = t2
    t3 = t3
    NoTopic = NoTopic
    SubIds <- MCSubIds
    SubIdOf <- MCSubIdOf
    Conns = {c1}
    Topics = {t1, t2, t3}
    FalsyTopics = {t3}
    MaxRequests = 3
    MaxProgress = 0
    MaxEvents = 2
    ClientRequests <- MCSubscriptions
    PreHandlers = {}
    AuthedHandlers = {a1}
    TransportAuthenticators = 0
    CraConfigured = FALSE
    TicketConfigured = FALSE
    SynchronizeRequests = FALSE
    ServerShutsDown = FALSE
    Faults = {"user", "malformed", "cancel"}
INVARIANTS
    RegistryMatchesExits
    EventsFollowSubscription
    CleanupComplete
    StateOutlivesSubscriptions
