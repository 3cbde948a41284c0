SPECIFICATION AllSpec
CONSTANTS
    Caller = {c1, c2}
    Local = Local
    Vertex = Vertex
    Provider = {Local, Vertex}
    Chain <- LocalThenVertex
    NoProvider = NoProvider
    Packet = {k1}
    NoPacket = NoPacket
    Threshold = 1
    Cooldown = 2
    Minute = 1
    MaxRpm = 1
    MaxConcurrency = 2
    DailyRequests = 2
    DailyTokens = 9
    TokensPerCall = 3
    CacheTtl = 1
    MaxClock = 2
    MaxDay = 2
    MaxCalls = 2
    Request = {r1, r2, r3}
    User = User
    Slots = 2
    Session = {s1}
    Client = {a1}
    Handler = {h1, h2}
    Ttl = 2
    Hour = 3
    PerSession = 2
    PerClient = 3
    NoSession = NoSession
    NoClient = NoClient
    MaxInstant = 6
    MaxRestarts = 1
    Thread = {t1, t2, t3}
    Width = 2
    FailureThreshold = 2
    ResetTimeout = 1
    MaxTicks = 2
    MaxFailed = 3
CHECK_DEADLOCK FALSE
INVARIANTS
    ActiveIsInFlight
    CircuitMatchesFailures
    CircuitKeepsOut
    SlotsAreReturned
    GenerationsFitSlots
    FallbackHidesNoCloud
    TokenBuysItsLimit
    OpenBreakerRecovers
PROPERTIES
    EveryCallEnds
