SPECIFICATION FairSpec
CONSTANTS
    IdleTicks = 2
    MinUpTicks = 1
    WakeAgainTicks = 1
    MaxRequests = 4
    MaxFailures = 2
    MaxCrashes = 1
INVARIANTS
    IngressOnTop
    FlagIsTrue
PROPERTIES
    WakesEnd
