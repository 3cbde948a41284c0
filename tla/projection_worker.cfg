SPECIFICATION AllSpec
CONSTANTS
    Lot = {l1, l2, l3}
    Window = 2
    BatchSize = 2
    MaxRows = 4
    MaxCrashes = 1
    GraphLots = {"L1", "L2"}
    MaxEvents = 4
    Wafers = 3
    Yields <- AroundThreshold
    Lots = 3
    Kind = {"physical", "bias"}
    Severity <- Ranked
    MaxScore = 1
    Gap = 1
    Span = 1
    Inactive = 1
    Recent = 1
    Queue = 2
    ForecastYields = {84}
    Excursions = {52, 66, 74}
    Alarms = {76}
    Maintenances = {66}
CHECK_DEADLOCK FALSE
INVARIANTS
    WindowIsProjected
    StoresAgree
    HoldsAreBacked
    FaultsAreExplained
    EpisodesPartitionCases
    WorstIsQueued
    SignalIsPlanned
PROPERTIES
    RowsArrive
    EpisodesAreStable
