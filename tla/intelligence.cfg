SPECIFICATION AllSpec
CONSTANTS
    Lots = 14
    Wafers = 2
    History = 13
    Models <- TwoModels
    NextLotModels = {"next_lot_excursion_alarm_risk"}
    MinimumRows = 12
    RetrainEvery = 1
    DriftRows = 14
    FeedbackLimit = 2
    MaxFailures = 1
    Cases = 3
    LotOf <- LotsOfCases
    RecentCases = 2
    Signatures = 2
    CaseLimit = 1
    MaxEvents = 2
CHECK_DEADLOCK FALSE
INVARIANTS
    OneChampion
    PredictionIsOutOfSample
    RequestsComeFirst
PROPERTIES
    FeedbackArrives
    ChangesAreTakenUp
