SPECIFICATION AllSpec
CONSTANTS
    Lots = 13
    Wafers = 2
    History = 12
    Models <- TwoModels
    NextLotModels = {"next_lot_excursion_alarm_risk"}
    MinimumRows = 12
    RetrainEvery = 2
    DriftRows = 24
    FeedbackLimit = 2
    MaxFailures = 1
    Cases = 3
    LotOf <- LotsOfCases
    RecentCases = 2
    Signatures = 2
    CaseLimit = 1
    MaxEvents = 0
CHECK_DEADLOCK FALSE
PROPERTIES
    PromotionIsGuarded
