SPECIFICATION FairSpec
CONSTANTS
    Event = {e1, e2, e3, e4, e5}
    Incident = {e2, e3}
    Invalid = {e4}
    Undecodable = {e5}
    streamWorker = streamWorker
    api = api
    Consumer <- PreviewConsumers
    Replaying = {streamWorker}
    Integrated = {}
    NoEvent = NoEvent
    MaxAttempts = 2
    MaxPublished = 3
    MaxErrors = 3
    MaxCrashes = 1
CHECK_DEADLOCK FALSE
INVARIANTS
    NothingIsSkipped
    ReadSideFollowsLog
PROPERTIES
    KeepsLedger
    MessagesAreHandled
