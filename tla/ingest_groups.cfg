SPECIFICATION Spec
CONSTANTS
    Event = {e1, e2}
    Incident = {e2}
    Invalid = {}
    Undecodable = {}
    streamWorker = streamWorker
    api = api
    Consumer <- IntegrationConsumers
    Replaying = {streamWorker}
    Integrated <- IntegrationConsumers
    NoEvent = NoEvent
    MaxAttempts = 2
    MaxPublished = 2
    MaxErrors = 2
    MaxCrashes = 1
CHECK_DEADLOCK FALSE
INVARIANTS
    OncePerEvent
