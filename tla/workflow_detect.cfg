SPECIFICATION Spec
CONSTANTS
    Case = {c1}
    Action = {a1}
    Forbidden = {}
    Role = {"process_engineer", "yield_lead"}
    Handler = {h1}
    NoAction = NoAction
    NoRole = NoRole
    ProposalTimeout = 1
    MaxTime = 1
    MaxRequests = 3
    MaxFailures = 0
    MaxDetections = 2
CHECK_DEADLOCK FALSE
PROPERTIES
    DetectionKeepsState
