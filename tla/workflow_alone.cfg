SPECIFICATION Spec
CONSTANTS
    Case = {c1, c2}
    Action = {a1, a2}
    Forbidden = {}
    Role = {"process_engineer", "yield_lead"}
    Handler = {h1}
    NoAction = NoAction
    NoRole = NoRole
    ProposalTimeout = 1
    MaxTime = 2
    MaxRequests = 5
    MaxFailures = 1
    MaxDetections = 1
CHECK_DEADLOCK FALSE
PROPERTIES
    FollowsLifecycle
