SPECIFICATION Spec
CONSTANTS
    Case = {c1}
    Action = {a1, a2, a3}
    Forbidden = {a3}
    Role = {"process_engineer", "yield_lead", "operator"}
    Handler = {h1, h2}
    NoAction = NoAction
    NoRole = NoRole
    ProposalTimeout = 1
    MaxTime = 1
    MaxRequests = 5
    MaxFailures = 1
    MaxDetections = 2
CHECK_DEADLOCK FALSE
SYMMETRY HandlerSymmetry
INVARIANTS
    ApprovalCoversAction
    ApprovalsAreTraced
    EscalatedWasOverdue
