SPECIFICATION Spec
CONSTANTS
    Job = {j1, j2}
    Worker = {w1, w2}
    Caller = {c1}
    Subject = {s1}
    Trigger = {"auto_high"}
    NoJob = NoJob
    NoWorker = NoWorker
    NoSubject = NoSubject
    TickSeconds = 60
    LeaseSeconds = 120
    MaxTime = 7
    MaxAborts = 0
SYMMETRY SeveralWorkers
INVARIANTS
    ActiveDedupe
    FailureBudget
    AttemptIdentifiesClaim
