SPECIFICATION FairSpec
CONSTANTS
    Job = {j1, j2}
    Worker = {w1}
    Caller = {c1}
    Subject = {s1}
    Trigger = {"manual_user_refresh", "auto_high"}
    NoJob = NoJob
    NoWorker = NoWorker
    NoSubject = NoSubject
    TickSeconds = 150
    LeaseSeconds = 120
    MaxTime = 3
    MaxAborts = 1
PROPERTIES
    KeepsPromise
    EndsOrOrphaned
