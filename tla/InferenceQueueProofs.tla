------------------------- MODULE InferenceQueueProofs -------------------------
(***************************************************************************)
(* Theorems of InferenceQueue, for any number of jobs, workers, callers    *)
(* and subjects, any lease and any bound on time and crashes.              *)
(***************************************************************************)
EXTENDS InferenceQueue, FiniteSetTheorems, TLAPS

\* A duration of whole seconds is a number of ticks.
LEMMA TicksNat == \A s \in Nat : Ticks(s) \in Nat
<1> TAKE s \in Nat
<1>1. TickSeconds \in Nat /\ TickSeconds > 0
  BY QueueAssumption
<1>2. s + TickSeconds - 1 \in Nat
  BY <1>1
<1> QED
  BY <1>1, <1>2 DEF Ticks

\* The bounds and waits the actions take from the policy are natural numbers.
LEMMA PolicyTicks ==
    /\ \A t \in TriggerType : Ticks(QueuePolicy[t].maxAge) \in Nat
    /\ LeaseTicks \in Nat
    /\ \A n \in Nat, busy \in BOOLEAN : BackoffTicks(n, busy) \in Nat
<1>1. \A t \in TriggerType : QueuePolicy[t].maxAge \in Nat
  BY DEF TriggerType, QueuePolicy
<1>2. Larger(30, LeaseSeconds) \in Nat
  BY QueueAssumption DEF Larger
<1>3. \A n \in Nat : (IF 5 * n >= 60 THEN 60 ELSE 5 * Larger(1, n)) \in Nat
  BY DEF Larger
<1>4. \A n \in Nat : (CASE n <= 1 -> 2 [] n = 2 -> 4 [] OTHER -> 8) \in Nat
  OBVIOUS
<1>5. ASSUME NEW n \in Nat, NEW busy \in BOOLEAN
      PROVE  BackoffTicks(n, busy) \in Nat
  <2>1. CASE busy
    BY <1>4, <2>1, TicksNat DEF BackoffTicks
  <2>2. CASE ~busy
    BY <1>3, <2>2, TicksNat DEF BackoffTicks
  <2> QED
    BY <2>1, <2>2
<1> QED
  BY <1>1, <1>2, <1>5, TicksNat DEF LeaseTicks
-----------------------------------------------------------------------------
(* Type correctness. *)

\* A released row is a row.
LEMMA ReleasedRow ==
    ASSUME NEW row \in JobRow, NEW status \in Status, NEW t \in Nat
    PROVE  /\ Released(row, status, t) \in JobRow
           /\ Released(row, status, t).status = status
           /\ Released(row, status, t).trigger = row.trigger
           /\ Released(row, status, t).subject = row.subject
BY DEF Released, JobRow

\* A claimed row is a row.
LEMMA ClaimedRow ==
    ASSUME NEW row \in JobRow, NEW w \in Worker, now + LeaseTicks \in Nat
    PROVE  Claimed(row, w) \in JobRow
<1>1. "RUNNING" \in Status
  BY DEF Status, Active
<1>2. row.attempts + 1 \in Nat
  BY DEF JobRow
<1> QED
  BY <1>1, <1>2 DEF Claimed, JobRow

\* The row a requeue writes, and its status.
Requeued(row, status, t, failed) == [Released(row, status, t) EXCEPT !.failures = @ + failed]

LEMMA RequeuedStatus ==
    ASSUME NEW row \in JobRow, NEW status, NEW t, NEW failed
    PROVE  Requeued(row, status, t, failed).status = status
BY DEF Requeued, Released, JobRow

\* A requeue leaves a table of rows.
LEMMA RequeueType ==
    ASSUME TypeOK, NEW j \in Job, NEW status \in Status, NEW backoff \in Nat,
           NEW failed \in Nat, Requeue(j, status, backoff, failed)
    PROVE  job' \in [Job -> JobRow]
<1> DEFINE row == [Released(job[j], status, now + backoff) EXCEPT !.failures = @ + failed]
<1>1. now + backoff \in Nat
  BY DEF TypeOK
<1>2. Released(job[j], status, now + backoff) \in JobRow
  BY <1>1, ReleasedRow DEF TypeOK
<1>3. row \in JobRow
  BY <1>2 DEF JobRow
<1>4. job' = [job EXCEPT ![j] = row] \/ job' = job
  BY DEF Requeue
<1> QED
  BY <1>3, <1>4 DEF TypeOK

\* A worker that is at a job is at one of the table's.
WorkerHasJob == \A w \in Worker : worker[w].pc \in InFlightPC => worker[w].job \in Job

\* Every action keeps the variables in their types.
LEMMA TypeStep == TypeOK /\ WorkerHasJob /\ [Next]_vars => TypeOK' /\ WorkerHasJob'
<1> SUFFICES ASSUME TypeOK, WorkerHasJob, [Next]_vars
             PROVE  TypeOK' /\ WorkerHasJob'
  OBVIOUS
<1>1. CASE UNCHANGED vars
  BY <1>1 DEF TypeOK, WorkerHasJob, vars
<1>2. ASSUME NEW c \in Caller, Enqueue(c) PROVE TypeOK' /\ WorkerHasJob'
  <2>1. PICK t \in Trigger, s \in Subject : EnqueueInsert(c, t, s)
    BY <1>2 DEF Enqueue
  <2>2. NewRow(t, s) \in JobRow
    <3>1. t \in TriggerType /\ now \in Nat /\ Ticks(QueuePolicy[t].maxAge) \in Nat
      BY PolicyTicks, QueueAssumption DEF TypeOK
    <3>2. now + Ticks(QueuePolicy[t].maxAge) \in Nat
      BY <3>1
    <3> QED
      BY <3>1, <3>2 DEF NewRow, Absent, JobRow, Status, Active, Waiting
  <2>3. <<Scope(t), s>> \in Keys
    BY DEF Scope, Keys
  <2> QED
    BY <2>1, <2>2, <2>3
       DEF EnqueueInsert, TypeOK, WorkerHasJob, IdleCaller, CallerState
<1>3. ASSUME NEW c \in Caller, EnqueueSelect(c) PROVE TypeOK' /\ WorkerHasJob'
  BY <1>3 DEF EnqueueSelect, TypeOK, WorkerHasJob, IdleCaller, CallerState
<1>4. ASSUME NEW w \in Worker, RecoverLeases(w) PROVE TypeOK' /\ WorkerHasJob'
  <2>1. \A j \in Job : Released(job[j], "RETRY", now) \in JobRow
    BY ReleasedRow DEF TypeOK, Status, Active, Waiting
  <2> QED
    BY <1>4, <2>1 DEF RecoverLeases, Goto, TypeOK, WorkerHasJob, WorkerState, WorkerPC, InFlightPC
<1>5. ASSUME NEW w \in Worker, ExpireJobs(w) PROVE TypeOK' /\ WorkerHasJob'
  <2>1. \A j \in Job : Released(job[j], "EXPIRED", job[j].notBefore) \in JobRow
    BY ReleasedRow DEF TypeOK, Status, Terminal, JobRow
  <2> QED
    BY <1>5, <2>1 DEF ExpireJobs, Goto, TypeOK, WorkerHasJob, WorkerState, WorkerPC, InFlightPC
<1>6. ASSUME NEW w \in Worker, ClaimJob(w) PROVE TypeOK' /\ WorkerHasJob'
  <2>1. PICK j \in Job :
          /\ job' = [job EXCEPT ![j] = Claimed(job[j], w)]
          /\ worker' = [worker EXCEPT ![w] =
                          [pc |-> "generate", job |-> j, attempt |-> Claimed(job[j], w).attempts,
                           cloud |-> CloudWaitElapsed(j), final |-> "FALLBACK"]]
    BY <1>6 DEF ClaimJob
  <2>2. now + LeaseTicks \in Nat
    BY PolicyTicks DEF TypeOK
  <2>3. Claimed(job[j], w) \in JobRow
    BY <2>2, ClaimedRow DEF TypeOK
  <2>4. CloudWaitElapsed(j) \in BOOLEAN
    BY DEF CloudWaitElapsed
  <2>5. Claimed(job[j], w).attempts \in Nat
    BY <2>3 DEF JobRow
  <2>6. worker' \in [Worker -> WorkerState]
    BY <2>1, <2>4, <2>5 DEF TypeOK, WorkerState, WorkerPC
  <2> QED
    BY <1>6, <2>1, <2>3, <2>6 DEF ClaimJob, TypeOK, WorkerHasJob
<1>7. ASSUME NEW w \in Worker, ClaimNothing(w) PROVE TypeOK' /\ WorkerHasJob'
  BY <1>7 DEF ClaimNothing, GoIdle, IdleWorker, TypeOK, WorkerHasJob, WorkerState, WorkerPC, InFlightPC
<1>8. ASSUME NEW w \in Worker, GenerateBusy(w) PROVE TypeOK' /\ WorkerHasJob'
  <2>1. worker[w].job \in Job /\ worker[w].attempt \in Nat
    BY <1>8 DEF GenerateBusy, WorkerHasJob, InFlightPC, TypeOK, WorkerState
  <2>2. BackoffTicks(worker[w].attempt, TRUE) \in Nat
    BY <2>1, PolicyTicks
  <2>3. job' \in [Job -> JobRow]
    BY <1>8, <2>1, <2>2, RequeueType DEF GenerateBusy, Status, Active, Waiting
  <2> QED
    BY <1>8, <2>3 DEF GenerateBusy, GoIdle, IdleWorker, TypeOK, WorkerHasJob, WorkerState, WorkerPC, InFlightPC
<1>9. ASSUME NEW w \in Worker, RetryLater(w) PROVE TypeOK' /\ WorkerHasJob'
  <2>1. worker[w].job \in Job /\ worker[w].attempt \in Nat
    BY <1>9 DEF RetryLater, WorkerHasJob, InFlightPC, TypeOK, WorkerState
  <2>2. BackoffTicks(worker[w].attempt, FALSE) \in Nat
    BY <2>1, PolicyTicks
  <2>3. job' \in [Job -> JobRow]
    BY <1>9, <2>1, <2>2, RequeueType DEF RetryLater, Status, Active, Waiting
  <2> QED
    BY <1>9, <2>3 DEF RetryLater, GoIdle, IdleWorker, TypeOK, WorkerHasJob, WorkerState, WorkerPC, InFlightPC
<1>10. ASSUME NEW w \in Worker, NEW final \in {"COMPLETED", "FALLBACK"},
              NEW writesPlan \in BOOLEAN, Persist(w, final, writesPlan)
       PROVE  TypeOK' /\ WorkerHasJob'
  <2>1. worker[w].job \in Job
    BY <1>10 DEF Persist, WorkerHasJob, InFlightPC
  <2>2. worker' \in [Worker -> WorkerState]
    <3> DEFINE pc == IF writesPlan THEN "plan" ELSE "report"
    <3>1. pc \in WorkerPC
      BY DEF WorkerPC
    <3>2. worker' = [worker EXCEPT ![w].pc = pc, ![w].final = final]
      BY <1>10 DEF Persist
    <3> HIDE DEF pc
    <3> QED
      BY <3>1, <3>2 DEF TypeOK, WorkerState
  <2>3. WorkerHasJob'
    BY <1>10, <2>1 DEF Persist, TypeOK, WorkerState, WorkerHasJob
  <2> QED
    BY <1>10, <2>2, <2>3 DEF Persist, TypeOK
<1>11. ASSUME NEW w \in Worker, Generated(w) PROVE TypeOK' /\ WorkerHasJob'
  BY <1>8, <1>9, <1>10, <1>11
     DEF Generated, GenerateRaised, GenerateLocalFailed, GenerateLocal, GenerateOther
<1>12. ASSUME NEW w \in Worker, PersistPlan(w) PROVE TypeOK' /\ WorkerHasJob'
  BY <1>12 DEF PersistPlan, Goto, TypeOK, WorkerHasJob, WorkerState, WorkerPC, InFlightPC
<1>13. ASSUME NEW w \in Worker, PersistReport(w) PROVE TypeOK' /\ WorkerHasJob'
  <2>1. worker[w].job \in Job
    BY <1>13 DEF PersistReport, WorkerHasJob, InFlightPC
  <2>2. CASE GoIdle(w)
    BY <1>13, <2>1, <2>2
       DEF PersistReport, GoIdle, IdleWorker, TypeOK, WorkerHasJob, WorkerState, WorkerPC, InFlightPC
  <2>3. CASE Goto(w, "finish")
    BY <1>13, <2>1, <2>3
       DEF PersistReport, Goto, TypeOK, WorkerHasJob, WorkerState, WorkerPC, InFlightPC
  <2> QED
    BY <1>13, <2>2, <2>3 DEF PersistReport
<1>14. ASSUME NEW w \in Worker, Finish(w) PROVE TypeOK' /\ WorkerHasJob'
  <2> DEFINE j == worker[w].job
             row == Released(job[j], worker[w].final, job[j].notBefore)
  <2>1. j \in Job
    BY <1>14 DEF Finish, WorkerHasJob, InFlightPC
  <2>2. worker[w].final \in Status /\ job[j].notBefore \in Nat
    BY <2>1 DEF TypeOK, WorkerState, Status, Terminal, JobRow
  <2>3. row \in JobRow
    BY <2>1, <2>2, ReleasedRow DEF TypeOK
  <2>4. job' = [job EXCEPT ![j] = row]
    BY <1>14 DEF Finish
  <2> QED
    BY <1>14, <2>1, <2>3, <2>4
       DEF Finish, GoIdle, IdleWorker, TypeOK, WorkerHasJob, WorkerState, WorkerPC, InFlightPC
<1>15. ASSUME NEW w \in Worker, Abort(w) PROVE TypeOK' /\ WorkerHasJob'
  BY <1>15, QueueAssumption
     DEF Abort, GoIdle, IdleWorker, TypeOK, WorkerHasJob, WorkerState, WorkerPC, InFlightPC
<1>16. CASE Tick
  BY <1>16, QueueAssumption DEF Tick, TypeOK, WorkerHasJob
<1> QED
  BY <1>1, <1>2, <1>3, <1>4, <1>5, <1>6, <1>7, <1>11, <1>12, <1>13, <1>14, <1>15, <1>16
     DEF Next, WorkerStep

LEMMA TypeInit == Init => TypeOK /\ WorkerHasJob
BY QueueAssumption
   DEF Init, TypeOK, WorkerHasJob, Absent, JobRow, Status, Active, Waiting, TriggerType,
       IdleWorker, WorkerState, WorkerPC, InFlightPC, IdleCaller, CallerState

\* Every reachable state is well typed, whatever the number of workers.
THEOREM TypeCorrect == Spec => [](TypeOK /\ WorkerHasJob)
BY TypeInit, TypeStep, PTL DEF Spec
-----------------------------------------------------------------------------
(* One active job per dedupe key. *)

\* A table whose active rows are among the active rows of one that satisfies
\* the index, under the same keys, satisfies it too.
LEMMA DedupeKept ==
    ASSUME NEW old, NEW new, DedupeIndexHolds(old),
           \A j \in Job : new[j].status \in Active =>
               old[j].status \in Active /\ DedupeKey(new[j]) = DedupeKey(old[j])
    PROVE  DedupeIndexHolds(new)
BY DEF DedupeIndexHolds

LEMMA DedupeStep == TypeOK /\ WorkerHasJob /\ ActiveDedupe /\ [Next]_vars => ActiveDedupe'
<1> SUFFICES ASSUME TypeOK, WorkerHasJob, ActiveDedupe, [Next]_vars
             PROVE  DedupeIndexHolds(job')
  BY DEF ActiveDedupe, DedupeIndexHolds
<1> USE DEF ActiveDedupe
<1>1. CASE job' = job
  BY <1>1
<1>2. ASSUME NEW c \in Caller, Enqueue(c) PROVE DedupeIndexHolds(job')
  <2>1. PICK t \in Trigger, s \in Subject : EnqueueInsert(c, t, s)
    BY <1>2 DEF Enqueue
  <2> DEFINE key == <<Scope(t), s>>
  <2>2. CASE job' /= job
    <3>1. ~HasActive(key) /\ \E j \in Job : job' = [job EXCEPT ![j] = NewRow(t, s)]
      BY <2>1, <2>2 DEF EnqueueInsert
    <3>2. PICK j \in Job : job' = [job EXCEPT ![j] = NewRow(t, s)]
      BY <3>1
    <3>3. DedupeKey(NewRow(t, s)) = key
      BY DEF DedupeKey, NewRow, Absent
    <3> QED
      BY <3>1, <3>2, <3>3 DEF DedupeIndexHolds, HasActive, TypeOK
  <2> QED
    BY <1>1, <2>2
<1>3. ASSUME NEW w \in Worker, RecoverLeases(w) PROVE DedupeIndexHolds(job')
  <2>1. \A j \in Job : /\ job'[j].status \in Active => job[j].status \in Active
                       /\ DedupeKey(job'[j]) = DedupeKey(job[j])
    <3> TAKE j \in Job
    <3>1. CASE Recoverable(job[j])
      <4>1. job'[j] = Released(job[j], "RETRY", now)
        BY <1>3, <3>1 DEF RecoverLeases
      <4>2. job[j].status \in Active
        BY <3>1 DEF Recoverable, Active
      <4> QED
        BY <4>1, <4>2, ReleasedRow DEF TypeOK, DedupeKey, Status, Active, Waiting
    <3>2. CASE ~Recoverable(job[j])
      BY <1>3, <3>2 DEF RecoverLeases
    <3> QED
      BY <3>1, <3>2
  <2> QED
    BY <2>1, DedupeKept
<1>4. ASSUME NEW w \in Worker, ExpireJobs(w) PROVE DedupeIndexHolds(job')
  <2>1. \A j \in Job : job'[j].status \in Active => job'[j] = job[j]
    <3> TAKE j \in Job
    <3>1. CASE Expirable(job[j])
      <4>1. job'[j] = Released(job[j], "EXPIRED", job[j].notBefore)
        BY <1>4, <3>1 DEF ExpireJobs
      <4>2. job'[j].status = "EXPIRED"
        BY <4>1 DEF Released, TypeOK, JobRow
      <4> QED
        BY <4>2 DEF Active, Waiting
    <3>2. CASE ~Expirable(job[j])
      BY <1>4, <3>2 DEF ExpireJobs
    <3> QED
      BY <3>1, <3>2
  <2> QED
    BY <2>1, DedupeKept
<1>5. ASSUME NEW w \in Worker, ClaimJob(w) PROVE DedupeIndexHolds(job')
  <2>1. PICK j \in Job :
          /\ Claimable(job[j])
          /\ job' = [job EXCEPT ![j] = Claimed(job[j], w)]
    BY <1>5 DEF ClaimJob
  <2>2. job[j].status \in Active
    BY <2>1 DEF Claimable, Active
  <2>3. \A k \in Job : DedupeKey(job'[k]) = DedupeKey(job[k])
    BY <2>1 DEF Claimed, TypeOK, JobRow, DedupeKey
  <2>4. \A k \in Job : k /= j => job'[k] = job[k]
    BY <2>1 DEF TypeOK
  <2> QED
    BY <2>2, <2>3, <2>4, DedupeKept
<1>6. ASSUME NEW j, NEW status, NEW backoff, NEW failed, Requeue(j, status, backoff, failed)
      PROVE  DedupeIndexHolds(job')
  BY <1>6 DEF Requeue
<1>7. ASSUME NEW w \in Worker, Generated(w) PROVE DedupeIndexHolds(job')
  BY <1>1, <1>6, <1>7
     DEF Generated, GenerateBusy, GenerateRaised, GenerateLocalFailed, GenerateLocal,
         GenerateOther, RetryLater, Persist
<1>8. ASSUME NEW w \in Worker, Finish(w) PROVE DedupeIndexHolds(job')
  <2> DEFINE j == worker[w].job
             row == Released(job[j], worker[w].final, job[j].notBefore)
  <2>1. j \in Job
    BY <1>8 DEF Finish, WorkerHasJob, InFlightPC
  <2>2. /\ worker[w].final \in {"COMPLETED", "FALLBACK"}
        /\ job[j] \in JobRow
        /\ job[j].notBefore \in Nat
    BY <2>1 DEF TypeOK, WorkerState, JobRow
  <2>3. row.status \notin Active
    BY <2>2, ReleasedRow DEF Status, Terminal, Active, Waiting
  <2>4. job' = [job EXCEPT ![j] = row]
    BY <1>8 DEF Finish
  <2>5. \A k \in Job : job'[k].status \in Active => job'[k] = job[k]
    BY <2>1, <2>3, <2>4 DEF TypeOK
  <2> QED
    BY <2>5, DedupeKept
<1> QED
  BY <1>1, <1>2, <1>3, <1>4, <1>5, <1>7, <1>8
     DEF Next, WorkerStep, EnqueueSelect, ClaimNothing, PersistPlan, PersistReport,
         Abort, Tick, vars

\* At most one active job per dedupe key, for any number of workers and callers.
THEOREM DedupeCorrect == Spec => []ActiveDedupe
<1>1. Init => ActiveDedupe
  BY DEF Init, ActiveDedupe, DedupeIndexHolds, Absent, Active, Waiting
<1> QED
  BY <1>1, DedupeStep, TypeInit, TypeStep, PTL DEF Spec
-----------------------------------------------------------------------------
(* A finished job has a report. *)

\* A worker about to finish a job has its report in the table.
FinishingHasReport == \A w \in Worker : worker[w].pc = "finish" => worker[w].job \in reports

ReportInv == TerminalHasReport /\ FinishingHasReport

LEMMA ReportStep == TypeOK /\ WorkerHasJob /\ ReportInv /\ [Next]_vars => ReportInv'
<1> DEFINE Answered(table, j) == table[j].status \in {"COMPLETED", "FALLBACK"}
<1> SUFFICES ASSUME TypeOK, WorkerHasJob, ReportInv, [Next]_vars
             PROVE  TerminalHasReport' /\ FinishingHasReport'
  BY DEF ReportInv
<1>1. reports \subseteq reports'
  BY DEF Next, vars, Enqueue, EnqueueInsert, EnqueueSelect, WorkerStep, RecoverLeases,
         ExpireJobs, ClaimJob, ClaimNothing, Generated, GenerateBusy, GenerateRaised,
         GenerateLocalFailed, GenerateLocal, GenerateOther, RetryLater, Persist,
         PersistPlan, PersistReport, Finish, Abort, Tick
<1>2. FinishingHasReport'
  <2>1. ASSUME NEW w \in Worker, Goto(w, "finish"), worker[w].job \in reports'
        PROVE  FinishingHasReport'
    BY <1>1, <2>1 DEF Goto, FinishingHasReport, ReportInv, TypeOK, WorkerState
  <2>2. ASSUME NEW w \in Worker,
               \A v \in Worker : v /= w => worker'[v] = worker[v],
               worker'[w].pc /= "finish"
        PROVE  FinishingHasReport'
    BY <1>1, <2>2 DEF FinishingHasReport, ReportInv
  <2>3. CASE worker' = worker
    BY <1>1, <2>3 DEF FinishingHasReport, ReportInv
  <2>4. ASSUME NEW w \in Worker, GoIdle(w) PROVE FinishingHasReport'
    <3>1. worker'[w].pc = "idle" /\ \A v \in Worker : v /= w => worker'[v] = worker[v]
      BY <2>4 DEF GoIdle, IdleWorker, TypeOK
    <3> QED
      BY <2>2, <3>1
  <2>5. ASSUME NEW w \in Worker, NEW pc \in WorkerPC \ {"finish"}, Goto(w, pc)
        PROVE  FinishingHasReport'
    <3>1. worker'[w].pc = pc /\ \A v \in Worker : v /= w => worker'[v] = worker[v]
      BY <2>5 DEF Goto, TypeOK, WorkerState
    <3> QED
      BY <2>2, <3>1
  <2>6. ASSUME NEW w \in Worker, ClaimJob(w) PROVE FinishingHasReport'
    <3>1. worker'[w].pc = "generate" /\ \A v \in Worker : v /= w => worker'[v] = worker[v]
      BY <2>6 DEF ClaimJob, TypeOK
    <3> QED
      BY <2>2, <3>1
  <2>7. ASSUME NEW w \in Worker, NEW final, NEW writesPlan, Persist(w, final, writesPlan)
        PROVE  FinishingHasReport'
    <3>1. worker'[w].pc /= "finish" /\ \A v \in Worker : v /= w => worker'[v] = worker[v]
      BY <2>7 DEF Persist, TypeOK, WorkerState
    <3> QED
      BY <2>2, <3>1
  <2>8. ASSUME NEW w \in Worker, Generated(w) PROVE FinishingHasReport'
    BY <2>4, <2>7, <2>8
       DEF Generated, GenerateBusy, GenerateRaised, GenerateLocalFailed, GenerateLocal,
           GenerateOther, RetryLater
  <2>9. ASSUME NEW w \in Worker, PersistReport(w) PROVE FinishingHasReport'
    BY <2>1, <2>4, <2>9 DEF PersistReport
  <2> QED
    BY <2>3, <2>4, <2>5, <2>6, <2>8, <2>9
       DEF Next, vars, Enqueue, EnqueueInsert, EnqueueSelect, WorkerStep, RecoverLeases,
           ExpireJobs, ClaimNothing, PersistPlan, Finish, Abort, Tick, WorkerPC
<1>3. ASSUME NEW j \in Job, Answered(job', j) PROVE Answered(job, j) \/ j \in reports
  <2>1. CASE job' = job
    BY <1>3, <2>1
  <2>2. ASSUME NEW c \in Caller, Enqueue(c) PROVE Answered(job, j) \/ j \in reports
    <3>1. PICK t \in Trigger, s \in Subject : EnqueueInsert(c, t, s)
      BY <2>2 DEF Enqueue
    <3>2. NewRow(t, s).status = "QUEUED"
      BY DEF NewRow, Absent
    <3>3. job' = job \/ \E k \in Job : job' = [job EXCEPT ![k] = NewRow(t, s)]
      BY <3>1 DEF EnqueueInsert
    <3> QED
      BY <1>3, <3>2, <3>3 DEF TypeOK
  <2>3. ASSUME NEW w \in Worker, RecoverLeases(w) PROVE Answered(job, j) \/ j \in reports
    BY <1>3, <2>3 DEF RecoverLeases, Released, TypeOK, JobRow
  <2>4. ASSUME NEW w \in Worker, ExpireJobs(w) PROVE Answered(job, j) \/ j \in reports
    BY <1>3, <2>4 DEF ExpireJobs, Released, TypeOK, JobRow
  <2>5. ASSUME NEW w \in Worker, ClaimJob(w) PROVE Answered(job, j) \/ j \in reports
    BY <1>3, <2>5 DEF ClaimJob, Claimed, TypeOK, JobRow
  <2>6. ASSUME NEW k \in Job, NEW status \in Waiting, NEW backoff, NEW failed,
               Requeue(k, status, backoff, failed)
        PROVE  Answered(job, j) \/ j \in reports
    <3>1. job' = job \/ job' = [job EXCEPT ![k] = Requeued(job[k], status, now + backoff, failed)]
      BY <2>6 DEF Requeue, Requeued
    <3>2. job'[j] = job[j] \/ job'[j] = Requeued(job[j], status, now + backoff, failed)
      BY <3>1 DEF TypeOK
    <3>3. job[j] \in JobRow
      BY DEF TypeOK
    <3>4. Requeued(job[j], status, now + backoff, failed).status = status
      BY <3>3, RequeuedStatus
    <3>5. status \notin {"COMPLETED", "FALLBACK"}
      BY DEF Waiting
    <3> QED
      BY <1>3, <3>2, <3>4, <3>5
  <2>7. ASSUME NEW w \in Worker, Generated(w) PROVE Answered(job, j) \/ j \in reports
    <3>1. CASE job' = job
      BY <2>1, <3>1
    <3>2. CASE job' /= job
      <4>1. worker[w].job \in Job
        BY <2>7, <3>2
           DEF Generated, GenerateBusy, GenerateRaised, GenerateLocalFailed, GenerateLocal,
               GenerateOther, RetryLater, Persist, WorkerHasJob, InFlightPC
      <4> QED
        BY <2>6, <2>7, <3>2, <4>1
           DEF Generated, GenerateBusy, GenerateRaised, GenerateLocalFailed, GenerateLocal,
               GenerateOther, RetryLater, Persist, Waiting
    <3> QED
      BY <3>1, <3>2
  <2>8. ASSUME NEW w \in Worker, Finish(w) PROVE Answered(job, j) \/ j \in reports
    <3>1. worker[w].job \in reports
      BY <2>8 DEF Finish, FinishingHasReport, ReportInv
    <3>2. j /= worker[w].job => job'[j] = job[j]
      BY <2>8 DEF Finish, TypeOK
    <3> QED
      BY <1>3, <3>1, <3>2
  <2> QED
    BY <2>1, <2>2, <2>3, <2>4, <2>5, <2>7, <2>8
       DEF Next, WorkerStep, EnqueueSelect, ClaimNothing, PersistPlan, PersistReport,
           Abort, Tick, vars
<1>4. TerminalHasReport'
  BY <1>1, <1>3 DEF TerminalHasReport, ReportInv
<1> QED
  BY <1>2, <1>4

\* Every COMPLETED or FALLBACK job has its assessment in the report table, for
\* any number of workers, crashes and lost leases.
THEOREM ReportCorrect == Spec => []TerminalHasReport
<1>1. Init => ReportInv
  BY DEF Init, ReportInv, TerminalHasReport, FinishingHasReport, Absent, IdleWorker
<1>2. ReportInv => TerminalHasReport
  BY DEF ReportInv
<1> QED
  BY <1>1, <1>2, ReportStep, TypeInit, TypeStep, PTL DEF Spec
-----------------------------------------------------------------------------
(* Attempts and failures.                                                  *)
(*                                                                         *)
(* A failure is counted by a worker in flight whose attempt is below the   *)
(* maximum, and no two such workers of a job hold the same attempt: the    *)
(* failures counted and those still to come are at most MaxAttempts - 1.   *)

\* The attempts at j that may still be counted as failures.
Held(j) ==
    {worker[w].attempt : w \in {v \in Worker : /\ worker[v].pc \in InFlightPC
                                               /\ worker[v].job = j
                                               /\ worker[v].attempt < MaxAttempts(j)}}

\* A worker is at a job that was enqueued.
AtEnqueuedJob ==
    \A w \in Worker : worker[w].pc \in InFlightPC => job[worker[w].job].status /= "ABSENT"

FailuresBounded ==
    \A j \in Job :
        /\ job[j].failures + Cardinality(Held(j)) <= job[j].attempts
        /\ job[j].failures + Cardinality(Held(j)) <= MaxAttempts(j) - 1

ClaimInv == AttemptIdentifiesClaim /\ AtEnqueuedJob /\ FailuresBounded

\* What a step that is neither a claim nor a counted failure does to a row ...
CountsKept(old, new) ==
    /\ new.attempts = old.attempts
    /\ new.failures = old.failures
    /\ new.trigger = old.trigger
    /\ old.status /= "ABSENT" => new.status /= "ABSENT"

EnqueuedNow(old, new) ==
    old.status = "ABSENT" /\ new.status /= "ABSENT" /\ new.attempts = 0 /\ new.failures = 0
    /\ new.trigger \in TriggerType

\* ... and to the workers.
NobodyNew ==
    \A w \in Worker : worker'[w].pc \in InFlightPC =>
        /\ worker[w].pc \in InFlightPC
        /\ worker'[w].job = worker[w].job
        /\ worker'[w].attempt = worker[w].attempt

QuietStep ==
    /\ NobodyNew
    /\ \A j \in Job : CountsKept(job[j], job'[j]) \/ EnqueuedNow(job[j], job'[j])

LEMMA PolicyAttempts == \A t \in TriggerType : QueuePolicy[t].maxAttempts \in Nat \ {0}
BY DEF TriggerType, QueuePolicy

\* A released row keeps its counts.
LEMMA ReleasedCounts ==
    ASSUME NEW row \in JobRow, NEW status \in Status \ {"ABSENT"}, NEW t \in Nat
    PROVE  CountsKept(row, Released(row, status, t))
BY DEF CountsKept, Released, JobRow

\* A worker that goes on, or idle, starts no attempt.
LEMMA GoingOnIsQuiet ==
    ASSUME TypeOK, NEW w \in Worker,
           \/ worker' = worker
           \/ GoIdle(w)
           \/ \E pc \in WorkerPC : Goto(w, pc) /\ (pc \in InFlightPC => worker[w].pc \in InFlightPC)
           \/ \E final, writesPlan : Persist(w, final, writesPlan)
    PROVE  NobodyNew
<1>1. CASE worker' = worker
  BY <1>1 DEF NobodyNew
<1>2. CASE GoIdle(w)
  BY <1>2 DEF GoIdle, IdleWorker, InFlightPC, NobodyNew, TypeOK
<1>3. ASSUME NEW pc \in WorkerPC, Goto(w, pc), pc \in InFlightPC => worker[w].pc \in InFlightPC
      PROVE  NobodyNew
  BY <1>3 DEF Goto, NobodyNew, TypeOK, WorkerState
<1>4. ASSUME NEW final, NEW writesPlan, Persist(w, final, writesPlan)
      PROVE  NobodyNew
  <2>1. \A v \in Worker : worker'[v].job = worker[v].job /\ worker'[v].attempt = worker[v].attempt
    <3> DEFINE pc == IF writesPlan THEN "plan" ELSE "report"
    <3>1. worker' = [worker EXCEPT ![w].pc = pc, ![w].final = final]
      BY <1>4 DEF Persist
    <3> HIDE DEF pc
    <3> QED
      BY <3>1 DEF TypeOK, WorkerState
  <2>2. worker[w].pc \in InFlightPC /\ \A v \in Worker : v /= w => worker'[v] = worker[v]
    BY <1>4 DEF Persist, InFlightPC, TypeOK
  <2> QED
    BY <2>1, <2>2 DEF NobodyNew
<1> QED
  BY <1>1, <1>2, <1>3, <1>4

\* A failure that is counted: the row of the worker's job, and the worker gone.
CountedFailure(w) ==
    /\ worker[w].pc = "generate"
    /\ AttemptsLeft(w)
    /\ GoIdle(w)
    /\ \A j \in Job :
        \/ CountsKept(job[j], job'[j])
        \/ /\ j = worker[w].job
           /\ CountsKept([job[j] EXCEPT !.failures = @ + 1], job'[j])

LEMMA RequeuedCounts ==
    ASSUME TypeOK, NEW k \in Job, NEW status \in Waiting, NEW backoff \in Nat,
           NEW failed \in Nat, Requeue(k, status, backoff, failed)
    PROVE  \A j \in Job :
               \/ CountsKept(job[j], job'[j])
               \/ j = k /\ CountsKept([job[j] EXCEPT !.failures = @ + failed], job'[j])
<1> SUFFICES ASSUME NEW j \in Job, job'[j] /= job[j]
             PROVE  j = k /\ CountsKept([job[j] EXCEPT !.failures = @ + failed], job'[j])
  BY DEF CountsKept
<1>1. job' = [job EXCEPT ![k] = Requeued(job[k], status, now + backoff, failed)]
  BY DEF Requeue, Requeued
<1>2. j = k /\ job'[j] = Requeued(job[j], status, now + backoff, failed)
  BY <1>1 DEF TypeOK
<1>3. job[j] \in JobRow /\ status /= "ABSENT"
  BY DEF TypeOK, Waiting
<1> QED
  BY <1>2, <1>3 DEF CountsKept, Requeued, Released, JobRow

\* The three ways a step bears on attempts and failures.
LEMMA StepKinds ==
    TypeOK /\ WorkerHasJob /\ [Next]_vars =>
        \/ QuietStep
        \/ \E w \in Worker : ClaimJob(w)
        \/ \E w \in Worker : CountedFailure(w)
<1> SUFFICES ASSUME TypeOK, WorkerHasJob, [Next]_vars
             PROVE  \/ QuietStep
                    \/ \E w \in Worker : ClaimJob(w)
                    \/ \E w \in Worker : CountedFailure(w)
  OBVIOUS
<1>1. ASSUME job' = job, NobodyNew PROVE QuietStep
  BY <1>1 DEF QuietStep, CountsKept
<1>2. CASE UNCHANGED vars
  BY <1>1, <1>2 DEF vars, NobodyNew
<1>3. ASSUME NEW c \in Caller, Enqueue(c) PROVE QuietStep
  <2>1. PICK t \in Trigger, s \in Subject : EnqueueInsert(c, t, s)
    BY <1>3 DEF Enqueue
  <2>2. NobodyNew
    BY <2>1 DEF EnqueueInsert, NobodyNew
  <2>3. ASSUME NEW k \in Job, job[k].status = "ABSENT", job' = [job EXCEPT ![k] = NewRow(t, s)]
        PROVE  QuietStep
    <3>1. t \in TriggerType
      BY QueueAssumption
    <3>2. EnqueuedNow(job[k], NewRow(t, s))
      BY <2>3, <3>1 DEF EnqueuedNow, NewRow, Absent
    <3> QED
      BY <2>2, <2>3, <3>2 DEF QuietStep, CountsKept, TypeOK
  <2> QED
    BY <1>1, <2>1, <2>2, <2>3 DEF EnqueueInsert
<1>4. ASSUME NEW c \in Caller, EnqueueSelect(c) PROVE QuietStep
  BY <1>1, <1>4 DEF EnqueueSelect, NobodyNew
<1>5. ASSUME NEW w \in Worker, RecoverLeases(w) PROVE QuietStep
  <2>1. NobodyNew
    BY <1>5, GoingOnIsQuiet DEF RecoverLeases, WorkerPC, InFlightPC
  <2>2. \A j \in Job : CountsKept(job[j], Released(job[j], "RETRY", now))
    BY ReleasedCounts DEF TypeOK, Status, Active, Waiting
  <2> QED
    BY <1>5, <2>1, <2>2 DEF RecoverLeases, QuietStep, CountsKept
<1>6. ASSUME NEW w \in Worker, ExpireJobs(w) PROVE QuietStep
  <2>1. NobodyNew
    BY <1>6, GoingOnIsQuiet DEF ExpireJobs, WorkerPC, InFlightPC
  <2>2. \A j \in Job : CountsKept(job[j], Released(job[j], "EXPIRED", job[j].notBefore))
    BY ReleasedCounts DEF TypeOK, Status, Terminal, JobRow
  <2> QED
    BY <1>6, <2>1, <2>2 DEF ExpireJobs, QuietStep, CountsKept
<1>7. ASSUME NEW w \in Worker, ClaimNothing(w) PROVE QuietStep
  BY <1>1, <1>7, GoingOnIsQuiet DEF ClaimNothing
<1>8. ASSUME NEW w \in Worker, GenerateBusy(w) PROVE QuietStep
  <2>1. NobodyNew
    BY <1>8, GoingOnIsQuiet DEF GenerateBusy
  <2>2. worker[w].job \in Job /\ worker[w].attempt \in Nat
    BY <1>8 DEF GenerateBusy, WorkerHasJob, InFlightPC, TypeOK, WorkerState
  <2>3. BackoffTicks(worker[w].attempt, TRUE) \in Nat
    BY <2>2, PolicyTicks
  <2>4. \A j \in Job :
          \/ CountsKept(job[j], job'[j])
          \/ CountsKept([job[j] EXCEPT !.failures = @ + 0], job'[j])
    BY <1>8, <2>2, <2>3, RequeuedCounts DEF GenerateBusy, Waiting
  <2>5. \A j \in Job : [job[j] EXCEPT !.failures = @ + 0] = job[j]
    BY DEF TypeOK, JobRow
  <2> QED
    BY <2>1, <2>4, <2>5 DEF QuietStep
<1>9. ASSUME NEW w \in Worker, RetryLater(w) PROVE CountedFailure(w)
  <2>1. worker[w].job \in Job /\ worker[w].attempt \in Nat
    BY <1>9 DEF RetryLater, WorkerHasJob, InFlightPC, TypeOK, WorkerState
  <2>2. BackoffTicks(worker[w].attempt, FALSE) \in Nat
    BY <2>1, PolicyTicks
  <2> QED
    BY <1>9, <2>1, <2>2, RequeuedCounts DEF RetryLater, CountedFailure, Waiting
<1>10. ASSUME NEW w \in Worker, NEW final, NEW writesPlan, Persist(w, final, writesPlan)
       PROVE  QuietStep
  BY <1>1, <1>10, GoingOnIsQuiet DEF Persist
<1>11. ASSUME NEW w \in Worker, Generated(w) PROVE QuietStep \/ CountedFailure(w)
  BY <1>8, <1>9, <1>10, <1>11
     DEF Generated, GenerateRaised, GenerateLocalFailed, GenerateLocal, GenerateOther
<1>12. ASSUME NEW w \in Worker, PersistPlan(w) PROVE QuietStep
  <2>1. NobodyNew
    BY <1>12, GoingOnIsQuiet DEF PersistPlan, WorkerPC, InFlightPC
  <2> QED
    BY <1>1, <1>12, <2>1 DEF PersistPlan
<1>13. ASSUME NEW w \in Worker, PersistReport(w) PROVE QuietStep
  <2>1. NobodyNew
    BY <1>13, GoingOnIsQuiet DEF PersistReport, WorkerPC, InFlightPC
  <2> QED
    BY <1>1, <1>13, <2>1 DEF PersistReport
<1>14. ASSUME NEW w \in Worker, Finish(w) PROVE QuietStep
  <2> DEFINE k == worker[w].job
  <2>1. NobodyNew
    BY <1>14, GoingOnIsQuiet DEF Finish
  <2>2. k \in Job
    BY <1>14 DEF Finish, WorkerHasJob, InFlightPC
  <2>3. /\ worker[w].final \in Status \ {"ABSENT"}
        /\ job[k] \in JobRow
        /\ job[k].notBefore \in Nat
    BY <2>2 DEF TypeOK, WorkerState, JobRow, Status, Terminal
  <2>4. CountsKept(job[k], Released(job[k], worker[w].final, job[k].notBefore))
    BY <2>3, ReleasedCounts
  <2> QED
    BY <1>14, <2>1, <2>2, <2>4 DEF Finish, QuietStep, CountsKept, TypeOK
<1>15. ASSUME NEW w \in Worker, Abort(w) PROVE QuietStep
  BY <1>1, <1>15, GoingOnIsQuiet DEF Abort
<1>16. CASE Tick
  BY <1>1, <1>16 DEF Tick, NobodyNew
<1> QED
  BY <1>2, <1>3, <1>4, <1>5, <1>6, <1>7, <1>11, <1>12, <1>13, <1>14, <1>15, <1>16
     DEF Next, WorkerStep
-----------------------------------------------------------------------------
\* The attempts held at a job are finitely many numbers below its maximum.
LEMMA HeldFinite ==
    ASSUME TypeOK, AttemptIdentifiesClaim, NEW j \in Job
    PROVE  /\ IsFiniteSet(Held(j))
           /\ Cardinality(Held(j)) \in Nat
           /\ MaxAttempts(j) \in Nat
<1>1. MaxAttempts(j) \in Nat
  BY PolicyAttempts DEF MaxAttempts, TypeOK, JobRow
<1>2. Held(j) \subseteq 0..MaxAttempts(j)
  BY <1>1 DEF Held, TypeOK, WorkerState
<1>3. IsFiniteSet(0..MaxAttempts(j))
  BY <1>1, FS_Interval
<1> QED
  BY <1>1, <1>2, <1>3, FS_Subset, FS_CardinalityType

\* Fewer attempts held, nothing counted: the bound stays.
LEMMA FewerHeld ==
    ASSUME TypeOK, TypeOK', AttemptIdentifiesClaim, FailuresBounded, NEW j \in Job,
           CountsKept(job[j], job'[j]), Held(j)' \subseteq Held(j)
    PROVE  /\ job'[j].failures + Cardinality(Held(j)') <= job'[j].attempts
           /\ job'[j].failures + Cardinality(Held(j)') <= MaxAttempts(j)' - 1
<1>1. IsFiniteSet(Held(j)) /\ Cardinality(Held(j)) \in Nat /\ MaxAttempts(j) \in Nat
  BY HeldFinite
<1>2. Cardinality(Held(j)') <= Cardinality(Held(j)) /\ Cardinality(Held(j)') \in Nat
  BY <1>1, FS_Subset, FS_CardinalityType
<1>3. MaxAttempts(j)' = MaxAttempts(j)
  BY DEF CountsKept, MaxAttempts
<1>4. job[j].failures \in Nat /\ job[j].attempts \in Nat
  BY DEF TypeOK, JobRow
<1> QED
  BY <1>1, <1>2, <1>3, <1>4 DEF FailuresBounded, CountsKept

\* A quiet step.
LEMMA QuietKeeps ==
    TypeOK /\ TypeOK' /\ WorkerHasJob /\ ClaimInv /\ QuietStep => ClaimInv'
<1> SUFFICES ASSUME TypeOK, TypeOK', WorkerHasJob, ClaimInv, QuietStep
             PROVE  ClaimInv'
  OBVIOUS
<1> USE DEF ClaimInv
<1>1. \A w \in Worker : worker'[w].pc \in InFlightPC =>
          /\ worker[w].pc \in InFlightPC
          /\ worker[w].job \in Job
          /\ worker'[w].job = worker[w].job
          /\ worker'[w].attempt = worker[w].attempt
          /\ CountsKept(job[worker[w].job], job'[worker[w].job])
          /\ job'[worker[w].job].status /= "ABSENT"
  BY DEF QuietStep, NobodyNew, WorkerHasJob, AtEnqueuedJob, EnqueuedNow, CountsKept
<1>2. AttemptIdentifiesClaim'
  BY <1>1 DEF AttemptIdentifiesClaim, CountsKept
<1>3. AtEnqueuedJob'
  BY <1>1 DEF AtEnqueuedJob
<1>4. ASSUME NEW j \in Job
      PROVE  /\ job'[j].failures + Cardinality(Held(j)') <= job'[j].attempts
             /\ job'[j].failures + Cardinality(Held(j)') <= MaxAttempts(j)' - 1
  <2>1. CASE CountsKept(job[j], job'[j])
    <3>1. MaxAttempts(j)' = MaxAttempts(j)
      BY <2>1 DEF CountsKept, MaxAttempts
    <3>2. Held(j)' \subseteq Held(j)
      BY <1>1, <3>1 DEF Held
    <3> QED
      BY <2>1, <3>2, FewerHeld
  <2>2. CASE EnqueuedNow(job[j], job'[j])
    <3>1. Held(j)' = {}
      BY <1>1, <2>2 DEF Held, AtEnqueuedJob, EnqueuedNow
    <3>2. MaxAttempts(j)' \in Nat \ {0}
      BY <2>2, PolicyAttempts DEF MaxAttempts, EnqueuedNow
    <3>3. Cardinality({}) = 0
      BY FS_EmptySet
    <3>4. Cardinality(Held(j)') = 0
      BY <3>1, <3>3
    <3> QED
      BY <2>2, <3>2, <3>4 DEF EnqueuedNow
  <2> QED
    BY <2>1, <2>2 DEF QuietStep
<1> QED
  BY <1>2, <1>3, <1>4 DEF FailuresBounded

\* A part of a finite set with one element added.
LEMMA OneMoreElement ==
    ASSUME NEW S, NEW x, IsFiniteSet(S), NEW T, T \subseteq S \cup {x}
    PROVE  Cardinality(T) \in Nat /\ Cardinality(T) <= Cardinality(S) + 1
<1>1. Cardinality(S) \in Nat
  BY FS_CardinalityType
<1>2. IsFiniteSet(S \cup {x}) /\ Cardinality(S \cup {x}) <= Cardinality(S) + 1
  BY <1>1, FS_AddElement
<1>3. IsFiniteSet(T) /\ Cardinality(T) <= Cardinality(S \cup {x})
  BY <1>2, FS_Subset
<1>4. Cardinality(T) \in Nat /\ Cardinality(S \cup {x}) \in Nat
  BY <1>2, <1>3, FS_CardinalityType
<1> QED
  BY <1>1, <1>2, <1>3, <1>4

\* A claim takes the next attempt: it is held by nobody else, and it may become
\* a failure only while it is below the maximum.
LEMMA ClaimKeeps ==
    ASSUME TypeOK, TypeOK', WorkerHasJob, ClaimInv, NEW w \in Worker, ClaimJob(w)
    PROVE  ClaimInv'
<1> USE DEF ClaimInv
<1>1. PICK j \in Job :
        /\ Claimable(job[j])
        /\ job' = [job EXCEPT ![j] = Claimed(job[j], w)]
        /\ worker' = [worker EXCEPT ![w] =
                        [pc |-> "generate", job |-> j, attempt |-> Claimed(job[j], w).attempts,
                         cloud |-> CloudWaitElapsed(j), final |-> "FALLBACK"]]
  BY DEF ClaimJob
<1> DEFINE a == job[j].attempts + 1
<1>2. /\ job[j].attempts \in Nat /\ job[j].failures \in Nat
      /\ job'[j].attempts = a /\ job'[j].failures = job[j].failures
      /\ job'[j].trigger = job[j].trigger /\ job'[j].status = "RUNNING"
      /\ Claimed(job[j], w).attempts = a
  BY <1>1 DEF Claimed, TypeOK, JobRow
<1>3. \A k \in Job : k /= j => job'[k] = job[k]
  BY <1>1 DEF TypeOK
<1>4. /\ worker'[w].pc = "generate" /\ worker'[w].job = j /\ worker'[w].attempt = a
      /\ \A v \in Worker : v /= w => worker'[v] = worker[v]
      /\ worker[w].pc \notin InFlightPC
  BY <1>1, <1>2 DEF ClaimJob, TypeOK, InFlightPC
<1> HIDE DEF a
<1>5. a \in Nat /\ a > job[j].attempts /\ a = job[j].attempts + 1
  BY <1>2 DEF a
<1>6. \A v \in Worker : v /= w /\ worker[v].pc \in InFlightPC =>
          /\ worker[v].job \in Job
          /\ worker[v].attempt \in 1..job[worker[v].job].attempts
          /\ worker[v].job = j => worker[v].attempt /= a
  BY <1>2, <1>5 DEF AttemptIdentifiesClaim, WorkerHasJob
<1>7. AttemptIdentifiesClaim'
  <2>1. \A v \in Worker : worker'[v].pc \in InFlightPC =>
            worker'[v].attempt \in 1..job'[worker'[v].job].attempts
    <3> SUFFICES ASSUME NEW v \in Worker, worker'[v].pc \in InFlightPC
                 PROVE  worker'[v].attempt \in 1..job'[worker'[v].job].attempts
      OBVIOUS
    <3>1. CASE v = w
      BY <1>2, <1>4, <1>5, <3>1
    <3>2. CASE v /= w
      <4>1. /\ worker'[v] = worker[v] /\ worker[v].job \in Job
            /\ worker[v].attempt \in 1..job[worker[v].job].attempts
        BY <1>4, <1>6, <3>2
      <4>2. CASE worker[v].job = j
        BY <1>2, <1>5, <4>1, <4>2
      <4>3. CASE worker[v].job /= j
        BY <1>3, <4>1, <4>3
      <4> QED
        BY <4>2, <4>3
    <3> QED
      BY <3>1, <3>2
  <2>2. \A u, v \in Worker :
            /\ u /= v
            /\ worker'[u].pc \in InFlightPC
            /\ worker'[v].pc \in InFlightPC
            /\ worker'[u].job = worker'[v].job
            => worker'[u].attempt /= worker'[v].attempt
    <3> SUFFICES ASSUME NEW u \in Worker, NEW v \in Worker, u /= v,
                        worker'[u].pc \in InFlightPC, worker'[v].pc \in InFlightPC,
                        worker'[u].job = worker'[v].job
                 PROVE  worker'[u].attempt /= worker'[v].attempt
      OBVIOUS
    <3>1. CASE u = w
      BY <1>4, <1>6, <3>1
    <3>2. CASE v = w
      BY <1>4, <1>6, <3>2
    <3>3. CASE u /= w /\ v /= w
      BY <1>4, <3>3 DEF AttemptIdentifiesClaim
    <3> QED
      BY <3>1, <3>2, <3>3
  <2> QED
    BY <2>1, <2>2 DEF AttemptIdentifiesClaim
<1>8. AtEnqueuedJob'
  <2> SUFFICES ASSUME NEW v \in Worker, worker'[v].pc \in InFlightPC
               PROVE  job'[worker'[v].job].status /= "ABSENT"
    BY DEF AtEnqueuedJob
  <2>1. CASE v = w
    BY <1>2, <1>4, <2>1
  <2>2. CASE v /= w
    BY <1>2, <1>3, <1>4, <1>6, <2>2 DEF AtEnqueuedJob
  <2> QED
    BY <2>1, <2>2
<1>9. ASSUME NEW k \in Job, k /= j
      PROVE  /\ job'[k].failures + Cardinality(Held(k)') <= job'[k].attempts
             /\ job'[k].failures + Cardinality(Held(k)') <= MaxAttempts(k)' - 1
  <2>1. CountsKept(job[k], job'[k]) /\ MaxAttempts(k)' = MaxAttempts(k)
    BY <1>3, <1>9 DEF CountsKept, MaxAttempts
  <2>2. Held(k)' \subseteq Held(k)
    BY <1>4, <1>9, <2>1 DEF Held
  <2> QED
    BY <2>1, <2>2, FewerHeld
<1>10. /\ job'[j].failures + Cardinality(Held(j)') <= job'[j].attempts
       /\ job'[j].failures + Cardinality(Held(j)') <= MaxAttempts(j)' - 1
  <2>1. MaxAttempts(j)' = MaxAttempts(j)
    BY <1>2 DEF MaxAttempts
  <2>2. IsFiniteSet(Held(j)) /\ Cardinality(Held(j)) \in Nat /\ MaxAttempts(j) \in Nat
    BY HeldFinite
  <2>3. /\ job[j].failures + Cardinality(Held(j)) <= job[j].attempts
        /\ job[j].failures + Cardinality(Held(j)) <= MaxAttempts(j) - 1
    BY DEF FailuresBounded
  <2>4. CASE a < MaxAttempts(j)
    <3>1. Held(j)' \subseteq Held(j) \cup {a}
      BY <1>4, <2>1 DEF Held
    <3>2. Cardinality(Held(j)') \in Nat /\ Cardinality(Held(j)') <= Cardinality(Held(j)) + 1
      BY <2>2, <3>1, OneMoreElement
    <3> QED
      BY <1>2, <1>5, <2>1, <2>2, <2>3, <2>4, <3>2
  <2>5. CASE ~(a < MaxAttempts(j))
    <3>1. Held(j)' \subseteq Held(j)
      BY <1>4, <2>1, <2>5 DEF Held
    <3>2. Cardinality(Held(j)') <= Cardinality(Held(j)) /\ Cardinality(Held(j)') \in Nat
      BY <2>2, <3>1, FS_Subset, FS_CardinalityType
    <3> QED
      BY <1>2, <1>5, <2>1, <2>2, <2>3, <3>2
  <2> QED
    BY <2>4, <2>5
<1> QED
  BY <1>7, <1>8, <1>9, <1>10 DEF FailuresBounded

\* A counted failure trades an attempt that was held for a failure.
LEMMA FailureKeeps ==
    ASSUME TypeOK, TypeOK', WorkerHasJob, ClaimInv, NEW w \in Worker, CountedFailure(w)
    PROVE  ClaimInv'
<1> USE DEF ClaimInv
<1>a. PICK j, a : j = worker[w].job /\ a = worker[w].attempt
  OBVIOUS
<1>1. j \in Job /\ a \in Nat /\ worker[w].pc \in InFlightPC /\ a < MaxAttempts(j)
  BY <1>a DEF CountedFailure, AttemptsLeft, WorkerHasJob, InFlightPC, TypeOK, WorkerState
<1>2. /\ \A v \in Worker : v /= w => worker'[v] = worker[v]
      /\ worker'[w].pc \notin InFlightPC
  BY DEF CountedFailure, GoIdle, IdleWorker, InFlightPC, TypeOK
<1>3. \A k \in Job : /\ job'[k].attempts = job[k].attempts
                     /\ job'[k].trigger = job[k].trigger
                     /\ MaxAttempts(k)' = MaxAttempts(k)
                     /\ job[k].status /= "ABSENT" => job'[k].status /= "ABSENT"
  <2>1. \A k \in Job : LET up == [job[k] EXCEPT !.failures = @ + 1] IN
            up.attempts = job[k].attempts /\ up.trigger = job[k].trigger /\ up.status = job[k].status
    BY DEF TypeOK, JobRow
  <2> QED
    BY <2>1 DEF CountedFailure, CountsKept, MaxAttempts
<1>4. AttemptIdentifiesClaim'
  BY <1>2, <1>3 DEF AttemptIdentifiesClaim, WorkerHasJob
<1>5. AtEnqueuedJob'
  BY <1>2, <1>3 DEF AtEnqueuedJob, WorkerHasJob
<1>6. ASSUME NEW k \in Job, CountsKept(job[k], job'[k])
      PROVE  /\ job'[k].failures + Cardinality(Held(k)') <= job'[k].attempts
             /\ job'[k].failures + Cardinality(Held(k)') <= MaxAttempts(k)' - 1
  <2>1. Held(k)' \subseteq Held(k)
    BY <1>2, <1>3 DEF Held
  <2> QED
    BY <1>6, <2>1, FewerHeld
<1>7. ASSUME CountsKept([job[j] EXCEPT !.failures = @ + 1], job'[j])
      PROVE  /\ job'[j].failures + Cardinality(Held(j)') <= job'[j].attempts
             /\ job'[j].failures + Cardinality(Held(j)') <= MaxAttempts(j)' - 1
  <2>1. job[j].failures \in Nat /\ job'[j].failures = job[j].failures + 1
    BY <1>1, <1>7 DEF CountsKept, TypeOK, JobRow
  <2>2. Held(j)' \subseteq Held(j) \ {a}
    BY <1>a, <1>1, <1>2, <1>3 DEF Held, AttemptIdentifiesClaim
  <2>3. a \in Held(j)
    BY <1>a, <1>1 DEF Held
  <2>4. IsFiniteSet(Held(j)) /\ Cardinality(Held(j)) \in Nat /\ MaxAttempts(j) \in Nat
    BY <1>1, HeldFinite
  <2>5. IsFiniteSet(Held(j) \ {a}) /\ Cardinality(Held(j) \ {a}) = Cardinality(Held(j)) - 1
    BY <2>3, <2>4, FS_RemoveElement
  <2>6. Cardinality(Held(j)') <= Cardinality(Held(j)) - 1 /\ Cardinality(Held(j)') \in Nat
    BY <2>2, <2>5, FS_Subset, FS_CardinalityType
  <2>7. /\ job[j].failures + Cardinality(Held(j)) <= job[j].attempts
        /\ job[j].failures + Cardinality(Held(j)) <= MaxAttempts(j) - 1
    BY <1>1 DEF FailuresBounded
  <2>8. job[j].attempts \in Nat /\ job'[j].attempts = job[j].attempts /\ MaxAttempts(j)' = MaxAttempts(j)
    BY <1>1, <1>3 DEF TypeOK, JobRow
  <2> QED
    BY <2>1, <2>4, <2>6, <2>7, <2>8
<1> QED
  BY <1>a, <1>4, <1>5, <1>6, <1>7 DEF FailuresBounded, CountedFailure

LEMMA ClaimInit == Init => ClaimInv
<1> SUFFICES ASSUME Init PROVE ClaimInv
  OBVIOUS
<1>1. \A j \in Job : Held(j) = {} /\ job[j].failures = 0 /\ job[j].attempts = 0
                     /\ MaxAttempts(j) \in Nat \ {0}
  BY PolicyAttempts
     DEF Init, Held, IdleWorker, InFlightPC, Absent, MaxAttempts, TriggerType
<1>2. Cardinality({}) = 0
  BY FS_EmptySet
<1>3. FailuresBounded
  BY <1>1, <1>2 DEF FailuresBounded
<1> QED
  BY <1>3 DEF ClaimInv, Init, IdleWorker, InFlightPC, AttemptIdentifiesClaim, AtEnqueuedJob

LEMMA ClaimStep ==
    TypeOK /\ WorkerHasJob /\ ClaimInv /\ [Next]_vars => ClaimInv'
BY TypeStep, StepKinds, QuietKeeps, ClaimKeeps, FailureKeeps

\* attempt_count tells the workers at a job apart, however many there are and
\* whatever leases run out under them.
THEOREM AttemptCorrect == Spec => []AttemptIdentifiesClaim
<1>1. ClaimInv => AttemptIdentifiesClaim
  BY DEF ClaimInv
<1> QED
  BY <1>1, ClaimInit, ClaimStep, TypeInit, TypeStep, PTL DEF Spec

\* The failures counted at a job stay below max_attempts, for any number of
\* workers, crashes and lost leases.
THEOREM BudgetCorrect == Spec => []FailureBudget
<1>1. TypeOK /\ ClaimInv => FailureBudget
  <2> SUFFICES ASSUME TypeOK, ClaimInv, NEW j \in Job
               PROVE  job[j].failures <= MaxAttempts(j) - 1
    BY DEF FailureBudget
  <2>1. Cardinality(Held(j)) \in Nat /\ MaxAttempts(j) \in Nat
    BY HeldFinite DEF ClaimInv
  <2>2. job[j].failures \in Nat /\ job[j].failures + Cardinality(Held(j)) <= MaxAttempts(j) - 1
    BY DEF TypeOK, JobRow, ClaimInv, FailuresBounded
  <2> QED
    BY <2>1, <2>2
<1> QED
  BY <1>1, ClaimInit, ClaimStep, TypeInit, TypeStep, PTL DEF Spec
-----------------------------------------------------------------------------
(* The promise, of one worker process.                                     *)

OneWorker == \A v, w \in Worker : v = w

\* While the only worker is at a job, nobody recovers, expires or claims it.
InFlightRunning ==
    \A w \in Worker : worker[w].pc \in InFlightPC => job[worker[w].job].status = "RUNNING"

LEMMA RunningStep ==
    ASSUME OneWorker
    PROVE  TypeOK /\ WorkerHasJob /\ InFlightRunning /\ [Next]_vars => InFlightRunning'
<1> SUFFICES ASSUME TypeOK, WorkerHasJob, InFlightRunning, [Next]_vars
             PROVE  InFlightRunning'
  OBVIOUS
<1>1. ASSUME job' = job, NobodyNew PROVE InFlightRunning'
  BY <1>1 DEF InFlightRunning, NobodyNew
<1>2. ASSUME NEW w \in Worker, worker'[w].pc \notin InFlightPC PROVE InFlightRunning'
  BY <1>2 DEF InFlightRunning, OneWorker
<1>3. CASE UNCHANGED vars
  BY <1>1, <1>3 DEF vars, NobodyNew
<1>4. ASSUME NEW c \in Caller, Enqueue(c) PROVE InFlightRunning'
  <2>1. PICK t \in Trigger, s \in Subject : EnqueueInsert(c, t, s)
    BY <1>4 DEF Enqueue
  <2>2. worker' = worker /\ \A j \in Job : job[j].status /= "ABSENT" => job'[j] = job[j]
    BY <2>1 DEF EnqueueInsert, TypeOK
  <2> QED
    BY <2>2 DEF InFlightRunning, WorkerHasJob
<1>5. ASSUME NEW c \in Caller, EnqueueSelect(c) PROVE InFlightRunning'
  BY <1>1, <1>5 DEF EnqueueSelect, NobodyNew
<1>6. ASSUME NEW w \in Worker, RecoverLeases(w) PROVE InFlightRunning'
  BY <1>2, <1>6 DEF RecoverLeases, Goto, TypeOK, WorkerState, InFlightPC
<1>7. ASSUME NEW w \in Worker, ExpireJobs(w) PROVE InFlightRunning'
  BY <1>2, <1>7 DEF ExpireJobs, Goto, TypeOK, WorkerState, InFlightPC
<1>8. ASSUME NEW w \in Worker, ClaimJob(w) PROVE InFlightRunning'
  <2>1. PICK j \in Job :
          /\ job' = [job EXCEPT ![j] = Claimed(job[j], w)]
          /\ worker' = [worker EXCEPT ![w] =
                          [pc |-> "generate", job |-> j, attempt |-> Claimed(job[j], w).attempts,
                           cloud |-> CloudWaitElapsed(j), final |-> "FALLBACK"]]
    BY <1>8 DEF ClaimJob
  <2>2. worker'[w].job = j /\ job'[j].status = "RUNNING"
    BY <2>1 DEF Claimed, TypeOK, JobRow
  <2> QED
    BY <2>2 DEF InFlightRunning, OneWorker
<1>9. ASSUME NEW w \in Worker, GoIdle(w) PROVE InFlightRunning'
  BY <1>2, <1>9 DEF GoIdle, IdleWorker, TypeOK, InFlightPC
<1>10. ASSUME NEW w \in Worker, NEW final, NEW writesPlan, Persist(w, final, writesPlan)
       PROVE  InFlightRunning'
  BY <1>1, <1>10, GoingOnIsQuiet DEF Persist
<1>11. ASSUME NEW w \in Worker, Generated(w) PROVE InFlightRunning'
  BY <1>9, <1>10, <1>11
     DEF Generated, GenerateBusy, GenerateRaised, GenerateLocalFailed, GenerateLocal,
         GenerateOther, RetryLater
<1>12. ASSUME NEW w \in Worker, PersistPlan(w) PROVE InFlightRunning'
  <2>1. NobodyNew
    BY <1>12, GoingOnIsQuiet DEF PersistPlan, WorkerPC, InFlightPC
  <2> QED
    BY <1>1, <1>12, <2>1 DEF PersistPlan
<1>13. ASSUME NEW w \in Worker, PersistReport(w) PROVE InFlightRunning'
  <2>1. NobodyNew
    BY <1>13, GoingOnIsQuiet DEF PersistReport, WorkerPC, InFlightPC
  <2> QED
    BY <1>1, <1>13, <2>1 DEF PersistReport
<1>14. CASE Tick
  BY <1>1, <1>14 DEF Tick, NobodyNew
<1> QED
  BY <1>3, <1>4, <1>5, <1>6, <1>7, <1>8, <1>9, <1>11, <1>12, <1>13, <1>14
     DEF Next, WorkerStep, ClaimNothing, Finish, Abort

\* What a status looks like to a caller.
LEMMA PromiseStates ==
    \A row :
        /\ row.status = "ABSENT" => PromiseState(row) = "absent"
        /\ row.status \in Active => PromiseState(row) = "open"
        /\ row.status \in {"COMPLETED", "FALLBACK"} => PromiseState(row) = "answered"
        /\ row.status = "EXPIRED" => PromiseState(row) = "lapsed"
BY DEF PromiseState, Active, Waiting

PromiseKey(row) == IF row.status = "ABSENT" THEN NoKey ELSE DedupeKey(row)

\* Active rows that stay active, under their keys, are a stutter.
LEMMA OpenStaysOpen ==
    ASSUME TypeOK, TypeOK', reports' = reports,
           \A j \in Job :
               \/ job'[j] = job[j]
               \/ /\ job[j].status \in Active /\ job'[j].status \in Active
                  /\ DedupeKey(job'[j]) = DedupeKey(job[j])
    PROVE  UNCHANGED Promise!promiseVars
<1>1. "ABSENT" \notin Active
  BY DEF Active, Waiting
<1>2. \A j \in Job : /\ PromiseState(job'[j]) = PromiseState(job[j])
                     /\ PromiseKey(job'[j]) = PromiseKey(job[j])
  BY <1>1, PromiseStates DEF PromiseKey
<1> QED
  BY <1>2 DEF Promise!promiseVars, PromiseKey

LEMMA PromiseStep ==
    TypeOK /\ TypeOK' /\ WorkerHasJob /\ ReportInv /\ InFlightRunning /\ [Next]_vars
        => [Promise!PromiseNext]_(Promise!promiseVars)
<1> SUFFICES ASSUME TypeOK, TypeOK', WorkerHasJob, ReportInv, InFlightRunning, [Next]_vars
             PROVE  Promise!PromiseNext \/ UNCHANGED Promise!promiseVars
  OBVIOUS
<1> DEFINE Goal == Promise!PromiseNext \/ UNCHANGED Promise!promiseVars
<1>0. "ABSENT" \notin Active /\ "RUNNING" \in Active /\ Waiting \subseteq Active
  BY DEF Active, Waiting
<1>1. ASSUME job' = job, reports' = reports PROVE Goal
  BY <1>1, OpenStaysOpen
<1>2. ASSUME NEW c \in Caller, Enqueue(c) PROVE Goal
  <2>1. PICK t \in Trigger, s \in Subject : EnqueueInsert(c, t, s)
    BY <1>2 DEF Enqueue
  <2> DEFINE key == <<Scope(t), s>>
  <2>2. key \in Keys /\ reports' = reports
    BY <2>1 DEF EnqueueInsert, Scope, Keys
  <2>3. ASSUME ~HasActive(key), NEW j \in Job, job[j].status = "ABSENT",
               job' = [job EXCEPT ![j] = NewRow(t, s)]
        PROVE  Goal
    <3>1. NewRow(t, s).status = "QUEUED" /\ DedupeKey(NewRow(t, s)) = key
      BY DEF NewRow, Absent, DedupeKey
    <3>2. /\ PromiseState(job[j]) = "absent"
          /\ PromiseState(NewRow(t, s)) = "open"
          /\ PromiseKey(NewRow(t, s)) = key
      BY <2>3, <3>1, PromiseStates DEF PromiseKey, Active, Waiting
    <3>3. \A q \in Job : ~(PromiseState(job[q]) = "open" /\ PromiseKey(job[q]) = key)
      <4> SUFFICES ASSUME NEW q \in Job, PromiseState(job[q]) = "open", PromiseKey(job[q]) = key
                   PROVE  FALSE
        OBVIOUS
      <4>1. job[q].status \in Status
        BY DEF TypeOK, JobRow
      <4>2. job[q].status \in Active
        BY <4>1, PromiseStates DEF Status, Terminal
      <4> QED
        BY <1>0, <2>3, <4>2 DEF HasActive, PromiseKey
    <3>4. /\ [k \in Job |-> PromiseState(job'[k])]
                = [[k \in Job |-> PromiseState(job[k])] EXCEPT ![j] = "open"]
          /\ [k \in Job |-> PromiseKey(job'[k])]
                = [[k \in Job |-> PromiseKey(job[k])] EXCEPT ![j] = key]
      BY <2>3, <3>2 DEF TypeOK
    <3>5. Promise!Submit(j, key)
      BY <2>2, <3>2, <3>3, <3>4 DEF Promise!Submit, PromiseKey
    <3> QED
      BY <2>2, <3>5 DEF Promise!PromiseNext
  <2> QED
    BY <1>1, <2>1, <2>2, <2>3 DEF EnqueueInsert
<1>3. ASSUME NEW w \in Worker, RecoverLeases(w) PROVE Goal
  <2>1. \A j \in Job :
          \/ job'[j] = job[j]
          \/ /\ job[j].status \in Active /\ job'[j].status \in Active
             /\ DedupeKey(job'[j]) = DedupeKey(job[j])
    <3> TAKE j \in Job
    <3>1. CASE Recoverable(job[j])
      <4>1. job'[j] = Released(job[j], "RETRY", now) /\ job[j].status = "RUNNING"
        BY <1>3, <3>1 DEF RecoverLeases, Recoverable
      <4> QED
        BY <4>1, ReleasedRow DEF TypeOK, DedupeKey, Status, Active, Waiting
    <3>2. CASE ~Recoverable(job[j])
      BY <1>3, <3>2 DEF RecoverLeases
    <3> QED
      BY <3>1, <3>2
  <2> QED
    BY <1>3, <2>1, OpenStaysOpen DEF RecoverLeases
<1>4. ASSUME NEW w \in Worker, ExpireJobs(w) PROVE Goal
  <2> DEFINE aged == {j \in Job : Expirable(job[j])}
  <2>1. ASSUME NEW j \in aged
        PROVE  /\ PromiseState(job[j]) = "open"
               /\ PromiseState(job'[j]) = "lapsed"
               /\ PromiseKey(job'[j]) = PromiseKey(job[j])
    <3>1. job'[j] = Released(job[j], "EXPIRED", job[j].notBefore) /\ job[j].status \in Active
      BY <1>0, <1>4 DEF ExpireJobs, Expirable
    <3>2. job'[j].status = "EXPIRED" /\ DedupeKey(job'[j]) = DedupeKey(job[j])
      <4>1. job[j] \in JobRow /\ job[j].notBefore \in Nat
        BY DEF TypeOK, JobRow
      <4>2. "EXPIRED" \in Status
        BY DEF Status, Terminal
      <4> QED
        BY <3>1, <4>1, <4>2, ReleasedRow DEF DedupeKey
    <3> QED
      BY <1>0, <3>1, <3>2, PromiseStates DEF PromiseKey
  <2>2. \A j \in Job \ aged : job'[j] = job[j]
    BY <1>4 DEF ExpireJobs
  <2> HIDE DEF aged
  <2>3. aged \subseteq Job
    BY DEF aged
  <2>4. CASE aged = {}
    BY <1>4, <2>2, <2>4, OpenStaysOpen DEF ExpireJobs
  <2>5. CASE aged /= {}
    <3>1. \A j \in Job : PromiseState(job'[j]) =
              IF j \in aged THEN "lapsed" ELSE [k \in Job |-> PromiseState(job[k])][j]
      BY <2>1, <2>2
    <3>2. \A j \in Job : PromiseKey(job'[j]) = PromiseKey(job[j])
      BY <2>1, <2>2
    <3>3. Promise!Lapse(aged)
      BY <1>4, <2>1, <2>3, <2>5, <3>1, <3>2 DEF Promise!Lapse, ExpireJobs, PromiseKey
    <3> QED
      BY <2>3, <3>3 DEF Promise!PromiseNext
  <2> QED
    BY <2>4, <2>5
<1>5. ASSUME NEW w \in Worker, ClaimJob(w) PROVE Goal
  <2>1. PICK j \in Job :
          Claimable(job[j]) /\ job' = [job EXCEPT ![j] = Claimed(job[j], w)]
    BY <1>5 DEF ClaimJob
  <2>2. /\ job[j].status \in Active /\ Claimed(job[j], w).status = "RUNNING"
        /\ DedupeKey(Claimed(job[j], w)) = DedupeKey(job[j])
    BY <1>0, <2>1 DEF Claimable, Claimed, TypeOK, JobRow, DedupeKey
  <2> QED
    BY <1>0, <1>5, <2>1, <2>2, OpenStaysOpen DEF ClaimJob, TypeOK
<1>6. ASSUME NEW w \in Worker, worker[w].pc \in InFlightPC, reports' = reports,
             NEW status \in Waiting, NEW backoff \in Nat, NEW failed \in Nat,
             Requeue(worker[w].job, status, backoff, failed)
      PROVE  Goal
  <2>1. worker[w].job \in Job /\ job[worker[w].job].status \in Active
    BY <1>0, <1>6 DEF WorkerHasJob, InFlightRunning
  <2>2. PICK j \in Job : j = worker[w].job
    BY <2>1
  <2>3. CASE job' = [job EXCEPT ![j] = Requeued(job[j], status, now + backoff, failed)]
    <3>1. job[j] \in JobRow /\ status \in Active
      BY <1>0 DEF TypeOK
    <3>2. /\ Requeued(job[j], status, now + backoff, failed).status = status
          /\ DedupeKey(Requeued(job[j], status, now + backoff, failed)) = DedupeKey(job[j])
      BY <3>1 DEF Requeued, Released, JobRow, DedupeKey
    <3> QED
      BY <1>6, <2>1, <2>2, <2>3, <3>1, <3>2, OpenStaysOpen DEF TypeOK
  <2> QED
    BY <1>1, <1>6, <2>2, <2>3 DEF Requeue, Requeued
<1>7. ASSUME NEW w \in Worker, Generated(w) PROVE Goal
  <2>1. CASE job' = job
    BY <1>1, <1>7, <2>1
       DEF Generated, GenerateBusy, GenerateRaised, GenerateLocalFailed, GenerateLocal,
           GenerateOther, RetryLater, Persist
  <2>2. ASSUME job' /= job, GenerateBusy(w) PROVE Goal
    <3>1. worker[w].pc \in InFlightPC /\ worker[w].attempt \in Nat
      BY <2>2 DEF GenerateBusy, InFlightPC, TypeOK, WorkerState
    <3>2. BackoffTicks(worker[w].attempt, TRUE) \in Nat
      BY <3>1, PolicyTicks
    <3> QED
      BY <1>6, <2>2, <3>1, <3>2 DEF GenerateBusy, Waiting
  <2>3. ASSUME job' /= job, RetryLater(w) PROVE Goal
    <3>1. worker[w].pc \in InFlightPC /\ worker[w].attempt \in Nat
      BY <2>3 DEF RetryLater, InFlightPC, TypeOK, WorkerState
    <3>2. BackoffTicks(worker[w].attempt, FALSE) \in Nat
      BY <3>1, PolicyTicks
    <3> QED
      BY <1>6, <2>3, <3>1, <3>2 DEF RetryLater, Waiting
  <2> QED
    BY <1>7, <2>1, <2>2, <2>3
       DEF Generated, GenerateRaised, GenerateLocalFailed, GenerateLocal, GenerateOther, Persist
<1>8. ASSUME NEW w \in Worker, PersistReport(w) PROVE Goal
  <2>1. PICK j \in Job : j = worker[w].job
    BY <1>8 DEF PersistReport, WorkerHasJob, InFlightPC
  <2>2. CASE j \in reports
    BY <1>1, <1>8, <2>1, <2>2 DEF PersistReport
  <2>3. CASE j \notin reports
    <3>1. job[j].status \in Active
      BY <1>0, <1>8, <2>1 DEF PersistReport, InFlightRunning, InFlightPC
    <3>2. PromiseState(job[j]) = "open"
      BY <3>1, PromiseStates
    <3>3. Promise!Publish(j)
      BY <1>8, <2>1, <2>3, <3>2 DEF PersistReport, Promise!Publish
    <3> QED
      BY <3>3 DEF Promise!PromiseNext
  <2> QED
    BY <2>2, <2>3
<1>9. ASSUME NEW w \in Worker, Finish(w) PROVE Goal
  <2>1. PICK j \in Job : j = worker[w].job
    BY <1>9 DEF Finish, WorkerHasJob, InFlightPC
  <2> DEFINE row == Released(job[j], worker[w].final, job[j].notBefore)
  <2>2. job' = [job EXCEPT ![j] = row] /\ reports' = reports /\ j \in reports
    BY <1>9, <2>1 DEF Finish, ReportInv, FinishingHasReport
  <2>3. job[j].status \in Active
    BY <1>0, <1>9, <2>1 DEF Finish, InFlightRunning, InFlightPC
  <2>4. /\ worker[w].final \in {"COMPLETED", "FALLBACK"}
        /\ job[j] \in JobRow /\ job[j].notBefore \in Nat
    BY DEF TypeOK, WorkerState, JobRow
  <2>5. row.status \in {"COMPLETED", "FALLBACK"} /\ DedupeKey(row) = DedupeKey(job[j])
    BY <2>4, ReleasedRow DEF Status, Terminal, DedupeKey
  <2>6. /\ PromiseState(job[j]) = "open" /\ PromiseState(row) = "answered"
        /\ PromiseKey(row) = PromiseKey(job[j])
    BY <1>0, <2>3, <2>5, PromiseStates DEF PromiseKey
  <2> HIDE DEF row
  <2>7. /\ [k \in Job |-> PromiseState(job'[k])]
              = [[k \in Job |-> PromiseState(job[k])] EXCEPT ![j] = "answered"]
        /\ \A k \in Job : PromiseKey(job'[k]) = PromiseKey(job[k])
    BY <2>2, <2>6 DEF TypeOK
  <2>8. Promise!Answer(j)
    BY <2>2, <2>6, <2>7 DEF Promise!Answer, PromiseKey
  <2> QED
    BY <2>8 DEF Promise!PromiseNext
<1> QED
  BY <1>1, <1>2, <1>3, <1>4, <1>5, <1>7, <1>8, <1>9
     DEF Next, WorkerStep, EnqueueSelect, ClaimNothing, PersistPlan, Abort, Tick, vars

\* With one worker process the queue keeps the promise of JobPromise, for any jobs,
\* callers, policies, leases and crashes: every step is one of the promise's, or
\* does not show.
THEOREM PromiseKept ==
    ASSUME OneWorker
    PROVE  Spec => KeepsPromise
<1>1. Init => Promise!PromiseInit
  BY PromiseStates DEF Init, Promise!PromiseInit, Absent
<1>2. Init => ReportInv /\ InFlightRunning
  BY DEF Init, ReportInv, TerminalHasReport, FinishingHasReport, InFlightRunning, Absent,
         IdleWorker, InFlightPC
<1>3. TypeOK /\ WorkerHasJob /\ ReportInv /\ InFlightRunning /\ [Next]_vars
        => (TypeOK /\ WorkerHasJob /\ ReportInv /\ InFlightRunning)'
  BY TypeStep, ReportStep, RunningStep
<1>4. TypeOK /\ TypeOK' /\ WorkerHasJob /\ ReportInv /\ InFlightRunning /\ [Next]_vars
        => [Promise!PromiseNext]_(Promise!promiseVars)
  BY PromiseStep
<1> QED
  BY TypeInit, <1>1, <1>2, <1>3, <1>4, PTL DEF Spec, KeepsPromise, Promise!PromiseSpec
=============================================================================
