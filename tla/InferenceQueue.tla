---------------------------- MODULE InferenceQueue ----------------------------
(***************************************************************************)
(* The durable local-inference queue: the table fabops_inference_jobs, the *)
(* callers that enqueue into it (the API's manual refresh and the          *)
(* intelligence worker), and the inference workers that claim a job under  *)
(* a lease, generate a brief, persist the assessment and finish the job.   *)
(*                                                                         *)
(* adapters/postgres/repository.py holds the table's statements,           *)
(* systems/inference_worker/main.py the worker's loop.  Every repository   *)
(* call is one committed transaction, so every transaction is an action    *)
(* and a worker can stop, or a clock tick pass, between any two of them.   *)
(*                                                                         *)
(* Time is counted in ticks of TickSeconds; a duration of the code is      *)
(* rounded up to whole ticks.                                              *)
(***************************************************************************)
EXTENDS Naturals, FiniteSets

CONSTANTS
    Job,          \* the rows the table may come to hold (one assessment run each)
    Worker,       \* inference worker processes
    Caller,       \* threads that may be inside enqueue_inference_job
    Subject,      \* pairs of a case and its material signature
    Trigger,      \* the trigger kinds the callers use
    NoJob, NoWorker, NoSubject,
    TickSeconds,  \* seconds of one tick
    LeaseSeconds, \* FABOPS_INFERENCE_LEASE_SECONDS
    MaxTime,      \* bound on the clock
    MaxAborts     \* bound on crashes and failed database calls

TriggerType == {"manual_user_refresh", "auto_high", "auto_material"}

ASSUME QueueAssumption ==
    /\ NoJob \notin Job
    /\ NoWorker \notin Worker
    /\ NoSubject \notin Subject
    /\ Trigger \subseteq TriggerType
    /\ TickSeconds \in Nat \ {0}
    /\ LeaseSeconds \in Nat
    /\ MaxTime \in Nat
    /\ MaxAborts \in Nat

VARIABLES
    now,      \* the database clock, in ticks
    job,      \* the table: row of every job
    reports,  \* jobs whose assessment run has a row in fabops_intelligence_reports
    plans,    \* fabops_visualization_plans: the job that last wrote a subject's plan
    worker,   \* program counter and local variables of every worker
    caller,   \* callers inside enqueue_inference_job
    aborts    \* crashes and database errors so far (bounded by MaxAborts)

vars == <<now, job, reports, plans, worker, caller, aborts>>
-----------------------------------------------------------------------------
(* Durations and the policy of each trigger. *)

Ticks(seconds) == (seconds + TickSeconds - 1) \div TickSeconds

Larger(a, b) == IF a >= b THEN a ELSE b

QueuePolicy ==
    [manual_user_refresh |-> [priority |-> 100, maxAge |-> 300, allowVertex |-> TRUE,
                              fallbackAfter |-> 45, maxAttempts |-> 4],
     auto_high |-> [priority |-> 60, maxAge |-> 300, allowVertex |-> TRUE,
                    fallbackAfter |-> 180, maxAttempts |-> 4],
     auto_material |-> [priority |-> 30, maxAge |-> 900, allowVertex |-> FALSE,
                        fallbackAfter |-> 0, maxAttempts |-> 5]]

Priority(j)    == QueuePolicy[job[j].trigger].priority
MaxAttempts(j) == QueuePolicy[job[j].trigger].maxAttempts

\* A backoff is at most 60 seconds, at least 0.2; one tick where a tick is longer.
BackoffTicks(attempt, busy) ==
    Ticks(IF busy
          THEN CASE attempt <= 1 -> 2 [] attempt = 2 -> 4 [] OTHER -> 8
          ELSE IF 5 * attempt >= 60 THEN 60 ELSE 5 * Larger(1, attempt))

LeaseTicks == Ticks(Larger(30, LeaseSeconds))
-----------------------------------------------------------------------------
(* Rows. *)

Waiting  == {"QUEUED", "WAITING_FOR_LOCAL", "RETRY"}
Active   == Waiting \cup {"RUNNING"}
Terminal == {"COMPLETED", "FALLBACK", "EXPIRED"}
Status   == Active \cup Terminal \cup {"ABSENT"}

JobRow ==
    [status : Status, trigger : TriggerType, subject : Subject \cup {NoSubject},
     createdAt : Nat, notBefore : Nat, expiresAt : Nat,
     leaseOwner : Worker \cup {NoWorker}, leaseUntil : Nat,
     attempts : Nat, failures : Nat]

Absent ==
    [status |-> "ABSENT", trigger |-> "auto_material", subject |-> NoSubject,
     createdAt |-> 0, notBefore |-> 0, expiresAt |-> 0,
     leaseOwner |-> NoWorker, leaseUntil |-> 0, attempts |-> 0, failures |-> 0]

Scope(trigger) == IF trigger = "manual_user_refresh" THEN "manual" ELSE "auto"

DedupeKey(row) == <<Scope(row.trigger), row.subject>>

Keys == {"manual", "auto"} \X Subject

NoKey == <<"none", NoSubject>>

\* The partial unique index on dedupe_key.
DedupeIndexHolds(table) ==
    \A j, k \in Job :
        /\ table[j].status \in Active
        /\ table[k].status \in Active
        /\ DedupeKey(table[j]) = DedupeKey(table[k])
        => j = k

HasActive(key) == \E j \in Job : job[j].status \in Active /\ DedupeKey(job[j]) = key

Expired(row) == row.expiresAt <= now

LeaseExpired(row) == row.leaseOwner /= NoWorker /\ row.leaseUntil <= now

Released(row, status, notBefore) ==
    [row EXCEPT !.status = status, !.notBefore = notBefore,
                !.leaseOwner = NoWorker, !.leaseUntil = 0]
-----------------------------------------------------------------------------
(* Workers and callers.  A worker keeps the row it was given by the claim: *)
(* attempt is its attempt_count, cloud whether the wait before the cloud   *)
(* fallback had elapsed, final the terminal status it is about to write.   *)

WorkerPC == {"idle", "expire", "claim", "generate", "plan", "report", "finish"}

InFlightPC == {"generate", "plan", "report", "finish"}

WorkerState ==
    [pc : WorkerPC, job : Job \cup {NoJob}, attempt : Nat, cloud : BOOLEAN,
     final : {"COMPLETED", "FALLBACK"}]

IdleWorker ==
    [pc |-> "idle", job |-> NoJob, attempt |-> 0, cloud |-> FALSE,
     final |-> "FALLBACK"]

CallerState == [pc : {"idle", "select", "raised"}, key : Keys \cup {NoKey}]

IdleCaller == [pc |-> "idle", key |-> NoKey]

TypeOK ==
    /\ now \in 0..MaxTime
    /\ job \in [Job -> JobRow]
    /\ reports \subseteq Job
    /\ plans \in [Subject -> Job \cup {NoJob}]
    /\ worker \in [Worker -> WorkerState]
    /\ caller \in [Caller -> CallerState]
    /\ aborts \in 0..MaxAborts

Init ==
    /\ now = 0
    /\ job = [j \in Job |-> Absent]
    /\ reports = {}
    /\ plans = [s \in Subject |-> NoJob]
    /\ worker = [w \in Worker |-> IdleWorker]
    /\ caller = [c \in Caller |-> IdleCaller]
    /\ aborts = 0

Goto(w, pc) == worker' = [worker EXCEPT ![w].pc = pc]

GoIdle(w) == worker' = [worker EXCEPT ![w] = IdleWorker]
-----------------------------------------------------------------------------
(* Enqueueing. *)

NewRow(trigger, subject) ==
    [Absent EXCEPT !.status = "QUEUED", !.trigger = trigger, !.subject = subject,
                   !.createdAt = now, !.notBefore = now,
                   !.expiresAt = now + Ticks(QueuePolicy[trigger].maxAge)]

\* ACTION: enqueue_inference_job, the INSERT.  A conflict on the active-dedupe
\* index inserts nothing and leaves the caller at the second statement.
EnqueueInsert(c, trigger, subject) ==
    LET key == <<Scope(trigger), subject>> IN
    /\ caller[c].pc \in {"idle", "raised"}
    /\ now + Ticks(QueuePolicy[trigger].maxAge) <= MaxTime
    /\ \/ /\ ~HasActive(key)
          /\ \E j \in Job :
                /\ job[j].status = "ABSENT"
                /\ job' = [job EXCEPT ![j] = NewRow(trigger, subject)]
          /\ caller' = [caller EXCEPT ![c] = IdleCaller]
       \/ /\ HasActive(key)
          /\ caller' = [caller EXCEPT ![c] = [pc |-> "select", key |-> key]]
          /\ UNCHANGED job
    /\ UNCHANGED <<now, reports, plans, worker, aborts>>

\* ACTION: enqueue_inference_job, the SELECT of the active job after a conflict.
\* It sees what was committed meanwhile; finding no row raises RuntimeError.
EnqueueSelect(c) ==
    /\ caller[c].pc = "select"
    /\ caller' = [caller EXCEPT ![c] =
                    IF HasActive(caller[c].key)
                    THEN IdleCaller
                    ELSE [pc |-> "raised", key |-> caller[c].key]]
    /\ UNCHANGED <<now, job, reports, plans, worker, aborts>>
-----------------------------------------------------------------------------
(* claim_inference_job: three transactions. *)

Recoverable(row) ==
    row.status = "RUNNING" /\ LeaseExpired(row) /\ ~Expired(row)

\* ACTION: recover_expired_inference_leases, the first transaction of a claim.
RecoverLeases(w) ==
    /\ worker[w].pc = "idle"
    /\ job' = [j \in Job |-> IF Recoverable(job[j])
                             THEN Released(job[j], "RETRY", now)
                             ELSE job[j]]
    /\ Goto(w, "expire")
    /\ UNCHANGED <<now, reports, plans, caller, aborts>>

\* Fault: RETRY never expires.
ExpirableButRetry(row) == row.status \in Waiting \ {"RETRY"} /\ Expired(row)

Expirable(row) == row.status \in Waiting /\ Expired(row)

\* ACTION: expire_inference_jobs, the second transaction of a claim.
ExpireJobs(w) ==
    /\ worker[w].pc = "expire"
    /\ job' = [j \in Job |-> IF Expirable(job[j])
                             THEN Released(job[j], "EXPIRED", job[j].notBefore)
                             ELSE job[j]]
    /\ Goto(w, "claim")
    /\ UNCHANGED <<now, reports, plans, caller, aborts>>

Claimable(row) ==
    /\ row.status \in Waiting
    /\ row.notBefore <= now
    /\ ~Expired(row)
    /\ row.leaseOwner = NoWorker \/ row.leaseUntil <= now

\* ORDER BY priority DESC, created_at ASC
Precedes(j, k) ==
    \/ Priority(j) > Priority(k)
    \/ Priority(j) = Priority(k) /\ job[j].createdAt < job[k].createdAt

CloudWaitElapsed(j) ==
    LET policy == QueuePolicy[job[j].trigger] IN
    /\ policy.allowVertex
    /\ now * TickSeconds >= job[j].createdAt * TickSeconds + policy.fallbackAfter

\* Fault: the claim does not count.
ClaimedUncounted(row, w) ==
    [row EXCEPT !.status = "RUNNING", !.leaseOwner = w, !.leaseUntil = now + LeaseTicks]

Claimed(row, w) ==
    [row EXCEPT !.status = "RUNNING", !.leaseOwner = w, !.leaseUntil = now + LeaseTicks,
                !.attempts = @ + 1]

\* ACTION: the claiming transaction.  The worker goes on with a copy of the row.
ClaimJob(w) ==
    /\ worker[w].pc = "claim"
    /\ \E j \in Job :
        /\ Claimable(job[j])
        /\ \A k \in Job : Claimable(job[k]) => ~Precedes(k, j)
        /\ job' = [job EXCEPT ![j] = Claimed(job[j], w)]
        /\ worker' = [worker EXCEPT ![w] =
                        [pc |-> "generate", job |-> j, attempt |-> Claimed(job[j], w).attempts,
                         cloud |-> CloudWaitElapsed(j), final |-> "FALLBACK"]]
    /\ UNCHANGED <<now, reports, plans, caller, aborts>>

\* ACTION: no job is claimable; the worker sleeps for the poll interval.
ClaimNothing(w) ==
    /\ worker[w].pc = "claim"
    /\ \A j \in Job : ~Claimable(job[j])
    /\ GoIdle(w)
    /\ UNCHANGED <<now, job, reports, plans, caller, aborts>>
-----------------------------------------------------------------------------
(* What narration.generate brings about. *)

\* Fault: no unique index behind the requeue.
RequeueUnchecked(j, status, backoff, failed) ==
    job' = [job EXCEPT ![j] =
              [Released(job[j], status, now + backoff) EXCEPT !.failures = @ + failed]]

\* requeue_inference_job: an UPDATE by job_id alone.  It makes the row active
\* whatever it was, so the active-dedupe index may refuse it; the exception
\* leaves the table as it was and ends in the worker's outer handler.
Requeue(j, status, backoff, failed) ==
    LET row == [Released(job[j], status, now + backoff) EXCEPT !.failures = @ + failed]
        table == [job EXCEPT ![j] = row]
    IN  job' = IF DedupeIndexHolds(table) THEN table ELSE job

\* ACTION: LocalNarrationBusyError; only a worker that may not use the cloud
\* defers on a busy local model.
GenerateBusy(w) ==
    /\ worker[w].pc = "generate"
    /\ ~worker[w].cloud
    /\ Requeue(worker[w].job, "WAITING_FOR_LOCAL", BackoffTicks(worker[w].attempt, TRUE), 0)
    /\ GoIdle(w)
    /\ UNCHANGED <<now, reports, plans, caller, aborts>>

\* Fault: off by one.
OneAttemptMore(w) == worker[w].attempt <= MaxAttempts(worker[w].job)

AttemptsLeft(w) == worker[w].attempt < MaxAttempts(worker[w].job)

\* A failed generation is retried while attempts are left.
RetryLater(w) ==
    /\ worker[w].pc = "generate"
    /\ AttemptsLeft(w)
    /\ Requeue(worker[w].job, "RETRY", BackoffTicks(worker[w].attempt, FALSE), 1)
    /\ GoIdle(w)
    /\ UNCHANGED <<now, reports, plans, caller, aborts>>

\* Fault: the job is finished first, and its assessment never persisted.
PersistNothing(w, final, writesPlan) ==
    /\ worker[w].pc = "generate"
    /\ worker' = [worker EXCEPT ![w].pc = IF writesPlan THEN "plan" ELSE "finish",
                                ![w].final = final]
    /\ UNCHANGED <<now, job, reports, plans, caller, aborts>>

\* The worker holds a brief and starts persist_completed_inference; only a
\* brief whose visualization proposal was validated writes a plan.
Persist(w, final, writesPlan) ==
    /\ worker[w].pc = "generate"
    /\ worker' = [worker EXCEPT ![w].pc = IF writesPlan THEN "plan" ELSE "report",
                                ![w].final = final]
    /\ UNCHANGED <<now, job, reports, plans, caller, aborts>>

\* ACTION: generate raised.  Out of attempts, the deterministic (or cached)
\* brief is persisted and the job finished as FALLBACK.
GenerateRaised(w) ==
    \/ RetryLater(w)
    \/ /\ worker[w].pc = "generate"
       /\ ~AttemptsLeft(w)
       /\ \E writesPlan \in BOOLEAN : Persist(w, "FALLBACK", writesPlan)

\* ACTION: a deterministic brief because local-qwen failed.  While the cloud is
\* not allowed it counts as a failure; otherwise, or at the last attempt, it is
\* the answer.
GenerateLocalFailed(w) ==
    \/ ~worker[w].cloud /\ RetryLater(w)
    \/ /\ worker[w].pc = "generate"
       /\ worker[w].cloud \/ ~AttemptsLeft(w)
       /\ Persist(w, "FALLBACK", FALSE)

\* ACTION: a brief worded by local-qwen.
GenerateLocal(w) ==
    \E writesPlan \in BOOLEAN : Persist(w, "COMPLETED", writesPlan)

\* ACTION: a brief by Vertex (called now, or from the cache), or a deterministic
\* one for another reason than a local failure.
GenerateOther(w) ==
    \E writesPlan \in BOOLEAN : Persist(w, "FALLBACK", writesPlan)
-----------------------------------------------------------------------------
(* persist_completed_inference and finish_inference_job. *)

\* ACTION: append_visualization_plan, an upsert by case and signature.
PersistPlan(w) ==
    /\ worker[w].pc = "plan"
    /\ plans' = [plans EXCEPT ![job[worker[w].job].subject] = worker[w].job]
    /\ Goto(w, "report")
    /\ UNCHANGED <<now, job, reports, caller, aborts>>

\* ACTION: append_intelligence_report.  assessment_run_id is unique: a second
\* report of the same job raises, and the worker drops the job without
\* finishing it.
PersistReport(w) ==
    /\ worker[w].pc = "report"
    /\ reports' = reports \cup {worker[w].job}
    /\ IF worker[w].job \in reports THEN GoIdle(w) ELSE Goto(w, "finish")
    /\ UNCHANGED <<now, job, plans, caller, aborts>>

\* ACTION: finish_inference_job, an UPDATE by job_id alone.
Finish(w) ==
    /\ worker[w].pc = "finish"
    /\ job' = [job EXCEPT ![worker[w].job] =
                 Released(job[worker[w].job], worker[w].final, job[worker[w].job].notBefore)]
    /\ GoIdle(w)
    /\ UNCHANGED <<now, reports, plans, caller, aborts>>
-----------------------------------------------------------------------------
(* Environment. *)

\* ACTION: the worker process dies and is restarted, or a database call raises
\* and its outer handler drops the job: nothing of the local state is left.
Abort(w) ==
    /\ worker[w].pc /= "idle"
    /\ aborts < MaxAborts
    /\ aborts' = aborts + 1
    /\ GoIdle(w)
    /\ UNCHANGED <<now, job, reports, plans, caller>>

\* ACTION: time passes.
Tick ==
    /\ now < MaxTime
    /\ now' = now + 1
    /\ UNCHANGED <<job, reports, plans, worker, caller, aborts>>

Enqueue(c) == \E t \in Trigger, s \in Subject : EnqueueInsert(c, t, s)

Generated(w) ==
    \/ GenerateBusy(w)
    \/ GenerateRaised(w)
    \/ GenerateLocalFailed(w)
    \/ GenerateLocal(w)
    \/ GenerateOther(w)

WorkerStep(w) ==
    \/ RecoverLeases(w)
    \/ ExpireJobs(w)
    \/ ClaimJob(w)
    \/ ClaimNothing(w)
    \/ Generated(w)
    \/ PersistPlan(w)
    \/ PersistReport(w)
    \/ Finish(w)

Next ==
    \/ \E c \in Caller : Enqueue(c) \/ EnqueueSelect(c)
    \/ \E w \in Worker : WorkerStep(w) \/ Abort(w)
    \/ Tick

Spec == Init /\ [][Next]_vars

\* A worker's loop keeps running, the providers it calls have timeouts, a caller
\* returns from its transaction, and time passes.
Fairness ==
    /\ \A w \in Worker : WF_vars(WorkerStep(w))
    /\ \A c \in Caller : WF_vars(EnqueueSelect(c))
    /\ WF_vars(Tick)

FairSpec == Spec /\ Fairness
-----------------------------------------------------------------------------
(* Safety. *)

\* At most one job per dedupe key is queued, waiting, running or awaiting a
\* retry, through enqueueing, recovery of a lease, requeues and resurrections.
ActiveDedupe == DedupeIndexHolds(job)

\* A job is COMPLETED or FALLBACK only when its assessment is in the report
\* table: whatever dies or is lost, a finished job has an answer to show.
TerminalHasReport ==
    \A j \in Job : job[j].status \in {"COMPLETED", "FALLBACK"} => j \in reports

\* max_attempts bounds the provider failures a job may cost: the retries after
\* a failure stay below it, though crashes, lost leases and several workers with
\* stale copies of the row may lie between them.
FailureBudget == \A j \in Job : job[j].failures <= MaxAttempts(j) - 1

\* attempt_count tells the claims of a job apart: two workers that are at the
\* same job, the second after the first one's lease ran out, hold different
\* attempts, and no worker holds one the row has not reached.
AttemptIdentifiesClaim ==
    \A v, w \in Worker :
        /\ worker[w].pc \in InFlightPC
              => worker[w].attempt \in 1..job[worker[w].job].attempts
        /\ /\ v /= w
           /\ worker[v].pc \in InFlightPC
           /\ worker[w].pc \in InFlightPC
           /\ worker[v].job = worker[w].job
           => worker[v].attempt /= worker[w].attempt

-----------------------------------------------------------------------------
(* Liveness. *)

InFlight(j) == \E w \in Worker : worker[w].pc \in InFlightPC /\ worker[w].job = j

\* RUNNING, its worker lost, past the age at which recovery ignores it.
Orphaned(j) ==
    /\ job[j].status = "RUNNING" /\ ~InFlight(j)
    /\ Expired(job[j])
    /\ aborts > 0

\* Every enqueued job ends: it becomes terminal, unless its worker was lost by a
\* crash or a database error and the job's age ran out before its lease was
\* recovered.
EndsOrOrphaned ==
    \A j \in Job :
        job[j].status \in Active ~> job[j].status \in Terminal \/ Orphaned(j)
-----------------------------------------------------------------------------
(* Refinement. *)

PromiseState(row) ==
    CASE row.status = "ABSENT" -> "absent"
      [] row.status \in Active -> "open"
      [] row.status \in {"COMPLETED", "FALLBACK"} -> "answered"
      [] row.status = "EXPIRED" -> "lapsed"

Promise == INSTANCE JobPromise WITH
    Request <- Job, Key <- Keys,
    state <- [j \in Job |-> PromiseState(job[j])],
    key <- [j \in Job |-> IF job[j].status = "ABSENT" THEN NoKey ELSE DedupeKey(job[j])],
    published <- reports

\* With one worker process the queue keeps the promise of JobPromise: leases,
\* retries, crashes and lost database calls never show through it.
KeepsPromise == Promise!PromiseSpec
=============================================================================
