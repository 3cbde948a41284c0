------------------------- MODULE AssessmentReviews -------------------------
(* The review half of systems/intelligence_worker/main.py, lines 71-198: in  *)
(* every cycle, of the cases of the newest lots, the ones of the highest      *)
(* priority whose material signature changed are queued for an assessment,   *)
(* and those whose signature did not are reviewed by repeating their latest  *)
(* report. The worker remembers what it has queued; the queue, its workers   *)
(* and the dashboard's manual refresh act between any two of its statements. *)
EXTENDS Integers, FiniteSets

CONSTANTS
    Cases,          \* cases, in the order of their ids
    LotOf,          \* the lot of each case, in the order of the lots' ids
    RecentCases,    \* how many cases, of the newest lots, a cycle looks at (16)
    Signatures,     \* material signatures, in the order of priority_score
    CaseLimit,      \* FABOPS_LLM_REPORT_CASE_LIMIT
    MaxEvents       \* bound: changes of cases, manual refreshes, exceptions, restarts

ASSUME ReviewsAssumption ==
    /\ {Cases, Signatures, RecentCases, CaseLimit} \subseteq Nat \ {0}
    /\ LotOf \in [1..Cases -> Nat]
    /\ MaxEvents \in Nat

Case == 1..Cases
Signature == 1..Signatures
Scope == {"auto", "manual"}

\* The dedupe_key of build_inference_job.
Key == Case \X Signature \X Scope

VARIABLES
    signature,      \* material_signature of each case as the tables stand, 0 before it exists
    plans,          \* keys of fabops_visualization_plans
    jobs,           \* the last job of each dedupe_key
    report,         \* material_signature of the latest report of each case, 0 before it has one
    reviewer,       \* the worker's cycle
    memory,         \* last_report_signature and whether report_interval has passed
    refresh,        \* the manual refresh an API thread is at
    events          \* changes, refreshes and failures so far

reviewVars == <<signature, plans, jobs, report, reviewer, memory, refresh, events>>

Reviewer == [at: {"idle", "reports", "plan", "enqueue", "reviews"},
             seen: [Case -> 0..Signatures], previous: [Case -> 0..Signatures],
             generate: SUBSET Case, review: SUBSET Case]

Memory == [signature: [Case -> 0..Signatures], rested: [Case -> BOOLEAN]]

Resting == [at |-> "idle", seen |-> [c \in Case |-> 0], previous |-> [c \in Case |-> 0],
            generate |-> {}, review |-> {}]
Forgotten == [signature |-> [c \in Case |-> 0], rested |-> [c \in Case |-> TRUE]]
NoRefresh == <<0, 0>>

\* Cases may have been detected before the worker starts for the first time.
ReviewsInit ==
    /\ signature \in [Case -> 0..Signatures]
    /\ plans = {}
    /\ jobs = [k \in Key |-> "none"]
    /\ report = [c \in Case |-> 0]
    /\ reviewer = Resting
    /\ memory = Forgotten
    /\ refresh = NoRefresh
    /\ events = 0

-----------------------------------------------------------------------------
(* What happens around the worker.                                           *)

\* A case is detected, or it or its predictions come into another bucket.
CaseChanges(c, s) ==
    /\ events < MaxEvents /\ signature[c] # s
    /\ signature' = [signature EXCEPT ![c] = s]
    /\ events' = events + 1
    /\ UNCHANGED <<plans, jobs, report, reviewer, memory, refresh>>

\* report_interval after the last review of a case.
IntervalPasses(c) ==
    /\ ~memory.rested[c]
    /\ memory' = [memory EXCEPT !.rested[c] = TRUE]
    /\ UNCHANGED <<signature, plans, jobs, report, reviewer, refresh, events>>

\* The inference worker stores the report of a job and finishes the job.
JobReports(k) ==
    /\ jobs[k] = "active"
    /\ report' = [report EXCEPT ![k[1]] = k[2]]
    /\ jobs' = [jobs EXCEPT ![k] = "done"]
    /\ UNCHANGED <<signature, plans, reviewer, memory, refresh, events>>

\* max_queue_age_seconds is over.
JobExpires(k) ==
    /\ jobs[k] = "active"
    /\ jobs' = [jobs EXCEPT ![k] = "expired"]
    /\ UNCHANGED <<signature, plans, report, reviewer, memory, refresh, events>>

\* enqueue_inference_job: an active job of the key stays as it is.
Enqueued(k) == [jobs EXCEPT ![k] = "active"]

\* _queue_manual_situation_assessment: the signature is computed and its plan is
\* stored; then the job is queued, unless the request fails.
RefreshPlans(c) ==
    /\ refresh = NoRefresh /\ events < MaxEvents /\ signature[c] # 0
    /\ refresh' = <<c, signature[c]>>
    /\ plans' = plans \cup {refresh'}
    /\ events' = events + 1
    /\ UNCHANGED <<signature, jobs, report, reviewer, memory>>

RefreshEnqueues ==
    /\ refresh # NoRefresh
    /\ jobs' = Enqueued(<<refresh[1], refresh[2], "manual">>)
    /\ refresh' = NoRefresh
    /\ UNCHANGED <<signature, plans, report, reviewer, memory, events>>

RefreshFails ==
    /\ refresh # NoRefresh
    /\ refresh' = NoRefresh
    /\ UNCHANGED <<signature, plans, jobs, report, reviewer, memory, events>>

-----------------------------------------------------------------------------
(* One cycle of the worker.                                                  *)

\* Mutant: candidates go by id.
BeforeById(c, d, sig) == c <= d

\* Candidates go by descending priority, then by id.
Before(c, d, sig) == sig[c] > sig[d] \/ (sig[c] = sig[d] /\ c <= d)

Existing(sig) == {c \in Case : sig[c] # 0}

\* The cases sort by descending lot, and cases of one lot stay in the order of their ids.
Newer(c, d) == LotOf[c] > LotOf[d] \/ (LotOf[c] = LotOf[d] /\ c <= d)

Recent(sig) == {c \in Existing(sig) :
                  Cardinality({d \in Existing(sig) \ {c} : Newer(d, c)}) < RecentCases}

Top(sig) == {c \in Recent(sig) :
               Cardinality({d \in Recent(sig) \ {c} : Before(d, c, sig)}) < CaseLimit}

\* list_cases and latest_predictions_for_lots, and the signatures of both; those
\* of the cases that are not recent go unused.
ReadCases ==
    /\ reviewer.at = "idle"
    /\ reviewer' = [reviewer EXCEPT !.at = "reports", !.seen = signature]
    /\ UNCHANGED <<signature, plans, jobs, report, memory, refresh, events>>

\* last_report_signature, or else that of the latest report.
KnownSignature(c) == IF memory.signature[c] # 0 THEN memory.signature[c] ELSE report[c]

\* latest_intelligence_reports_for_cases, and what is to be done about each candidate.
ReadReports ==
    LET top == Top(reviewer.seen)
        changed == {c \in top : KnownSignature(c) # reviewer.seen[c]}
    IN  /\ reviewer.at = "reports"
        /\ reviewer' = [reviewer EXCEPT !.at = "plan", !.previous = report,
                          !.generate = changed,
                          !.review = {c \in top \ changed : memory.rested[c]}]
        /\ UNCHANGED <<signature, plans, jobs, report, memory, refresh, events>>

IsFirst(c, todo) == c \in todo /\ \A d \in todo : Before(c, d, reviewer.seen)

Remember(c) == memory' = [memory EXCEPT !.signature[c] = reviewer.seen[c], !.rested[c] = FALSE]

\* Mutant: the signature is remembered before its job is queued.
AppendPlanRemembering(c) ==
    /\ reviewer.at = "plan" /\ IsFirst(c, reviewer.generate)
    /\ plans' = plans \cup {<<c, reviewer.seen[c]>>}
    /\ reviewer' = [reviewer EXCEPT !.at = "enqueue"]
    /\ Remember(c)
    /\ UNCHANGED <<signature, jobs, report, refresh, events>>

AppendPlan(c) ==
    /\ reviewer.at = "plan" /\ IsFirst(c, reviewer.generate)
    /\ plans' = plans \cup {<<c, reviewer.seen[c]>>}
    /\ reviewer' = [reviewer EXCEPT !.at = "enqueue"]
    /\ UNCHANGED <<signature, jobs, report, memory, refresh, events>>

Enqueue(c) ==
    /\ reviewer.at = "enqueue" /\ IsFirst(c, reviewer.generate)
    /\ jobs' = Enqueued(<<c, reviewer.seen[c], "auto">>)
    /\ Remember(c)
    /\ reviewer' = [reviewer EXCEPT !.at = "plan", !.generate = @ \ {c}]
    /\ UNCHANGED <<signature, plans, report, refresh, events>>

BeginReviews ==
    /\ reviewer.at = "plan" /\ reviewer.generate = {}
    /\ reviewer' = [reviewer EXCEPT !.at = "reviews"]
    /\ UNCHANGED <<signature, plans, jobs, report, memory, refresh, events>>

\* The latest report as it was read, under the signature of now.
Repeat(c) ==
    /\ reviewer.at = "reviews" /\ IsFirst(c, reviewer.review)
    /\ report' = IF reviewer.previous[c] = 0 THEN report
                 ELSE [report EXCEPT ![c] = reviewer.seen[c]]
    /\ Remember(c)
    /\ reviewer' = [reviewer EXCEPT !.review = @ \ {c}]
    /\ UNCHANGED <<signature, plans, jobs, refresh, events>>

EndReviews ==
    /\ reviewer.at = "reviews" /\ reviewer.review = {}
    /\ reviewer' = Resting
    /\ UNCHANGED <<signature, plans, jobs, report, memory, refresh, events>>

\* An exception ends the cycle, a restart the memory too.
ReviewsFail ==
    /\ events < MaxEvents
    /\ events' = events + 1
    /\ reviewer' = Resting
    /\ memory' \in {memory, Forgotten}
    /\ UNCHANGED <<signature, plans, jobs, report, refresh>>

ReviewStep ==
    \/ ReadCases \/ ReadReports \/ BeginReviews \/ EndReviews
    \/ \E c \in Case : AppendPlan(c) \/ Enqueue(c) \/ Repeat(c)

ReviewsNext ==
    \/ \E c \in Case : (\E s \in Signature : CaseChanges(c, s)) \/ IntervalPasses(c) \/ RefreshPlans(c)
    \/ \E k \in Key : JobReports(k) \/ JobExpires(k)
    \/ RefreshEnqueues \/ RefreshFails
    \/ ReviewStep
    \/ ReviewsFail

-----------------------------------------------------------------------------
ReviewsTypeOK ==
    /\ signature \in [Case -> 0..Signatures]
    /\ plans \subseteq Case \X Signature
    /\ jobs \in [Key -> {"none", "active", "done", "expired"}]
    /\ report \in [Case -> 0..Signatures]
    /\ reviewer \in Reviewer
    /\ memory \in Memory
    /\ refresh \in (Case \X Signature) \cup {NoRefresh}
    /\ events \in 0..MaxEvents

Requested(c, s) == \E scope \in Scope : jobs[<<c, s, scope>>] # "none"

\* What the worker takes for reviewed was really queued, and what was queued has
\* its plan, whatever fails between the plan, the job, the memory and the report
\* (main.py:114-116, 153-162, 163-194).
RequestsComeFirst ==
    \A c \in Case, s \in Signature :
        /\ memory.signature[c] = s \/ report[c] = s => Requested(c, s)
        /\ Requested(c, s) => <<c, s>> \in plans

\* A case of the newest lots that fewer than CaseLimit others of them are as urgent as.
Urgent(c) ==
    LET recent == Recent(signature)
    IN  c \in recent /\ Cardinality({d \in recent \ {c} : signature[d] >= signature[c]}) < CaseLimit

TakenUp(c) ==
    Urgent(c) =>
        \/ report[c] = signature[c]
        \/ \E scope \in Scope : jobs[<<c, signature[c], scope>>] \in {"active", "expired"}

\* Again and again, each urgent case has a report of its signature as it is now, or
\* a job for it, or had one that expired: no change is forgotten, through
\* exceptions, restarts and changes that come back (main.py:98-109). It says
\* nothing of a case, however urgent, that RecentCases others of as new lots push
\* out of the cycle's sight (main.py:74).
ChangesAreTakenUp == []<>(\A c \in Case : TakenUp(c))
=============================================================================
