-------------------------- MODULE IntelligenceProofs --------------------------
(***************************************************************************)
(* Theorems about the two halves of the intelligence worker: the reviews of *)
(* cases, for any cases, signatures and failures, and the learning from    *)
(* lots, for any log, models, cadence and failures.                        *)
(***************************************************************************)
EXTENDS ContinuousLearning, AssessmentReviews, FiniteSetTheorems, SequenceTheorems, TLAPS

-----------------------------------------------------------------------------
(* The reviews.                                                              *)

ReviewsSpec == ReviewsInit /\ [][ReviewsNext]_reviewVars

\* The cases the worker is about to assess or to review exist, the ones it reviews
\* were requested, and the one it queues has its plan.
CycleIsBacked ==
    /\ reviewer.at \in {"idle", "reports"} => reviewer.generate = {} /\ reviewer.review = {}
    /\ \A c \in reviewer.generate \cup reviewer.review : reviewer.seen[c] # 0
    /\ \A c \in reviewer.review : Requested(c, reviewer.seen[c])
    /\ reviewer.at = "enqueue" =>
          \A c \in Case : IsFirst(c, reviewer.generate) => <<c, reviewer.seen[c]>> \in plans

\* A manual refresh queues a job only for a plan it has stored.
RefreshIsBacked == refresh # NoRefresh => refresh \in plans

ReviewsInv == ReviewsTypeOK /\ RequestsComeFirst /\ CycleIsBacked /\ RefreshIsBacked

\* Once requested, a signature stays requested, and plans stay.
RequestsStay ==
    /\ \A c \in Case, s \in Signature : Requested(c, s) => Requested(c, s)'
    /\ plans \subseteq plans'

LEMMA ReviewConstants == ReviewsAssumption => Cases \in Nat \ {0} /\ Signatures \in Nat \ {0}
BY DEF ReviewsAssumption

LEMMA ReviewerFields ==
    ASSUME ReviewsTypeOK
    PROVE  /\ reviewer.seen \in [Case -> 0..Signatures] /\ reviewer.generate \subseteq Case
           /\ reviewer.review \subseteq Case /\ reviewer.previous \in [Case -> 0..Signatures]
           /\ reviewer.at \in {"idle", "reports", "plan", "enqueue", "reviews"}
BY DEF ReviewsTypeOK, Reviewer

LEMMA MemoryFields ==
    ASSUME ReviewsTypeOK
    PROVE  memory.signature \in [Case -> 0..Signatures] /\ memory.rested \in [Case -> BOOLEAN]
BY DEF ReviewsTypeOK, Memory

LEMMA SeenIsASignature ==
    ASSUME ReviewsTypeOK, NEW c \in Case, reviewer.seen[c] # 0
    PROVE  reviewer.seen[c] \in Signature
<1>1. reviewer.seen[c] \in 0..Signatures
  BY ReviewerFields
<1> QED
  BY <1>1 DEF Signature

\* Only one case is the first of those left.
LEMMA OneFirst ==
    ASSUME ReviewsTypeOK, NEW c \in Case, NEW d \in Case, NEW todo \in SUBSET Case,
           IsFirst(c, todo), IsFirst(d, todo)
    PROVE  c = d
<1>1. reviewer.seen[c] \in Nat /\ reviewer.seen[d] \in Nat /\ c \in Nat /\ d \in Nat
  <2>1. reviewer.seen[c] \in 0..Signatures /\ reviewer.seen[d] \in 0..Signatures
    BY ReviewerFields
  <2> QED
    BY <2>1 DEF Case
<1>2. Before(c, d, reviewer.seen) /\ Before(d, c, reviewer.seen)
  BY DEF IsFirst
<1> QED
  BY <1>1, <1>2 DEF Before

\* A job of one key changes: its signature is requested from then on.
LEMMA RequestedThen ==
    ASSUME ReviewsTypeOK, NEW c0 \in Case, NEW s0 \in Signature, NEW scope0 \in Scope,
           NEW status \in {"active", "done", "expired"},
           jobs' = [jobs EXCEPT ![<<c0, s0, scope0>>] = status]
    PROVE  /\ jobs' \in [Key -> {"none", "active", "done", "expired"}]
           /\ \A c \in Case, s \in Signature : Requested(c, s)' <=> Requested(c, s) \/ (c = c0 /\ s = s0)
<1>1. jobs \in [Key -> {"none", "active", "done", "expired"}] /\ <<c0, s0, scope0>> \in Key
  BY DEF ReviewsTypeOK, Key
<1>2. jobs' \in [Key -> {"none", "active", "done", "expired"}]
  BY <1>1
<1>3. ASSUME NEW c \in Case, NEW s \in Signature
      PROVE  Requested(c, s)' <=> Requested(c, s) \/ (c = c0 /\ s = s0)
  <2>1. \A scope \in Scope : <<c, s, scope>> \in Key
    BY DEF Key
  <2>2. \A scope \in Scope : jobs'[<<c, s, scope>>] =
          IF c = c0 /\ s = s0 /\ scope = scope0 THEN status ELSE jobs[<<c, s, scope>>]
    BY <1>1, <2>1
  <2> QED
    BY <2>2 DEF Requested
<1> QED
  BY <1>2, <1>3

\* The worker's cycle does not move, and what was requested or planned stays.
LEMMA AroundTheWorker ==
    ASSUME ReviewsInv, RequestsStay, reviewer' = reviewer
    PROVE  CycleIsBacked'
<1>1. \A c \in reviewer.review : c \in Case /\ reviewer.seen[c] \in Signature
  BY ReviewerFields, SeenIsASignature DEF ReviewsInv, CycleIsBacked
<1>2. \A c \in Case : IsFirst(c, reviewer.generate)' <=> IsFirst(c, reviewer.generate)
  BY DEF IsFirst, Before
<1> QED
  BY <1>1, <1>2 DEF ReviewsInv, CycleIsBacked, RequestsStay

LEMMA SurroundingsKeep ==
    ASSUME ReviewsAssumption, ReviewsInv, NEW c \in Case,
           IntervalPasses(c) \/ (\E s \in Signature : CaseChanges(c, s))
    PROVE  ReviewsInv'
<1>1. /\ UNCHANGED <<plans, jobs, report, reviewer, refresh>>
      /\ memory'.signature = memory.signature
  BY DEF IntervalPasses, CaseChanges, ReviewsInv, ReviewsTypeOK, Memory
<1>2. ReviewsTypeOK'
  <2>1. memory' \in Memory
    <3>1. CASE IntervalPasses(c)
      <4>1. memory' = [memory EXCEPT !.rested[c] = TRUE] /\ memory \in Memory
        BY <3>1 DEF IntervalPasses, ReviewsInv, ReviewsTypeOK
      <4> QED
        BY <4>1 DEF Memory
    <3>2. CASE \E s \in Signature : CaseChanges(c, s)
      BY <3>2 DEF CaseChanges, ReviewsInv, ReviewsTypeOK
    <3> QED
      BY <3>1, <3>2
  <2>2. signature' \in [Case -> 0..Signatures] /\ events' \in 0..MaxEvents
    <3>1. MaxEvents \in Nat /\ Signature \subseteq 0..Signatures
      BY DEF ReviewsAssumption, Signature
    <3> QED
      BY <3>1 DEF IntervalPasses, CaseChanges, ReviewsInv, ReviewsTypeOK
  <2> QED
    BY <1>1, <2>1, <2>2 DEF ReviewsInv, ReviewsTypeOK
<1>3. RequestsStay /\ RequestsComeFirst'
  BY <1>1 DEF RequestsStay, ReviewsInv, RequestsComeFirst, Requested
<1>4. RefreshIsBacked'
  BY <1>1 DEF ReviewsInv, RefreshIsBacked
<1> QED
  BY <1>1, <1>2, <1>3, <1>4, AroundTheWorker DEF ReviewsInv

LEMMA JobEnds ==
    ASSUME ReviewsAssumption, ReviewsInv, NEW k \in Key, JobReports(k) \/ JobExpires(k)
    PROVE  ReviewsInv'
<1>1. PICK c0 \in Case, s0 \in Signature, scope0 \in Scope : k = <<c0, s0, scope0>>
  BY DEF Key
<1>2. /\ jobs[k] = "active" /\ UNCHANGED <<signature, plans, reviewer, memory, refresh, events>>
      /\ \E status \in {"done", "expired"} : jobs' = [jobs EXCEPT ![k] = status]
  BY DEF JobReports, JobExpires
<1>3. /\ jobs' \in [Key -> {"none", "active", "done", "expired"}]
      /\ \A c \in Case, s \in Signature : Requested(c, s)' <=> Requested(c, s) \/ (c = c0 /\ s = s0)
  BY <1>1, <1>2, RequestedThen DEF ReviewsInv
<1>4. Requested(c0, s0)
  BY <1>1, <1>2 DEF Requested
<1>5. RequestsStay
  BY <1>2, <1>3 DEF RequestsStay
<1>6. report' \in [Case -> 0..Signatures]
      /\ \A c \in Case, s \in Signature : report'[c] = s => report[c] = s \/ (c = c0 /\ s = s0)
  <2>1. CASE JobReports(k)
    <3>1. report' = [report EXCEPT ![c0] = s0]
      BY <1>1, <2>1 DEF JobReports
    <3>2. report \in [Case -> 0..Signatures] /\ s0 \in 0..Signatures
      BY DEF ReviewsInv, ReviewsTypeOK, Signature
    <3> QED
      BY <3>1, <3>2
  <2>2. CASE JobExpires(k)
    BY <2>2 DEF JobExpires, ReviewsInv, ReviewsTypeOK
  <2> QED
    BY <2>1, <2>2
<1>7. ReviewsTypeOK'
  BY <1>2, <1>3, <1>6 DEF ReviewsInv, ReviewsTypeOK
<1>8. RequestsComeFirst'
  BY <1>2, <1>3, <1>4, <1>6 DEF ReviewsInv, RequestsComeFirst
<1>9. RefreshIsBacked'
  BY <1>2 DEF ReviewsInv, RefreshIsBacked
<1> QED
  BY <1>2, <1>5, <1>7, <1>8, <1>9, AroundTheWorker DEF ReviewsInv

LEMMA RefreshKeeps ==
    ASSUME ReviewsAssumption, ReviewsInv,
           (\E c \in Case : RefreshPlans(c)) \/ RefreshEnqueues \/ RefreshFails
    PROVE  ReviewsInv'
<1>1. CASE \E c \in Case : RefreshPlans(c)
  <2>1. PICK c \in Case : RefreshPlans(c)
    BY <1>1
  <2>2. /\ signature[c] # 0 /\ refresh' = <<c, signature[c]>> /\ plans' = plans \cup {refresh'}
        /\ events < MaxEvents /\ events' = events + 1
        /\ UNCHANGED <<signature, jobs, report, reviewer, memory>>
    BY <2>1 DEF RefreshPlans
  <2>3. signature[c] \in Signature
    <3>1. signature[c] \in 0..Signatures
      BY DEF ReviewsInv, ReviewsTypeOK
    <3> QED
      BY <2>2, <3>1 DEF Signature
  <2>4. events' \in 0..MaxEvents
    BY <2>2 DEF ReviewsInv, ReviewsTypeOK, ReviewsAssumption
  <2>5. ReviewsTypeOK'
    BY <2>2, <2>3, <2>4 DEF ReviewsInv, ReviewsTypeOK
  <2>6. RequestsStay /\ RequestsComeFirst'
    BY <2>2 DEF RequestsStay, ReviewsInv, RequestsComeFirst, Requested
  <2>7. RefreshIsBacked'
    BY <2>2 DEF RefreshIsBacked
  <2> QED
    BY <2>2, <2>5, <2>6, <2>7, AroundTheWorker DEF ReviewsInv
<1>2. CASE RefreshEnqueues
  <2>1. /\ refresh # NoRefresh /\ refresh' = NoRefresh
        /\ jobs' = [jobs EXCEPT ![<<refresh[1], refresh[2], "manual">>] = "active"]
        /\ UNCHANGED <<signature, plans, report, reviewer, memory, events>>
    BY <1>2 DEF RefreshEnqueues, Enqueued
  <2>2. PICK c0 \in Case, s0 \in Signature : refresh = <<c0, s0>>
    BY <2>1 DEF ReviewsInv, ReviewsTypeOK
  <2>3. <<c0, s0>> \in plans
    BY <2>1, <2>2 DEF ReviewsInv, RefreshIsBacked
  <2>4. jobs' = [jobs EXCEPT ![<<c0, s0, "manual">>] = "active"] /\ "manual" \in Scope
    BY <2>1, <2>2 DEF Scope
  <2>5. /\ jobs' \in [Key -> {"none", "active", "done", "expired"}]
        /\ \A c \in Case, s \in Signature : Requested(c, s)' <=> Requested(c, s) \/ (c = c0 /\ s = s0)
    BY <2>4, RequestedThen DEF ReviewsInv
  <2>6. RequestsStay /\ RequestsComeFirst'
    BY <2>1, <2>3, <2>5 DEF RequestsStay, ReviewsInv, RequestsComeFirst
  <2>7. ReviewsTypeOK' /\ RefreshIsBacked'
    BY <2>1, <2>5 DEF ReviewsInv, ReviewsTypeOK, RefreshIsBacked
  <2> QED
    BY <2>1, <2>6, <2>7, AroundTheWorker DEF ReviewsInv
<1>3. CASE RefreshFails
  <2>1. refresh' = NoRefresh /\ UNCHANGED <<signature, plans, jobs, report, reviewer, memory, events>>
    BY <1>3 DEF RefreshFails
  <2>2. RequestsStay /\ RequestsComeFirst'
    BY <2>1 DEF RequestsStay, ReviewsInv, RequestsComeFirst, Requested
  <2>3. ReviewsTypeOK' /\ RefreshIsBacked'
    BY <2>1 DEF ReviewsInv, ReviewsTypeOK, RefreshIsBacked
  <2> QED
    BY <2>1, <2>2, <2>3, AroundTheWorker DEF ReviewsInv
<1> QED
  BY <1>1, <1>2, <1>3

\* The worker's cycle moves, and remembers and writes nothing but plans.
LEMMA OnlyTheCycle ==
    ASSUME ReviewsInv, reviewer' \in Reviewer, CycleIsBacked', plans \subseteq plans',
           plans' \subseteq Case \X Signature,
           UNCHANGED <<signature, jobs, report, memory, refresh, events>>
    PROVE  ReviewsInv'
<1>1. ReviewsTypeOK'
  BY DEF ReviewsInv, ReviewsTypeOK
<1>2. RequestsComeFirst'
  BY DEF ReviewsInv, RequestsComeFirst, Requested
<1>3. RefreshIsBacked'
  BY DEF ReviewsInv, RefreshIsBacked
<1> QED
  BY <1>1, <1>2, <1>3 DEF ReviewsInv

LEMMA ReadingKeeps ==
    ASSUME ReviewsAssumption, ReviewsInv, ReadCases \/ ReadReports \/ BeginReviews \/ EndReviews
    PROVE  ReviewsInv'
<1>1. reviewer \in Reviewer /\ report \in [Case -> 0..Signatures]
      /\ signature \in [Case -> 0..Signatures] /\ plans \subseteq Case \X Signature
  BY DEF ReviewsInv, ReviewsTypeOK
<1>2. CASE ReadCases
  <2>1. reviewer' = [reviewer EXCEPT !.at = "reports", !.seen = signature] /\ reviewer.at = "idle"
        /\ UNCHANGED <<signature, plans, jobs, report, memory, refresh, events>>
    BY <1>2 DEF ReadCases
  <2>2. /\ reviewer' \in Reviewer /\ reviewer'.at = "reports" /\ reviewer'.generate = reviewer.generate
        /\ reviewer'.review = reviewer.review
    BY <1>1, <2>1 DEF Reviewer
  <2>3. CycleIsBacked'
    BY <2>1, <2>2 DEF ReviewsInv, CycleIsBacked
  <2> QED
    BY <1>1, <2>1, <2>2, <2>3, OnlyTheCycle
<1>3. CASE ReadReports
  <2> DEFINE top == Top(reviewer.seen)
             changed == {c \in top : KnownSignature(c) # reviewer.seen[c]}
             again == {c \in top \ changed : memory.rested[c]}
  <2>1. reviewer' = [reviewer EXCEPT !.at = "plan", !.previous = report, !.generate = changed, !.review = again]
        /\ UNCHANGED <<signature, plans, jobs, report, memory, refresh, events>>
    BY <1>3 DEF ReadReports
  <2>2. \A c \in top : c \in Case /\ reviewer.seen[c] # 0
    BY DEF Top, Recent, Existing
  <2>3. changed \in SUBSET Case /\ again \in SUBSET Case
    BY <2>2
  <2>4. ASSUME NEW c \in again
        PROVE  Requested(c, reviewer.seen[c])
    <3>1. c \in Case /\ reviewer.seen[c] \in Signature /\ KnownSignature(c) = reviewer.seen[c]
      BY <2>2, SeenIsASignature DEF ReviewsInv
    <3>2. memory.signature[c] = reviewer.seen[c] \/ report[c] = reviewer.seen[c]
      BY <3>1 DEF KnownSignature
    <3> QED
      BY <3>1, <3>2 DEF ReviewsInv, RequestsComeFirst
  <2>5. \A c \in changed \cup again : reviewer.seen[c] # 0
    BY <2>2
  <2> HIDE DEF changed, again
  <2>6. /\ reviewer' \in Reviewer /\ reviewer'.at = "plan" /\ reviewer'.generate = changed
        /\ reviewer'.review = again /\ reviewer'.seen = reviewer.seen
    BY <1>1, <2>1, <2>3 DEF Reviewer
  <2>7. \A c \in again : Requested(c, reviewer.seen[c])'
    BY <2>1, <2>4, <2>6 DEF Requested
  <2>8. CycleIsBacked'
    BY <2>5, <2>6, <2>7 DEF CycleIsBacked
  <2> QED
    BY <1>1, <2>1, <2>6, <2>8, OnlyTheCycle
<1>4. CASE BeginReviews
  <2>1. reviewer' = [reviewer EXCEPT !.at = "reviews"]
        /\ UNCHANGED <<signature, plans, jobs, report, memory, refresh, events>>
    BY <1>4 DEF BeginReviews
  <2>2. /\ reviewer' \in Reviewer /\ reviewer'.at = "reviews" /\ reviewer'.generate = reviewer.generate
        /\ reviewer'.review = reviewer.review /\ reviewer'.seen = reviewer.seen
    BY <1>1, <2>1 DEF Reviewer
  <2>3. CycleIsBacked'
    BY <2>1, <2>2 DEF ReviewsInv, CycleIsBacked, Requested
  <2> QED
    BY <1>1, <2>1, <2>2, <2>3, OnlyTheCycle
<1>5. CASE EndReviews
  <2>1. reviewer' = Resting /\ UNCHANGED <<signature, plans, jobs, report, memory, refresh, events>>
    BY <1>5 DEF EndReviews
  <2>2. Resting \in Reviewer /\ Resting.at = "idle" /\ Resting.generate = {} /\ Resting.review = {}
    BY DEF Resting, Reviewer
  <2>3. CycleIsBacked'
    BY <2>1, <2>2 DEF CycleIsBacked
  <2> QED
    BY <1>1, <2>1, <2>2, <2>3, OnlyTheCycle
<1> QED
  BY <1>2, <1>3, <1>4, <1>5

LEMMA AppendPlanKeeps ==
    ASSUME ReviewsAssumption, ReviewsInv, NEW c \in Case, AppendPlan(c)
    PROVE  ReviewsInv'
<1>1. /\ IsFirst(c, reviewer.generate) /\ plans' = plans \cup {<<c, reviewer.seen[c]>>}
      /\ reviewer' = [reviewer EXCEPT !.at = "enqueue"]
      /\ UNCHANGED <<signature, jobs, report, memory, refresh, events>>
  BY DEF AppendPlan
<1>2. reviewer.seen[c] \in Signature /\ reviewer.generate \subseteq Case
  <2>1. c \in reviewer.generate
    BY <1>1 DEF IsFirst
  <2> QED
    BY <2>1, SeenIsASignature, ReviewerFields DEF ReviewsInv, CycleIsBacked
<1>3. /\ reviewer' \in Reviewer /\ reviewer'.at = "enqueue" /\ reviewer'.generate = reviewer.generate
      /\ reviewer'.review = reviewer.review /\ reviewer'.seen = reviewer.seen
  <2>1. reviewer \in Reviewer
    BY DEF ReviewsInv, ReviewsTypeOK
  <2> QED
    BY <1>1, <2>1 DEF Reviewer
<1>4. ASSUME NEW d \in Case, IsFirst(d, reviewer.generate)'
      PROVE  d = c
  <2>1. IsFirst(d, reviewer.generate)
    BY <1>3, <1>4 DEF IsFirst, Before
  <2> QED
    BY <1>1, <1>2, <2>1, OneFirst DEF ReviewsInv
<1>5. CycleIsBacked'
  BY <1>1, <1>3, <1>4 DEF ReviewsInv, CycleIsBacked, Requested
<1>6. plans' \subseteq Case \X Signature
  BY <1>1, <1>2 DEF ReviewsInv, ReviewsTypeOK
<1> QED
  BY <1>1, <1>3, <1>5, <1>6, OnlyTheCycle

\* What the worker remembers of case c is the signature it has seen.
LEMMA Remembers ==
    ASSUME ReviewsTypeOK, NEW c \in Case, Remember(c)
    PROVE  /\ memory' \in Memory
           /\ \A d \in Case : memory'.signature[d] = IF d = c THEN reviewer.seen[c] ELSE memory.signature[d]
<1>1. memory \in Memory /\ reviewer.seen[c] \in 0..Signatures
  BY ReviewerFields DEF ReviewsTypeOK
<1>2. memory' = [memory EXCEPT !.signature[c] = reviewer.seen[c], !.rested[c] = FALSE]
  BY DEF Remember
<1> QED
  BY <1>1, <1>2 DEF Memory

LEMMA EnqueueKeeps ==
    ASSUME ReviewsAssumption, ReviewsInv, NEW c \in Case, Enqueue(c)
    PROVE  ReviewsInv'
<1> DEFINE s0 == reviewer.seen[c]
<1>1. /\ reviewer.at = "enqueue" /\ IsFirst(c, reviewer.generate)
      /\ jobs' = [jobs EXCEPT ![<<c, s0, "auto">>] = "active"] /\ Remember(c)
      /\ reviewer' = [reviewer EXCEPT !.at = "plan", !.generate = @ \ {c}]
      /\ UNCHANGED <<signature, plans, report, refresh, events>>
  BY DEF Enqueue, Enqueued
<1>2. s0 \in Signature /\ reviewer.generate \subseteq Case /\ <<c, s0>> \in plans
  <2>1. c \in reviewer.generate
    BY <1>1 DEF IsFirst
  <2> QED
    BY <1>1, <2>1, SeenIsASignature, ReviewerFields DEF ReviewsInv, CycleIsBacked
<1>3. /\ reviewer' \in Reviewer /\ reviewer'.at = "plan" /\ reviewer'.generate = reviewer.generate \ {c}
      /\ reviewer'.review = reviewer.review /\ reviewer'.seen = reviewer.seen
  <2>1. reviewer \in Reviewer /\ reviewer.generate \ {c} \in SUBSET Case
    BY <1>2 DEF ReviewsInv, ReviewsTypeOK
  <2> QED
    BY <1>1, <2>1 DEF Reviewer
<1>4. /\ memory' \in Memory
      /\ \A d \in Case : memory'.signature[d] = IF d = c THEN s0 ELSE memory.signature[d]
  BY <1>1, Remembers DEF ReviewsInv
<1> HIDE DEF s0
<1>5. /\ jobs' \in [Key -> {"none", "active", "done", "expired"}]
      /\ \A d \in Case, s \in Signature : Requested(d, s)' <=> Requested(d, s) \/ (d = c /\ s = s0)
  <2>1. "auto" \in Scope
    BY DEF Scope
  <2> QED
    BY <1>1, <1>2, <2>1, RequestedThen DEF ReviewsInv
<1>6. ReviewsTypeOK' /\ RefreshIsBacked'
  BY <1>1, <1>3, <1>4, <1>5 DEF ReviewsInv, ReviewsTypeOK, RefreshIsBacked
<1>7. RequestsComeFirst'
  BY <1>1, <1>2, <1>4, <1>5 DEF ReviewsInv, RequestsComeFirst
<1>8. CycleIsBacked'
  <2>1. \A d \in reviewer.review : d \in Case /\ reviewer.seen[d] \in Signature /\ Requested(d, reviewer.seen[d])
    BY ReviewerFields, SeenIsASignature DEF ReviewsInv, CycleIsBacked
  <2>2. \A d \in reviewer.review : Requested(d, reviewer.seen[d])'
    <3> TAKE d \in reviewer.review
    <3>1. PICK s \in Signature : s = reviewer.seen[d]
      BY <2>1
    <3>2. d \in Case /\ Requested(d, s)
      BY <2>1, <3>1
    <3>3. \E scope \in Scope : jobs'[<<d, s, scope>>] # "none"
      BY <1>5, <3>2 DEF Requested
    <3>4. s = reviewer'.seen[d]
      BY <1>3, <3>1
    <3> QED
      BY <3>3, <3>4 DEF Requested
  <2> QED
    BY <1>3, <2>2 DEF ReviewsInv, CycleIsBacked
<1> QED
  BY <1>6, <1>7, <1>8 DEF ReviewsInv

LEMMA RepeatKeeps ==
    ASSUME ReviewsAssumption, ReviewsInv, NEW c \in Case, Repeat(c)
    PROVE  ReviewsInv'
<1> DEFINE s0 == reviewer.seen[c]
<1>1. /\ reviewer.at = "reviews" /\ IsFirst(c, reviewer.review) /\ Remember(c)
      /\ reviewer' = [reviewer EXCEPT !.review = @ \ {c}]
      /\ UNCHANGED <<signature, plans, jobs, refresh, events>>
      /\ report' = IF reviewer.previous[c] = 0 THEN report ELSE [report EXCEPT ![c] = s0]
  BY DEF Repeat
<1>2. c \in reviewer.review /\ reviewer.review \subseteq Case
  BY <1>1, ReviewerFields DEF IsFirst, ReviewsInv
<1>3. s0 \in Signature /\ Requested(c, s0)
  BY <1>2, SeenIsASignature DEF ReviewsInv, CycleIsBacked
<1>4. /\ reviewer' \in Reviewer /\ reviewer'.at = "reviews" /\ reviewer'.generate = reviewer.generate
      /\ reviewer'.review = reviewer.review \ {c} /\ reviewer'.seen = reviewer.seen
  <2>1. reviewer \in Reviewer /\ reviewer.review \ {c} \in SUBSET Case
    BY <1>2 DEF ReviewsInv, ReviewsTypeOK
  <2> QED
    BY <1>1, <2>1 DEF Reviewer
<1>5. /\ memory' \in Memory
      /\ \A d \in Case : memory'.signature[d] = IF d = c THEN s0 ELSE memory.signature[d]
  BY <1>1, Remembers DEF ReviewsInv
<1> HIDE DEF s0
<1>6. /\ report' \in [Case -> 0..Signatures]
      /\ \A d \in Case, s \in Signature : report'[d] = s => report[d] = s \/ (d = c /\ s = s0)
  <2>1. report \in [Case -> 0..Signatures] /\ s0 \in 0..Signatures
    BY <1>3 DEF ReviewsInv, ReviewsTypeOK, Signature
  <2> QED
    BY <1>1, <2>1
<1>7. ReviewsTypeOK' /\ RefreshIsBacked'
  BY <1>1, <1>4, <1>5, <1>6 DEF ReviewsInv, ReviewsTypeOK, RefreshIsBacked
<1>8. RequestsComeFirst'
  <2> SUFFICES ASSUME NEW d \in Case, NEW s \in Signature
               PROVE  /\ memory'.signature[d] = s \/ report'[d] = s => Requested(d, s)'
                      /\ Requested(d, s)' => <<d, s>> \in plans'
    BY DEF RequestsComeFirst
  <2>1. Requested(d, s)' <=> Requested(d, s)
    BY <1>1 DEF Requested
  <2>2. /\ memory.signature[d] = s \/ report[d] = s => Requested(d, s)
        /\ Requested(d, s) => <<d, s>> \in plans
    BY DEF ReviewsInv, RequestsComeFirst
  <2>3. memory'.signature[d] = s => Requested(d, s)
    BY <1>3, <1>5, <2>2
  <2>4. report'[d] = s => Requested(d, s)
    BY <1>3, <1>6, <2>2
  <2> QED
    BY <1>1, <2>1, <2>2, <2>3, <2>4
<1>9. CycleIsBacked'
  BY <1>1, <1>4 DEF ReviewsInv, CycleIsBacked, Requested
<1> QED
  BY <1>7, <1>8, <1>9 DEF ReviewsInv

LEMMA ReviewsFailKeeps ==
    ASSUME ReviewsAssumption, ReviewsInv, ReviewsFail
    PROVE  ReviewsInv'
<1>1. /\ events < MaxEvents /\ events' = events + 1 /\ reviewer' = Resting /\ memory' \in {memory, Forgotten}
      /\ UNCHANGED <<signature, plans, jobs, report, refresh>>
  BY DEF ReviewsFail
<1>2. /\ Resting \in Reviewer /\ Resting.at = "idle" /\ Resting.generate = {} /\ Resting.review = {}
      /\ Forgotten \in Memory /\ \A c \in Case : Forgotten.signature[c] = 0
  BY DEF Resting, Reviewer, Forgotten, Memory
<1>3. events' \in 0..MaxEvents
  BY <1>1 DEF ReviewsInv, ReviewsTypeOK, ReviewsAssumption
<1>4. ReviewsTypeOK' /\ RefreshIsBacked'
  BY <1>1, <1>2, <1>3 DEF ReviewsInv, ReviewsTypeOK, RefreshIsBacked
<1>5. RequestsComeFirst'
  <2>1. \A s \in Signature : s # 0
    BY DEF Signature
  <2> QED
    BY <1>1, <1>2, <2>1 DEF ReviewsInv, RequestsComeFirst, Requested
<1>6. CycleIsBacked'
  BY <1>1, <1>2 DEF CycleIsBacked
<1> QED
  BY <1>4, <1>5, <1>6 DEF ReviewsInv

\* The inductive invariant of the reviews holds in every state.
THEOREM ReviewsInvariant == ReviewsSpec => []ReviewsInv
<1>1. ReviewsInit => ReviewsInv
  <2> SUFFICES ASSUME ReviewsInit PROVE ReviewsInv
    OBVIOUS
  <2>1. /\ Resting \in Reviewer /\ Resting.at = "idle" /\ Resting.generate = {} /\ Resting.review = {}
        /\ Forgotten \in Memory /\ \A c \in Case : Forgotten.signature[c] = 0
    <3>0. 0 \in 0..Signatures
      BY ReviewConstants, ReviewsAssumption
    <3>1. Resting \in Reviewer /\ Resting.at = "idle" /\ Resting.generate = {} /\ Resting.review = {}
      BY <3>0 DEF Resting, Reviewer
    <3>2. Forgotten \in Memory /\ \A c \in Case : Forgotten.signature[c] = 0
      BY <3>0 DEF Forgotten, Memory
    <3> QED
      BY <3>1, <3>2
  <2>2. \A s \in Signature : s # 0
    BY DEF Signature
  <2>3. ReviewsTypeOK
    BY <2>1, ReviewsAssumption DEF ReviewsInit, ReviewsTypeOK, ReviewsAssumption
  <2>4. RequestsComeFirst
    BY <2>1, <2>2 DEF ReviewsInit, RequestsComeFirst, Requested, Key
  <2>5. CycleIsBacked /\ RefreshIsBacked
    BY <2>1 DEF ReviewsInit, CycleIsBacked, RefreshIsBacked
  <2> QED
    BY <2>3, <2>4, <2>5 DEF ReviewsInv
<1>2. ReviewsInv /\ [ReviewsNext]_reviewVars => ReviewsInv'
  <2> SUFFICES ASSUME ReviewsInv, [ReviewsNext]_reviewVars PROVE ReviewsInv'
    OBVIOUS
  <2>1. CASE UNCHANGED reviewVars
    <3>1. UNCHANGED <<signature, plans, jobs, report, reviewer, memory, refresh, events>>
      BY <2>1 DEF reviewVars
    <3>2. ReviewsTypeOK' /\ RefreshIsBacked'
      BY <3>1 DEF ReviewsInv, ReviewsTypeOK, RefreshIsBacked
    <3>3. RequestsStay /\ RequestsComeFirst'
      BY <3>1 DEF RequestsStay, ReviewsInv, RequestsComeFirst, Requested
    <3> QED
      BY <3>1, <3>2, <3>3, AroundTheWorker DEF ReviewsInv
  <2>2. CASE ReviewStep
    BY <2>2, ReadingKeeps, AppendPlanKeeps, EnqueueKeeps, RepeatKeeps, ReviewsAssumption DEF ReviewStep
  <2>3. CASE ReviewsNext /\ ~ReviewStep
    BY <2>3, SurroundingsKeep, JobEnds, RefreshKeeps, ReviewsFailKeeps, ReviewsAssumption DEF ReviewsNext
  <2> QED
    BY <2>1, <2>2, <2>3
<1> QED
  BY <1>1, <1>2, PTL DEF ReviewsSpec

\* The worker's cycle and its memory, the tables and the jobs have their types.
THEOREM ReviewsTypeCorrect == ReviewsSpec => []ReviewsTypeOK
<1>1. ReviewsInv => ReviewsTypeOK
  BY DEF ReviewsInv
<1> QED
  BY <1>1, ReviewsInvariant, PTL

\* Whatever case the worker remembers or reports as reviewed under a signature was
\* queued under it, and whatever was queued has its plan (main.py:114-194).
THEOREM RequestsFirst == ReviewsSpec => []RequestsComeFirst
<1>1. ReviewsInv => RequestsComeFirst
  BY DEF ReviewsInv
<1> QED
  BY <1>1, ReviewsInvariant, PTL

-----------------------------------------------------------------------------
(* The learning.                                                             *)

\* An outcome is of a lot that has had an inspection, and the snapshots the worker
\* goes by are of lots as they were, at or after the time of their outcomes.
OutcomesAreSeen ==
    \A l \in Lot :
        /\ worker.seen[l] <= phase[l]
        /\ outcomes[l] > 0 => phase[l] > PastCutoff
        /\ outcomes[l] > 0 /\ worker.at # "idle" => worker.seen[l] > PastCutoff

\* A version was trained on outcomes that are stored, and a prediction is of a lot
\* that is not older than any its model was trained on.
DataIsOld ==
    /\ \A x \in registry, l \in Lot : x.data[l] > 0 => outcomes[l] > 0
    /\ \A i \in DOMAIN predictions, l \in Lot : predictions[i].data[l] > 0 => l <= predictions[i].lot

BatchExists == worker.todo \subseteq DOMAIN predictions

LearnInv == TypeOK /\ OneChampion /\ OutcomesAreSeen /\ DataIsOld /\ BatchExists

LEMMA LearningConstants ==
    /\ Lots \in Nat /\ History \in Nat /\ MaxFailures \in Nat /\ Wafers \in Nat \ {0}
    /\ Models \in Seq(STRING)
<1>1. {Lots, History, RetrainEvery, DriftRows, MaxFailures} \subseteq Nat
      /\ {Wafers, FeedbackLimit} \subseteq Nat \ {0} /\ Models \in Seq(STRING)
  BY LearningAssumption DEF LearningAssumption
<1>2. Lots \in {Lots, History, RetrainEvery, DriftRows, MaxFailures}
      /\ History \in {Lots, History, RetrainEvery, DriftRows, MaxFailures}
      /\ MaxFailures \in {Lots, History, RetrainEvery, DriftRows, MaxFailures}
      /\ Wafers \in {Wafers, FeedbackLimit}
  OBVIOUS
<1> QED
  BY <1>1, <1>2

LEMMA Phases ==
    /\ PastCutoff = 1 /\ Complete = 1 + Wafers /\ Complete \in Nat /\ Absent = 0
    /\ Phase = 0..Complete /\ \A p \in Phase : p \in Nat
BY LearningConstants DEF PastCutoff, Complete, Absent, Phase

LEMMA LearningFields ==
    ASSUME TypeOK
    PROVE  /\ worker.at \in At /\ worker.seen \in [Lot -> Phase] /\ worker.todo \in SUBSET Nat
           /\ worker.trained \in 0..Len(Models) /\ worker.keys \in SUBSET Prediction /\ worker.rows \in Nat
BY DEF TypeOK, Worker

\* There are finitely many lots, and they are numbers.
LEMMA LotsAreFinite == IsFiniteSet(Lot) /\ Lot \subseteq Nat
<1>1. Lots \in Nat
  BY LearningConstants
<1>2. 1 \in Int /\ Lots \in Int
  BY <1>1
<1>3. IsFiniteSet(1..Lots)
  BY <1>2, FS_Interval
<1>4. 1..Lots \subseteq Nat
  BY <1>1
<1> QED
  BY <1>3, <1>4 DEF Lot

LEMMA KnownIsFinite ==
    ASSUME NEW outs
    PROVE  Known(outs) \in SUBSET Lot /\ IsFiniteSet(Known(outs)) /\ Cardinality(Known(outs)) \in Nat
<1>1. Known(outs) \in SUBSET Lot
  BY DEF Known
<1>2. IsFiniteSet(Lot)
  BY LotsAreFinite
<1>3. IsFiniteSet(Known(outs))
  BY <1>1, <1>2, FS_Subset
<1> QED
  BY <1>1, <1>3, FS_CardinalityType

\* What does not touch the parts of the invariant that the tables carry.
LEMMA OnlyTheLearner ==
    ASSUME LearnInv, worker' \in Worker, failures' \in 0..MaxFailures,
           UNCHANGED <<phase, outcomes, registry, predictions, feedback>>,
           worker'.todo \subseteq DOMAIN predictions,
           \A l \in Lot : /\ worker'.seen[l] <= phase[l]
                          /\ outcomes[l] > 0 /\ worker'.at # "idle" => worker'.seen[l] > PastCutoff
    PROVE  LearnInv'
<1>1. TypeOK'
  BY DEF LearnInv, TypeOK
<1>2. OneChampion'
  BY DEF LearnInv, OneChampion, Champions
<1>3. OutcomesAreSeen'
  BY DEF LearnInv, OutcomesAreSeen
<1>4. DataIsOld' /\ BatchExists'
  BY DEF LearnInv, DataIsOld, BatchExists
<1> QED
  BY <1>1, <1>2, <1>3, <1>4 DEF LearnInv

\* A step of the worker that leaves its snapshots and the tables alone.
LEMMA WorkerMoves ==
    ASSUME LearnInv, worker' \in Worker, failures' \in 0..MaxFailures,
           UNCHANGED <<phase, outcomes, registry, predictions, feedback>>,
           worker'.todo \subseteq DOMAIN predictions, worker'.seen = worker.seen, worker.at # "idle"
    PROVE  LearnInv'
<1>1. \A l \in Lot : /\ worker'.seen[l] <= phase[l]
                     /\ outcomes[l] > 0 /\ worker'.at # "idle" => worker'.seen[l] > PastCutoff
  BY DEF LearnInv, OutcomesAreSeen
<1> QED
  BY <1>1, OnlyTheLearner

\* The worker forgets its snapshots.
LEMMA WorkerRests ==
    ASSUME LearnInv, worker' \in Worker, failures' \in 0..MaxFailures,
           UNCHANGED <<phase, outcomes, registry, predictions, feedback>>,
           worker'.todo \subseteq DOMAIN predictions, worker'.seen = NothingSeen, worker'.at = "idle"
    PROVE  LearnInv'
<1>1. \A l \in Lot : phase[l] \in Nat /\ worker'.seen[l] = 0
  <2>1. \A l \in Lot : phase[l] \in Phase
    BY DEF LearnInv, TypeOK
  <2> QED
    BY <2>1, Phases DEF NothingSeen
<1>2. \A l \in Lot : worker'.seen[l] <= phase[l]
  BY <1>1
<1> QED
  BY <1>2, OnlyTheLearner

LEMMA ProducerKeeps ==
    ASSUME LearnInv, NEW l \in Lot, StartLot(l) \/ InspectWafer(l)
    PROVE  LearnInv'
<1>1. UNCHANGED <<outcomes, registry, predictions, feedback, worker, failures>>
  BY DEF StartLot, InspectWafer
<1>2. phase \in [Lot -> Phase] /\ phase[l] \in Nat /\ phase[l] \in Phase
  BY Phases DEF LearnInv, TypeOK
<1>3. \E p \in Phase : phase[l] <= p /\ phase' = [phase EXCEPT ![l] = p]
  <2>1. CASE StartLot(l)
    <3>1. PastCutoff \in Phase /\ phase[l] <= PastCutoff
      BY <2>1, LearningConstants, Phases DEF StartLot
    <3> QED
      BY <2>1, <3>1 DEF StartLot
  <2>2. CASE InspectWafer(l)
    <3>1. phase[l] + 1 \in Phase /\ phase[l] <= phase[l] + 1
      <4>1. phase[l] \in 1..(Complete - 1)
        BY <2>2, Phases DEF InspectWafer
      <4> QED
        BY <1>2, <4>1, Phases
    <3>2. phase' = [phase EXCEPT ![l] = phase[l] + 1]
      BY <2>2 DEF InspectWafer
    <3> QED
      BY <3>1, <3>2
  <2> QED
    BY <2>1, <2>2
<1>4. phase' \in [Lot -> Phase] /\ \A x \in Lot : phase[x] <= phase'[x]
  <2>1. \A x \in Lot : phase[x] \in Nat
    BY <1>2, Phases
  <2> QED
    BY <1>2, <1>3, <2>1
<1>5. TypeOK'
  BY <1>1, <1>4 DEF LearnInv, TypeOK
<1>6. OneChampion'
  BY <1>1 DEF LearnInv, OneChampion, Champions
<1>7. OutcomesAreSeen'
  <2>1. \A x \in Lot : worker.seen[x] \in Nat /\ phase[x] \in Nat /\ phase'[x] \in Nat
    BY <1>2, <1>4, LearningFields, Phases DEF LearnInv
  <2> QED
    BY <1>1, <1>4, <2>1, Phases DEF LearnInv, OutcomesAreSeen
<1>8. DataIsOld' /\ BatchExists'
  BY <1>1 DEF LearnInv, DataIsOld, BatchExists
<1> QED
  BY <1>5, <1>6, <1>7, <1>8 DEF LearnInv

LEMMA ReadSnapshotsKeeps ==
    ASSUME LearnInv, ReadSnapshots
    PROVE  LearnInv'
<1>1. worker' = [worker EXCEPT !.at = "outcomes", !.seen = phase]
      /\ UNCHANGED <<phase, outcomes, registry, predictions, feedback, failures>>
  BY DEF ReadSnapshots
<1>2. worker' \in Worker /\ worker'.seen = phase /\ worker'.todo = worker.todo
  <2>1. worker \in Worker /\ phase \in [Lot -> Phase] /\ "outcomes" \in At
    BY DEF LearnInv, TypeOK, At
  <2> QED
    BY <1>1, <2>1 DEF Worker
<1>3. \A l \in Lot : phase[l] <= phase[l] /\ (outcomes[l] > 0 => phase[l] > PastCutoff)
  <2>1. \A l \in Lot : phase[l] \in Nat
    BY Phases DEF LearnInv, TypeOK
  <2> QED
    BY <2>1 DEF LearnInv, OutcomesAreSeen
<1>4. failures' \in 0..MaxFailures /\ worker'.todo \subseteq DOMAIN predictions
  BY <1>1, <1>2 DEF LearnInv, TypeOK, BatchExists
<1> QED
  BY <1>1, <1>2, <1>3, <1>4, OnlyTheLearner

LEMMA UpsertKeeps ==
    ASSUME LearnInv, NEW l \in Lot, UpsertOutcome(l)
    PROVE  LearnInv'
<1> DEFINE n == worker.seen[l] - PastCutoff
<1>1. /\ worker.at = "outcomes" /\ worker.seen[l] > PastCutoff
      /\ outcomes' = [outcomes EXCEPT ![l] = n]
      /\ UNCHANGED <<phase, registry, predictions, feedback, worker, failures>>
  BY DEF UpsertOutcome, Changed
<1>2. \A x \in Lot : worker.seen[x] \in 0..Complete /\ phase[x] \in 0..Complete
  BY LearningFields, Phases DEF LearnInv, TypeOK
<1>3. n \in 0..Wafers /\ n > 0
  BY <1>1, <1>2, Phases, LearningConstants
<1>4. outcomes \in [Lot -> 0..Wafers]
  BY DEF LearnInv, TypeOK, Outcomes
<1> HIDE DEF n
<1>5. outcomes' \in [Lot -> 0..Wafers] /\ \A x \in Lot : outcomes'[x] = IF x = l THEN n ELSE outcomes[x]
  BY <1>1, <1>3, <1>4
<1>6. TypeOK'
  BY <1>1, <1>5 DEF LearnInv, TypeOK, Outcomes
<1>7. OneChampion' /\ BatchExists'
  BY <1>1 DEF LearnInv, OneChampion, Champions, BatchExists
<1>8. OutcomesAreSeen'
  <2>1. \A x \in Lot : worker.seen[x] \in Nat /\ phase[x] \in Nat
    BY <1>2
  <2>2. worker.seen[l] <= phase[l] /\ phase[l] > PastCutoff
    BY <1>1, <2>1, Phases DEF LearnInv, OutcomesAreSeen
  <2> QED
    BY <1>1, <1>5, <2>2 DEF LearnInv, OutcomesAreSeen
<1>9. DataIsOld'
  <2>1. \A x \in Lot : outcomes[x] > 0 => outcomes'[x] > 0
    BY <1>3, <1>5
  <2> QED
    BY <1>1, <2>1 DEF LearnInv, DataIsOld
<1> QED
  BY <1>6, <1>7, <1>8, <1>9 DEF LearnInv

LEMMA ReadUnevaluatedKeeps ==
    ASSUME LearnInv, ReadUnevaluated
    PROVE  LearnInv'
<1>1. worker.at = "outcomes" /\ worker' = [worker EXCEPT !.at = "feedback", !.todo = Batch]
      /\ UNCHANGED <<phase, outcomes, registry, predictions, feedback, failures>>
  BY DEF ReadUnevaluated
<1>2. Batch \subseteq DOMAIN predictions /\ Batch \in SUBSET Nat
  <2>1. Batch \subseteq DOMAIN predictions
    BY DEF Batch, Unevaluated
  <2>2. DOMAIN predictions \subseteq Nat
    BY DEF LearnInv, TypeOK
  <2> QED
    BY <2>1, <2>2
<1>3. worker' \in Worker /\ worker'.seen = worker.seen /\ worker'.todo = Batch
  <2>1. worker \in Worker /\ "feedback" \in At
    BY DEF LearnInv, TypeOK, At
  <2> QED
    BY <1>1, <1>2, <2>1 DEF Worker
<1>4. failures' \in 0..MaxFailures
  BY <1>1 DEF LearnInv, TypeOK
<1> QED
  BY <1>1, <1>2, <1>3, <1>4, WorkerMoves

LEMMA JudgeKeeps ==
    ASSUME LearnInv, NEW i \in worker.todo, Judge(i)
    PROVE  LearnInv'
<1> DEFINE Actual == [lot: 0..Lots, seen: 0..Wafers]
<1>1. /\ worker.at = "feedback" /\ worker' = [worker EXCEPT !.todo = @ \ {i}]
      /\ UNCHANGED <<phase, outcomes, registry, predictions, failures>>
      /\ \/ UNCHANGED feedback
         \/ \E actual \in Judges(predictions[i]) : feedback' = [feedback EXCEPT ![i] = actual]
  BY DEF Judge
<1>2. worker \in Worker /\ worker.todo \ {i} \in SUBSET Nat
  BY LearningFields DEF LearnInv, TypeOK
<1>3. /\ worker' \in Worker /\ worker'.seen = worker.seen /\ worker'.at = worker.at
      /\ worker'.todo = worker.todo \ {i}
  BY <1>1, <1>2 DEF Worker
<1>4. predictions[i] \in Prediction /\ i \in 1..Len(feedback)
  <2>1. i \in DOMAIN predictions /\ predictions \in Seq(Prediction) /\ Len(feedback) = Len(predictions)
    BY DEF LearnInv, TypeOK, BatchExists
  <2> QED
    BY <2>1
<1>5. Judges(predictions[i]) \subseteq Actual
  <2>1. predictions[i].lot \in Lot /\ outcomes \in [Lot -> 0..Wafers]
    BY <1>4 DEF Prediction, LearnInv, TypeOK, Outcomes
  <2>2. \A n \in Lot : [lot |-> n, seen |-> outcomes[n]] \in Actual
    BY <2>1, LearningConstants DEF Lot
  <2>3. NextKnown(predictions[i].lot, outcomes) \subseteq Lot
    BY DEF NextKnown, Known
  <2> QED
    BY <2>1, <2>2, <2>3 DEF Judges
<1>6. feedback' \in Seq(Actual) /\ Len(feedback') = Len(feedback)
  <2>1. feedback \in Seq(Actual)
    BY DEF LearnInv, TypeOK
  <2>2. ASSUME NEW actual \in Actual
        PROVE  [feedback EXCEPT ![i] = actual] \in Seq(Actual) /\ Len([feedback EXCEPT ![i] = actual]) = Len(feedback)
    <3> HIDE DEF Actual
    <3> QED
      BY <1>4, <2>1, <2>2, ExceptSeq
  <2>3. CASE UNCHANGED feedback
    BY <2>1, <2>3
  <2>4. CASE \E actual \in Judges(predictions[i]) : feedback' = [feedback EXCEPT ![i] = actual]
    <3>1. PICK actual \in Actual : feedback' = [feedback EXCEPT ![i] = actual]
      BY <1>5, <2>4
    <3> HIDE DEF Actual
    <3> QED
      BY <2>2, <3>1
  <2> QED
    BY <1>1, <2>3, <2>4
<1>7. TypeOK'
  BY <1>1, <1>3, <1>6 DEF LearnInv, TypeOK
<1>8. OneChampion'
  BY <1>1 DEF LearnInv, OneChampion, Champions
<1>9. OutcomesAreSeen'
  BY <1>1, <1>3 DEF LearnInv, OutcomesAreSeen
<1>10. DataIsOld' /\ BatchExists'
  BY <1>1, <1>3 DEF LearnInv, DataIsOld, BatchExists
<1> QED
  BY <1>7, <1>8, <1>9, <1>10 DEF LearnInv

LEMMA TrainingFrameKeeps ==
    ASSUME LearnInv, DecideTraining \/ EndTraining
    PROVE  LearnInv'
<1>1. UNCHANGED <<phase, outcomes, registry, predictions, feedback, failures>> /\ worker.at # "idle"
  BY DEF DecideTraining, EndTraining
<1>2. worker \in Worker /\ {"training", "predicting"} \subseteq At /\ 0 \in 0..Len(Models)
  <2>1. Len(Models) \in Nat
    BY LearningConstants
  <2> QED
    BY <2>1 DEF LearnInv, TypeOK, At
<1>3. worker' \in Worker /\ worker'.seen = worker.seen /\ worker'.todo = worker.todo
  <2>1. CASE DecideTraining
    <3>1. \/ worker' = [worker EXCEPT !.at = "training", !.trained = 0]
          \/ worker' = [worker EXCEPT !.at = "predicting"]
      BY <2>1 DEF DecideTraining, To
    <3> QED
      BY <1>2, <3>1 DEF Worker
  <2>2. CASE EndTraining
    <3> DEFINE rows == Cardinality(Known(outcomes))
    <3>1. worker' = [worker EXCEPT !.at = "predicting", !.trained = 0, !.rows = rows] /\ rows \in Nat
      BY <2>2, KnownIsFinite DEF EndTraining
    <3> HIDE DEF rows
    <3> QED
      BY <1>2, <3>1 DEF Worker
  <2> QED
    BY <2>1, <2>2
<1>4. failures' \in 0..MaxFailures /\ worker'.todo \subseteq DOMAIN predictions
  BY <1>1, <1>3 DEF LearnInv, TypeOK, BatchExists
<1> QED
  BY <1>1, <1>3, <1>4, WorkerMoves

\* A registration leaves at most the new champion.
LEMMA RegisterKeeps ==
    ASSUME LearnInv, NEW m \in Model, NEW status \in {"champion", "rejected"},
           registry' = Register(m, outcomes, status)
    PROVE  /\ registry' \subseteq RegistryRow /\ OneChampion'
           /\ \A x \in registry', l \in Lot : x.data[l] > 0 => outcomes[l] > 0
<1> DEFINE new == [model |-> m, data |-> outcomes, status |-> status]
           others == {y \in registry : ~(y.model = m /\ y.data = outcomes)}
           after(x) == IF status = "champion" /\ x.model = m /\ x.status = "champion"
                       THEN [x EXCEPT !.status = "retired"] ELSE x
<1>1. registry' = {after(x) : x \in others} \cup {new}
  BY DEF Register
<1>2. new \in RegistryRow /\ new.model = m /\ new.data = outcomes /\ new.status = status
  BY DEF RegistryRow, LearnInv, TypeOK
<1>3. ASSUME NEW x \in others
      PROVE  /\ after(x) \in RegistryRow /\ after(x).model = x.model /\ after(x).data = x.data
             /\ after(x).status = "champion" =>
                   after(x) = x /\ x.status = "champion" /\ (status = "champion" => x.model # m)
  <2>1. x \in RegistryRow
    BY DEF LearnInv, TypeOK
  <2> QED
    BY <2>1 DEF RegistryRow
<1> HIDE DEF new, after
<1>4. \A z \in registry' : z = new \/ \E x \in others : z = after(x)
  BY <1>1
<1>5. registry' \subseteq RegistryRow
  BY <1>2, <1>3, <1>4
<1>6. ASSUME NEW k \in Model, NEW x \in Champions(k)', NEW y \in Champions(k)'
      PROVE  x = y
  <2>1. x \in registry' /\ x.model = k /\ x.status = "champion"
        /\ y \in registry' /\ y.model = k /\ y.status = "champion"
    BY DEF Champions
  <2>2. \A z \in others : z \in registry /\ ~(z.model = m /\ z.data = outcomes)
    OBVIOUS
  <2>3. ASSUME NEW z \in registry', z # new, z.status = "champion"
        PROVE  z \in registry /\ (status = "champion" => z.model # m)
    BY <1>3, <1>4, <2>2, <2>3
  <2>4. CASE x # new /\ y # new
    <3>1. x \in Champions(k) /\ y \in Champions(k)
      BY <2>1, <2>3, <2>4 DEF Champions
    <3> QED
      BY <3>1 DEF LearnInv, OneChampion
  <2> QED
    BY <1>2, <2>1, <2>3, <2>4
<1>7. OneChampion'
  BY <1>6 DEF OneChampion
<1>8. ASSUME NEW x \in registry', NEW l \in Lot, x.data[l] > 0
      PROVE  outcomes[l] > 0
  <2>1. CASE x = new
    BY <1>2, <1>8, <2>1
  <2>2. CASE x # new
    <3>1. PICK z \in others : x = after(z)
      BY <1>4, <2>2
    <3> QED
      BY <1>3, <1>8, <3>1 DEF LearnInv, DataIsOld
  <2> QED
    BY <2>1, <2>2
<1> QED
  BY <1>5, <1>7, <1>8

LEMMA TrainKeeps ==
    ASSUME LearnInv, Train
    PROVE  LearnInv'
<1> DEFINE m == Models[worker.trained + 1]
<1>1. /\ worker.at = "training" /\ worker.trained < Len(Models)
      /\ worker' = [worker EXCEPT !.trained = @ + 1]
      /\ UNCHANGED <<phase, outcomes, predictions, feedback, failures>>
      /\ \/ UNCHANGED registry
         \/ \E status \in {"champion", "rejected"} : registry' = Register(m, outcomes, status)
  BY DEF Train
<1>2. worker.trained \in 0..Len(Models) /\ Len(Models) \in Nat /\ worker \in Worker
  BY LearningFields, LearningConstants DEF LearnInv, TypeOK
<1>3. m \in Model
  <2>1. worker.trained + 1 \in DOMAIN Models
    BY <1>1, <1>2, LearningConstants
  <2> QED
    BY <2>1 DEF Model
<1> HIDE DEF m
<1>4. worker.trained + 1 \in 0..Len(Models)
  BY <1>1, <1>2
<1>5. /\ worker' \in Worker /\ worker'.seen = worker.seen /\ worker'.at = worker.at
      /\ worker'.todo = worker.todo
  BY <1>1, <1>2, <1>4 DEF Worker
<1>6. /\ registry' \subseteq RegistryRow /\ OneChampion'
      /\ \A x \in registry', l \in Lot : x.data[l] > 0 => outcomes[l] > 0
  <2>1. CASE UNCHANGED registry
    BY <2>1 DEF LearnInv, TypeOK, OneChampion, Champions, DataIsOld
  <2>2. CASE \E status \in {"champion", "rejected"} : registry' = Register(m, outcomes, status)
    BY <1>3, <2>2, RegisterKeeps
  <2> QED
    BY <1>1, <2>1, <2>2
<1>7. TypeOK'
  BY <1>1, <1>5, <1>6 DEF LearnInv, TypeOK
<1>8. OutcomesAreSeen'
  BY <1>1, <1>5 DEF LearnInv, OutcomesAreSeen
<1>9. DataIsOld' /\ BatchExists'
  BY <1>1, <1>5, <1>6 DEF LearnInv, DataIsOld, BatchExists
<1> QED
  BY <1>6, <1>7, <1>8, <1>9 DEF LearnInv

LEMMA PredictKeeps ==
    ASSUME LearnInv, NEW l \in Lot, Predict(l)
    PROVE  LearnInv'
<1>1. PICK p \in Unpredicted(l) :
         predictions' = Append(predictions, p) /\ worker' = [worker EXCEPT !.keys = @ \cup {p}]
  BY DEF Predict
<1>2. /\ worker.at = "predicting" /\ IsLatest(l) /\ feedback' = Append(feedback, NoFeedback)
      /\ UNCHANGED <<phase, outcomes, registry, failures>>
  BY DEF Predict
<1>3. PICK x \in registry : p = [lot |-> l, model |-> x.model, data |-> x.data]
  BY DEF Unpredicted, Champions
<1>4. x \in RegistryRow
  BY DEF LearnInv, TypeOK
<1>5. p \in Prediction /\ p.lot = l /\ p.data = x.data
  BY <1>3, <1>4 DEF RegistryRow, Prediction
<1>6. worker.keys \cup {p} \in SUBSET Prediction /\ worker \in Worker
  BY <1>5, LearningFields DEF LearnInv, TypeOK
<1>7. /\ worker' \in Worker /\ worker'.seen = worker.seen /\ worker'.at = worker.at
      /\ worker'.todo = worker.todo
  BY <1>1, <1>6 DEF Worker
<1>8. /\ predictions' \in Seq(Prediction) /\ Len(predictions') = Len(predictions) + 1
      /\ \A i \in 1..Len(predictions) : predictions'[i] = predictions[i]
      /\ predictions'[Len(predictions) + 1] = p
  BY <1>1, <1>5, AppendProperties DEF LearnInv, TypeOK
<1>9. /\ feedback' \in Seq([lot: 0..Lots, seen: 0..Wafers]) /\ Len(feedback') = Len(feedback) + 1
  <2> DEFINE Actual == [lot: 0..Lots, seen: 0..Wafers]
  <2>1. NoFeedback \in Actual
    BY LearningConstants DEF NoFeedback
  <2>2. feedback \in Seq(Actual)
    BY DEF LearnInv, TypeOK
  <2> HIDE DEF Actual
  <2>3. feedback' \in Seq(Actual) /\ Len(feedback') = Len(feedback) + 1
    BY <1>2, <2>1, <2>2, AppendProperties
  <2> QED
    BY <2>3 DEF Actual
<1>10. TypeOK'
  BY <1>2, <1>7, <1>8, <1>9 DEF LearnInv, TypeOK
<1>11. OneChampion'
  BY <1>2 DEF LearnInv, OneChampion, Champions
<1>12. OutcomesAreSeen'
  BY <1>2, <1>7 DEF LearnInv, OutcomesAreSeen
<1>13. \A y \in Lot : p.data[y] > 0 => y <= l
  <2> SUFFICES ASSUME NEW y \in Lot, p.data[y] > 0 PROVE y <= l
    OBVIOUS
  <2>1. outcomes[y] > 0
    BY <1>4, <1>5 DEF LearnInv, DataIsOld
  <2>2. worker.seen[y] > PastCutoff
    BY <1>2, <2>1 DEF LearnInv, OutcomesAreSeen
  <2>3. worker.seen[y] \in Nat /\ y \in Nat /\ l \in Nat
    <3>1. worker.seen[y] \in Phase
      BY LearningFields DEF LearnInv
    <3>2. y \in Nat /\ l \in Nat
      BY LearningConstants DEF Lot
    <3> QED
      BY <3>1, <3>2, Phases
  <2>4. ~(l < y)
    BY <1>2, <2>2, <2>3, Phases DEF IsLatest
  <2> QED
    BY <2>3, <2>4
<1>14. DataIsOld'
  <2> SUFFICES ASSUME NEW i \in DOMAIN predictions', NEW y \in Lot, predictions'[i].data[y] > 0
               PROVE  y <= predictions'[i].lot
    BY <1>2 DEF LearnInv, DataIsOld
  <2>1. predictions \in Seq(Prediction) /\ i \in 1..(Len(predictions) + 1)
    BY <1>8 DEF LearnInv, TypeOK
  <2>2. CASE i = Len(predictions) + 1
    BY <1>5, <1>8, <1>13, <2>2
  <2>3. CASE i \in 1..Len(predictions)
    BY <1>8, <2>1, <2>3 DEF LearnInv, DataIsOld
  <2> QED
    BY <2>1, <2>2, <2>3
<1>15. BatchExists'
  <2>1. predictions \in Seq(Prediction)
    BY DEF LearnInv, TypeOK
  <2>2. DOMAIN predictions \subseteq DOMAIN predictions'
    BY <1>8, <2>1
  <2> QED
    BY <1>7, <2>2 DEF LearnInv, BatchExists
<1> QED
  BY <1>10, <1>11, <1>12, <1>14, <1>15 DEF LearnInv

LEMMA EndsKeep ==
    ASSUME LearnInv, EndCycle \/ CycleFails \/ Restart
    PROVE  LearnInv'
<1>1. /\ UNCHANGED <<phase, outcomes, registry, predictions, feedback>>
      /\ failures' = failures \/ (failures < MaxFailures /\ failures' = failures + 1)
  BY DEF EndCycle, CycleFails, Restart
<1>2. failures' \in 0..MaxFailures
  BY <1>1, LearningConstants DEF LearnInv, TypeOK
<1>3. worker \in Worker /\ "idle" \in At /\ NothingSeen \in [Lot -> Phase] /\ 0 \in 0..Len(Models)
  <2>1. Absent \in Phase /\ Len(Models) \in Nat
    BY Phases, LearningConstants
  <2> QED
    BY <2>1 DEF LearnInv, TypeOK, At, NothingSeen
<1>4. /\ worker' \in Worker /\ worker'.seen = NothingSeen /\ worker'.at = "idle"
      /\ worker'.todo \subseteq worker.todo
  <2>1. CASE EndCycle
    <3>1. worker' = [worker EXCEPT !.at = "idle", !.seen = NothingSeen]
      BY <2>1 DEF EndCycle
    <3> QED
      BY <1>3, <3>1 DEF Worker
  <2>2. CASE CycleFails
    <3>1. worker' = [worker EXCEPT !.at = "idle", !.seen = NothingSeen, !.todo = {}, !.trained = 0]
      BY <2>2 DEF CycleFails
    <3> QED
      BY <1>3, <3>1 DEF Worker
  <2>3. CASE Restart
    <3>1. Fresh \in Worker /\ Fresh.seen = NothingSeen /\ Fresh.at = "idle" /\ Fresh.todo = {}
      BY <1>3 DEF Fresh, Worker
    <3> QED
      BY <2>3, <3>1 DEF Restart
  <2> QED
    BY <2>1, <2>2, <2>3
<1>5. worker'.todo \subseteq DOMAIN predictions
  BY <1>4 DEF LearnInv, BatchExists
<1> QED
  BY <1>1, <1>2, <1>4, <1>5, WorkerRests

\* The inductive invariant of the learning holds in every state.
THEOREM LearningInvariant == Spec => []LearnInv
<1>1. Init => LearnInv
  <2> SUFFICES ASSUME Init PROVE LearnInv
    OBVIOUS
  <2>1. /\ phase = [l \in Lot |-> IF l <= History THEN Complete ELSE Absent]
        /\ outcomes = [l \in Lot |-> IF l <= History THEN Wafers ELSE 0]
        /\ registry = {} /\ predictions = <<>> /\ feedback = <<>> /\ worker = Fresh /\ failures = 0
    BY DEF Init
  <2>2. phase \in [Lot -> Phase] /\ outcomes \in Outcomes
    BY <2>1, LearningConstants, Phases DEF Outcomes
  <2>3. Fresh \in Worker /\ Fresh.seen = [l \in Lot |-> 0] /\ Fresh.at = "idle" /\ Fresh.todo = {}
    <3>1. NothingSeen \in [Lot -> Phase] /\ NothingSeen = [l \in Lot |-> 0] /\ 0 \in 0..Len(Models) /\ "idle" \in At
      BY Phases, LearningConstants DEF NothingSeen, At
    <3> QED
      BY <3>1 DEF Fresh, Worker
  <2>4. TypeOK
    BY <2>1, <2>2, <2>3, LearningConstants DEF TypeOK
  <2>5. OneChampion
    BY <2>1 DEF OneChampion, Champions
  <2>6. OutcomesAreSeen
    <3>1. \A l \in Lot : phase[l] \in Nat /\ outcomes[l] > 0 => phase[l] = Complete
      BY <2>1, <2>2, Phases
    <3>2. \A l \in Lot : phase[l] \in Nat
      BY <2>2, Phases
    <3> QED
      BY <2>1, <2>3, <3>1, <3>2, Phases, LearningConstants DEF OutcomesAreSeen
  <2>7. DataIsOld /\ BatchExists
    BY <2>1, <2>3 DEF DataIsOld, BatchExists
  <2> QED
    BY <2>4, <2>5, <2>6, <2>7 DEF LearnInv
<1>2. LearnInv /\ [Next]_vars => LearnInv'
  <2> SUFFICES ASSUME LearnInv, [Next]_vars PROVE LearnInv'
    OBVIOUS
  <2>1. CASE UNCHANGED vars
    <3>1. UNCHANGED <<phase, outcomes, registry, predictions, feedback, worker, failures>>
      BY <2>1 DEF vars
    <3>2. TypeOK' /\ OneChampion'
      BY <3>1 DEF LearnInv, TypeOK, OneChampion, Champions
    <3>3. OutcomesAreSeen' /\ DataIsOld' /\ BatchExists'
      BY <3>1 DEF LearnInv, OutcomesAreSeen, DataIsOld, BatchExists
    <3> QED
      BY <3>2, <3>3 DEF LearnInv
  <2>2. CASE \E l \in Lot : StartLot(l) \/ InspectWafer(l)
    BY <2>2, ProducerKeeps
  <2>3. CASE WorkerStep
    BY <2>3, ReadSnapshotsKeeps, UpsertKeeps, ReadUnevaluatedKeeps, JudgeKeeps, TrainingFrameKeeps,
       TrainKeeps, PredictKeeps, EndsKeep DEF WorkerStep
  <2>4. CASE CycleFails \/ Restart
    BY <2>4, EndsKeep
  <2> QED
    BY <2>1, <2>2, <2>3, <2>4 DEF Next
<1> QED
  BY <1>1, <1>2, PTL DEF Spec

\* The log, the outcomes, the registry, the predictions and the worker have their types.
THEOREM LearningTypeCorrect == Spec => []TypeOK
<1>1. LearnInv => TypeOK
  BY DEF LearnInv
<1> QED
  BY <1>1, LearningInvariant, PTL

\* A model never has two champions, whatever versions are registered again
\* (repository.py:478-512).
THEOREM ChampionIsUnique == Spec => []OneChampion
<1>1. LearnInv => OneChampion
  BY DEF LearnInv
<1> QED
  BY <1>1, LearningInvariant, PTL

-----------------------------------------------------------------------------
(* The windows of a dataset.                                                 *)

\* The smaller of two integers is at most the second.
LEMMA MinOfTwo ==
    ASSUME NEW a \in Int, NEW b \in Int
    PROVE  Min({a, b}) \in Int /\ Min({a, b}) <= b
<1>1. \E x \in {a, b} : \A y \in {a, b} : x =< y
  <2>1. CASE a <= b
    BY <2>1
  <2>2. CASE b <= a
    BY <2>2
  <2> QED
    BY <2>1, <2>2
<1> QED
  BY <1>1 DEF Min

LEMMA MaxOfTwo ==
    ASSUME NEW a \in Int, NEW b \in Int
    PROVE  Max({a, b}) \in Int
<1>1. \E x \in {a, b} : \A y \in {a, b} : x >= y
  <2>1. CASE a <= b
    BY <2>1
  <2>2. CASE b <= a
    BY <2>2
  <2> QED
    BY <2>1, <2>2
<1> QED
  BY <1>1 DEF Max

\* The shadow window is left with two rows or more.
LEMMA CalibrationEndsBefore ==
    ASSUME NEW n \in Nat
    PROVE  CalibrationEnd(n) \in Int /\ CalibrationEnd(n) <= n - 2
<1>1. (6 * n) \div 10 \in Int /\ (8 * n) \div 10 \in Int
  OBVIOUS
<1>2. TrainEnd(n) \in Int
  BY <1>1, MaxOfTwo DEF TrainEnd
<1> DEFINE larger == Max({TrainEnd(n) + 2, (8 * n) \div 10})
<1>3. larger \in Int
  <2>1. TrainEnd(n) + 2 \in Int
    BY <1>2
  <2> QED
    BY <1>1, <2>1, MaxOfTwo
<1> HIDE DEF larger
<1>4. n - 2 \in Int
  OBVIOUS
<1>5. Min({larger, n - 2}) \in Int /\ Min({larger, n - 2}) <= n - 2
  BY <1>3, <1>4, MinOfTwo
<1> QED
  BY <1>5 DEF CalibrationEnd, larger

\* Where the lots up to r are two fewer than all, two later ones are among them.
LEMMA TwoLater ==
    ASSUME NEW S \in SUBSET Lot, NEW r \in Nat, Rank(r, S) <= Cardinality(S) - 2
    PROVE  \E y, z \in S : r < y /\ y < z
<1> DEFINE below == {x \in S : x <= r}
           above == {x \in S : r < x}
<1>1. S \subseteq Nat /\ IsFiniteSet(S)
  <2>1. IsFiniteSet(Lot) /\ Lot \subseteq Nat
    BY LotsAreFinite
  <2> QED
    BY <2>1, FS_Subset
<1>2. IsFiniteSet(below) /\ IsFiniteSet(above)
  BY <1>1, FS_Subset
<1>3. S = below \cup above /\ below \cap above = {}
  <2>1. \A x \in S : x \in Nat
    BY <1>1
  <2>2. \A x \in S : (x <= r \/ r < x) /\ ~(x <= r /\ r < x)
    BY <2>1
  <2> QED
    BY <2>2
<1>4. Cardinality(S) = Cardinality(below) + Cardinality(above) - Cardinality({})
  BY <1>2, <1>3, FS_Union
<1>5. Cardinality(above) \in Nat /\ Cardinality(below) \in Nat /\ Cardinality({}) = 0
  BY <1>2, FS_CardinalityType, FS_EmptySet
<1>6. Cardinality(above) >= 2
  <2>1. Rank(r, S) = Cardinality(below)
    BY DEF Rank
  <2> QED
    BY <1>4, <1>5, <2>1
<1>7. PICK y \in above : TRUE
  <2>1. above # {}
    BY <1>5, <1>6
  <2> QED
    BY <2>1
<1>8. PICK z \in above : z # y
  <2>1. Cardinality(above \ {y}) = Cardinality(above) - 1
    BY <1>2, <1>7, FS_RemoveElement
  <2>2. above \ {y} # {}
    BY <1>5, <1>6, <2>1
  <2> QED
    BY <2>2
<1>9. y \in S /\ z \in S /\ r < y /\ r < z /\ (y < z \/ z < y)
  BY <1>1, <1>7, <1>8
<1> QED
  BY <1>9

\* The lots of a dataset, and the targets of its rows, are known.
LEMMA RowsAreKnown ==
    ASSUME NEW m, NEW outs, NEW r \in Dataset(m, outs)
    PROVE  /\ LotsOf(Dataset(m, outs)) \subseteq Known(outs)
           /\ r.lot \in Known(outs)
           /\ r.target = r.lot \/ r.target \in NextKnown(r.lot, outs)
<1>1. \A q \in Dataset(m, outs) :
         \E l \in Known(outs) : q.lot = l /\ (q.target = l \/ q.target \in NextKnown(l, outs))
  <2> TAKE q \in Dataset(m, outs)
  <2>1. PICK p \in Pairs(m, outs) :
           q = [lot |-> p[1], seen |-> outs[p[1]], target |-> p[2], targetSeen |-> outs[p[2]]]
    BY DEF Dataset
  <2>2. PICK l \in Known(outs) :
           p \in {<<l, n>> : n \in IF m \in NextLotModels THEN NextKnown(l, outs) ELSE {l}}
    BY DEF Pairs
  <2>3. PICK n \in IF m \in NextLotModels THEN NextKnown(l, outs) ELSE {l} : p = <<l, n>>
    BY <2>2
  <2>4. q.lot = l /\ q.target = n
    BY <2>1, <2>3
  <2>5. n = l \/ n \in NextKnown(l, outs)
    BY <2>3
  <2> QED
    BY <2>4, <2>5
<1>2. LotsOf(Dataset(m, outs)) \subseteq Known(outs)
  BY <1>1 DEF LotsOf
<1> QED
  BY <1>1, <1>2

\* A row a version was fitted on is of a lot before the last of its data, and so
\* is the row's target.
LEMMA FittedIsBefore ==
    ASSUME NEW m, NEW outs, NEW last \in Nat, \A l \in Lot : outs[l] > 0 => l <= last,
           outs \in Outcomes, NEW r \in Fitted(m, outs)
    PROVE  r.lot < last /\ r.target < last
<1> DEFINE data == Dataset(m, outs)
           lots == LotsOf(data)
<1>1. r \in data /\ Rank(r.lot, lots) <= CalibrationEnd(Cardinality(lots))
  BY DEF Fitted
<1>2. /\ lots \subseteq Known(outs) /\ r.lot \in Known(outs)
      /\ r.target = r.lot \/ r.target \in NextKnown(r.lot, outs)
  BY <1>1, RowsAreKnown
<1>3. Known(outs) \in SUBSET Lot /\ Lot \subseteq Nat /\ IsFiniteSet(Known(outs))
  BY KnownIsFinite, LearningConstants DEF Lot
<1> HIDE DEF lots, data
<1>4. IsFiniteSet(lots) /\ Cardinality(lots) \in Nat
  <2>1. IsFiniteSet(lots)
    BY <1>2, <1>3, FS_Subset
  <2> QED
    BY <2>1, FS_CardinalityType
<1>5. r.lot \in Nat /\ lots \in SUBSET Lot
  BY <1>2, <1>3
<1>6. Rank(r.lot, lots) <= Cardinality(lots) - 2
  <2>1. CalibrationEnd(Cardinality(lots)) \in Int /\ CalibrationEnd(Cardinality(lots)) <= Cardinality(lots) - 2
    BY <1>4, CalibrationEndsBefore
  <2>2. Rank(r.lot, lots) \in Nat
    <3>1. IsFiniteSet({x \in lots : x <= r.lot})
      BY <1>4, FS_Subset
    <3> QED
      BY <3>1, FS_CardinalityType DEF Rank
  <2> QED
    BY <1>1, <1>4, <2>1, <2>2
<1>7. PICK y \in lots, z \in lots : r.lot < y /\ y < z
  BY <1>5, <1>6, TwoLater
<1>8. /\ y \in Lot /\ z \in Lot /\ y \in Nat /\ z \in Nat
      /\ outs[y] > 0 /\ outs[z] > 0 /\ z <= last
  BY <1>2, <1>3 DEF Known
<1>9. CASE r.target = r.lot
  BY <1>5, <1>7, <1>8, <1>9
<1>10. CASE r.target \in NextKnown(r.lot, outs)
  <2>1. r.target \in Nat /\ \A x \in (r.lot + 1)..(r.target - 1) : outs[x] = 0
    BY <1>3, <1>10 DEF NextKnown
  <2>2. ~(y \in (r.lot + 1)..(r.target - 1))
    BY <1>8, <2>1
  <2>3. r.target <= y
    BY <1>5, <1>7, <1>8, <2>1, <2>2
  <2> QED
    BY <1>5, <1>7, <1>8, <2>1, <2>3
<1> QED
  BY <1>2, <1>9, <1>10

\* A prediction is never made by a model that was fitted or calibrated with the
\* outcome of the predicted lot (main.py:43-69, service.py:633-640, 711-719).
THEOREM PredictionsAreOutOfSample == Spec => []PredictionIsOutOfSample
<1>1. LearnInv => PredictionIsOutOfSample
  <2> SUFFICES ASSUME LearnInv, NEW i \in DOMAIN predictions,
                      NEW r \in Fitted(predictions[i].model, predictions[i].data)
               PROVE  r.lot < predictions[i].lot /\ r.target < predictions[i].lot
    BY DEF PredictionIsOutOfSample
  <2>1. predictions[i] \in Prediction
    BY DEF LearnInv, TypeOK
  <2>2. predictions[i].lot \in Nat /\ predictions[i].data \in Outcomes
    BY <2>1, LearningConstants DEF Prediction, Lot
  <2>3. \A l \in Lot : predictions[i].data[l] > 0 => l <= predictions[i].lot
    BY DEF LearnInv, DataIsOld
  <2> QED
    BY <2>2, <2>3, FittedIsBefore
<1> QED
  BY <1>1, LearningInvariant, PTL
=============================================================================
