------------------------- MODULE ContinuousLearning -------------------------
(* services/intelligence/service.py and the learning half of the loop in     *)
(* systems/intelligence_worker/main.py: lots become outcomes, outcomes train *)
(* candidates, candidates pass a gate and become champions, champions        *)
(* predict the latest lot, and outcomes judge the predictions. Every write   *)
(* is a transaction of its own, and the log grows between any two of them.   *)
(* What a model computes is abstract: it is determined by the outcomes it    *)
(* was trained on, so those stand for its parameters and its version.        *)
EXTENDS Integers, Sequences, SequencesExt, FiniteSets

CONSTANTS
    Lots,           \* lots of the log, which the live producer makes in order
    Wafers,         \* wafers of a lot; each is inspected on its own
    History,        \* lots complete and learned when the model begins
    Models,         \* REQUIRED_MODELS, in the order retrain trains them
    NextLotModels,  \* those that predict the lot after the one they look at
    MinimumRows,    \* minimum_rows, 12
    RetrainEvery,   \* FABOPS_RETRAIN_EVERY_OUTCOMES
    DriftRows,      \* outcomes drift_status needs, 24
    FeedbackLimit,  \* LIMIT of unevaluated_predictions, 200
    MaxFailures     \* bound: exceptions and restarts of the worker

ASSUME LearningAssumption ==
    /\ {Lots, History, RetrainEvery, DriftRows, MaxFailures} \subseteq Nat
    /\ {Wafers, FeedbackLimit} \subseteq Nat \ {0}
    /\ MinimumRows \in Nat /\ MinimumRows >= 12
    /\ History <= Lots
    /\ Models \in Seq(STRING) /\ NextLotModels \subseteq STRING

Lot == 1..Lots
Model == {Models[i] : i \in DOMAIN Models}

VARIABLES
    phase,          \* phase[l]: what the log holds of lot l
    outcomes,       \* outcomes[l]: inspections in the stored outcome of l, 0 for none
    registry,       \* rows of fabops_model_registry
    predictions,    \* fabops_predictions, in the order of their ids
    feedback,       \* feedback[i]: the lot and inspections prediction i was judged by
    worker,         \* the loop of the worker and its memory
    failures        \* exceptions and restarts so far

vars == <<phase, outcomes, registry, predictions, feedback, worker, failures>>

\* A lot passes the prediction cutoff (POST_CMP) and then has each of its wafers
\* inspected. Before the cutoff it has no snapshot and counts as absent.
Absent == 0
PastCutoff == 1
Complete == PastCutoff + Wafers
Phase == Absent..Complete

-----------------------------------------------------------------------------
(* Rows, windows and versions.                                               *)

\* A training row: a lot's features, and the lot whose outcome is its target,
\* each with the inspections its outcome was made of.
Row == [lot: Lot, seen: 1..Wafers, target: Lot, targetSeen: 1..Wafers]

\* Stored outcomes: how many inspections of a lot each was made of.
Outcomes == [Lot -> 0..Wafers]

Known(outs) == {l \in Lot : outs[l] > 0}

\* outcomes[1:] beside outcomes[:-1]: the lot of the next known outcome, if any.
NextKnown(l, outs) == {n \in Known(outs) : l < n /\ \A x \in (l + 1)..(n - 1) : outs[x] = 0}

\* The rows retrain builds for model m.
Pairs(m, outs) ==
    UNION {{<<l, n>> : n \in IF m \in NextLotModels THEN NextKnown(l, outs) ELSE {l}} :
            l \in Known(outs)}

Dataset(m, outs) ==
    {[lot |-> p[1], seen |-> outs[p[1]], target |-> p[2], targetSeen |-> outs[p[2]]] :
        p \in Pairs(m, outs)}

LotsOf(data) == {r.lot : r \in data}

\* _temporal_split: where the training and the calibration windows end.
TrainEnd(n) == Max({8, (6 * n) \div 10})

CalibrationEnd(n) == Min({Max({TrainEnd(n) + 2, (8 * n) \div 10}), n - 2})

Rank(l, S) == Cardinality({x \in S : x <= l})

\* Mutant: the model is fitted once more, on every row, before it is stored.
FittedAgain(m, outs) == Dataset(m, outs)

\* The rows a model is fitted on, or its temperature, interval and algorithm are
\* chosen by: those before the shadow window.
Fitted(m, outs) ==
    LET data == Dataset(m, outs)
        lots == LotsOf(data)
        end == CalibrationEnd(Cardinality(lots))
    IN  {r \in data : Rank(r.lot, lots) <= end}

-----------------------------------------------------------------------------
(* The registry.                                                             *)

\* data: the outcomes the version was trained on, which stand for its fingerprint. A
\* model of the next lot leaves some of them unused, such as the first lot's: two
\* versions that differ in these alone are one version of the code.
RegistryRow == [model: Model, data: Outcomes, status: {"champion", "retired", "rejected"}]

Champions(m) == {x \in registry : x.model = m /\ x.status = "champion"}
HasChampion(m) == Champions(m) # {}

\* Mutant: the champion before is not retired.
RegisterKeeping(m, data, status) ==
    {x \in registry : ~(x.model = m /\ x.data = data)}
        \cup {[model |-> m, data |-> data, status |-> status]}

\* register_model: a champion retires the one before it, and the row of the
\* version is inserted or, when there is one, overwritten with its status.
Register(m, data, status) ==
    {IF status = "champion" /\ x.model = m /\ x.status = "champion"
     THEN [x EXCEPT !.status = "retired"] ELSE x :
        x \in {y \in registry : ~(y.model = m /\ y.data = data)}}
        \cup {[model |-> m, data |-> data, status |-> status]}

\* _promotion_gate: the first candidate needs no comparison. A candidate with the
\* champion's data has its parameters, so its quality on the shadow window is the
\* same and never better by the minimum; what else beats whom is data.
Beats(m, data) ==
    IF ~HasChampion(m) THEN {TRUE}
    ELSE IF \E x \in Champions(m) : x.data = data THEN {FALSE}
    ELSE BOOLEAN

-----------------------------------------------------------------------------
(* Predictions and their feedback.                                           *)

Prediction == [lot: Lot, model: Model, data: Outcomes]

\* What a prediction is judged by; a next-lot target by the next known outcome.
Judges(p) ==
    IF outcomes[p.lot] = 0 THEN {}
    ELSE IF p.model \in NextLotModels
         THEN {[lot |-> n, seen |-> outcomes[n]] : n \in NextKnown(p.lot, outcomes)}
         ELSE {[lot |-> p.lot, seen |-> outcomes[p.lot]]}

NoFeedback == [lot |-> 0, seen |-> 0]

Unevaluated == {i \in DOMAIN predictions : feedback[i] = NoFeedback}
EvaluatedBefore(i) == Cardinality({j \in Unevaluated : j < i})

\* Mutant: the limit counts predictions that have their feedback.
BatchOfOldest == {i \in Unevaluated : i <= FeedbackLimit}

\* unevaluated_predictions: the oldest without feedback, up to the limit.
Batch == {i \in Unevaluated : EvaluatedBefore(i) < FeedbackLimit}

-----------------------------------------------------------------------------
At == {"idle", "outcomes", "feedback", "training", "predicting"}

\* seen: the phases the snapshots were built from; todo: predictions still to be
\* judged in this cycle; trained: models done; keys: prediction_keys; rows:
\* last_training_rows.
Worker == [at: At, seen: [Lot -> Phase], todo: SUBSET Nat, trained: 0..Len(Models),
           keys: SUBSET Prediction, rows: Nat]

NothingSeen == [l \in Lot |-> Absent]

Fresh == [at |-> "idle", seen |-> NothingSeen, todo |-> {}, trained |-> 0, keys |-> {}, rows |-> 0]

Init ==
    /\ phase = [l \in Lot |-> IF l <= History THEN Complete ELSE Absent]
    /\ outcomes = [l \in Lot |-> IF l <= History THEN Wafers ELSE 0]
    /\ registry = {}
    /\ predictions = <<>>
    /\ feedback = <<>>
    /\ worker = Fresh
    /\ failures = 0

-----------------------------------------------------------------------------
(* The live producer. It finishes a lot before it starts the next, but a     *)
(* producer that restarts begins with the lot after the last in the log.     *)
StartLot(l) ==
    /\ phase[l] = Absent
    /\ \A x \in Lot : x < l => phase[x] # Absent
    /\ phase' = [phase EXCEPT ![l] = PastCutoff]
    /\ UNCHANGED <<outcomes, registry, predictions, feedback, worker, failures>>

InspectWafer(l) ==
    /\ phase[l] \in PastCutoff..(Complete - 1)
    /\ \A x \in Lot : l < x => phase[x] = Absent
    /\ phase' = [phase EXCEPT ![l] = @ + 1]
    /\ UNCHANGED <<outcomes, registry, predictions, feedback, worker, failures>>

-----------------------------------------------------------------------------
(* One cycle of the worker.                                                  *)
To(at) == worker' = [worker EXCEPT !.at = at]

\* lot_snapshots: the features of the lots that have passed the cutoff, and what
\* of their inspections is there. Lots outside the recent ones and not waiting
\* to be learned are left out by the code; they would change nothing here.
ReadSnapshots ==
    /\ worker.at = "idle"
    /\ worker' = [worker EXCEPT !.at = "outcomes", !.seen = phase]
    /\ UNCHANGED <<phase, outcomes, registry, predictions, feedback, failures>>

\* The lots with an inspection whose stored outcome is not what was seen.
Changed == {l \in Lot : worker.seen[l] > PastCutoff /\ outcomes[l] # worker.seen[l] - PastCutoff}

UpsertOutcome(l) ==
    /\ worker.at = "outcomes"
    /\ l \in Changed /\ \A x \in Changed : l <= x
    /\ outcomes' = [outcomes EXCEPT ![l] = worker.seen[l] - PastCutoff]
    /\ UNCHANGED <<phase, registry, predictions, feedback, worker, failures>>

ReadUnevaluated ==
    /\ worker.at = "outcomes" /\ Changed = {}
    /\ worker' = [worker EXCEPT !.at = "feedback", !.todo = Batch]
    /\ UNCHANGED <<phase, outcomes, registry, predictions, feedback, failures>>

\* One prediction of the batch: judged, or passed over.
Judge(i) ==
    /\ worker.at = "feedback"
    /\ i \in worker.todo /\ \A j \in worker.todo : i <= j
    /\ worker' = [worker EXCEPT !.todo = @ \ {i}]
    /\ IF Judges(predictions[i]) = {} THEN UNCHANGED feedback
       ELSE \E actual \in Judges(predictions[i]) : feedback' = [feedback EXCEPT ![i] = actual]
    /\ UNCHANGED <<phase, outcomes, registry, predictions, failures>>

Missing == \E m \in Model : ~HasChampion(m)

\* training_rows of a champion.
ChampionRows == {Cardinality(Dataset(x.model, x.data)) : x \in UNION {Champions(m) : m \in Model}}

\* The cadence: outcomes since the last training of this process and since the
\* largest champion's.
Due(count) == \A n \in ChampionRows \cup {worker.rows} : count - n >= RetrainEvery

ShouldTrain(drift) ==
    LET count == Cardinality(Known(outcomes))
    IN  count >= 12 /\ (Missing \/ Due(count) \/ drift)

\* drift_status compares the last outcomes with those before: whether they
\* drifted is data, and may stay so from cycle to cycle.
DecideTraining ==
    /\ worker.at = "feedback" /\ worker.todo = {}
    /\ \E drift \in BOOLEAN :
          /\ drift => Cardinality(Known(outcomes)) >= DriftRows
          /\ IF ShouldTrain(drift) /\ Cardinality(Known(outcomes)) >= MinimumRows
             THEN worker' = [worker EXCEPT !.at = "training", !.trained = 0]
             ELSE To("predicting")
    /\ UNCHANGED <<phase, outcomes, registry, predictions, feedback, failures>>

\* One model of retrain; one with too few rows is passed over.
Train ==
    LET m == Models[worker.trained + 1]
    IN  /\ worker.at = "training" /\ worker.trained < Len(Models)
        /\ IF Cardinality(Dataset(m, outcomes)) < MinimumRows THEN UNCHANGED registry
           ELSE \E beats \in Beats(m, outcomes) :
                   registry' = Register(m, outcomes, IF beats THEN "champion" ELSE "rejected")
        /\ worker' = [worker EXCEPT !.trained = @ + 1]
        /\ UNCHANGED <<phase, outcomes, predictions, feedback, failures>>

EndTraining ==
    /\ worker.at = "training" /\ worker.trained = Len(Models)
    /\ worker' = [worker EXCEPT !.at = "predicting", !.trained = 0,
                                !.rows = Cardinality(Known(outcomes))]
    /\ UNCHANGED <<phase, outcomes, registry, predictions, feedback, failures>>

\* snapshots[-1]
IsLatest(l) == /\ worker.seen[l] >= PastCutoff
               /\ \A x \in Lot : l < x => worker.seen[x] < PastCutoff

\* predict_snapshot for the latest lot: a prediction of each champion.
Unpredicted(l) ==
    {[lot |-> l, model |-> x.model, data |-> x.data] : x \in UNION {Champions(m) : m \in Model}}
        \ worker.keys

\* append_prediction, and only then its key: each champion's in turn.
Predict(l) ==
    /\ worker.at = "predicting"
    /\ IsLatest(l)
    /\ \E p \in Unpredicted(l) :
          /\ \A q \in Unpredicted(l) :
                \E i, j \in DOMAIN Models : Models[i] = p.model /\ Models[j] = q.model /\ i <= j
          /\ predictions' = Append(predictions, p)
          /\ worker' = [worker EXCEPT !.keys = @ \cup {p}]
    /\ feedback' = Append(feedback, NoFeedback)
    /\ UNCHANGED <<phase, outcomes, registry, failures>>

EndCycle ==
    /\ worker.at = "predicting"
    /\ \A l \in Lot : IsLatest(l) => Unpredicted(l) = {}
    /\ worker' = [worker EXCEPT !.at = "idle", !.seen = NothingSeen]
    /\ UNCHANGED <<phase, outcomes, registry, predictions, feedback, failures>>

-----------------------------------------------------------------------------
\* An exception ends the cycle and keeps the memory; a restart loses it.
CycleFails ==
    /\ worker.at # "idle" /\ failures < MaxFailures
    /\ failures' = failures + 1
    /\ worker' = [worker EXCEPT !.at = "idle", !.seen = NothingSeen, !.todo = {}, !.trained = 0]
    /\ UNCHANGED <<phase, outcomes, registry, predictions, feedback>>

Restart ==
    /\ failures < MaxFailures
    /\ failures' = failures + 1
    /\ worker' = Fresh
    /\ UNCHANGED <<phase, outcomes, registry, predictions, feedback>>

WorkerStep ==
    \/ ReadSnapshots
    \/ \E l \in Lot : UpsertOutcome(l)
    \/ ReadUnevaluated
    \/ \E i \in worker.todo : Judge(i)
    \/ DecideTraining \/ Train \/ EndTraining
    \/ \E l \in Lot : Predict(l)
    \/ EndCycle

Next ==
    \/ \E l \in Lot : StartLot(l) \/ InspectWafer(l)
    \/ WorkerStep
    \/ CycleFails \/ Restart

Spec == Init /\ [][Next]_vars

\* The loop goes on, whatever a cycle ends with.
FairSpec == Spec /\ WF_vars(WorkerStep)

-----------------------------------------------------------------------------
TypeOK ==
    /\ phase \in [Lot -> Phase]
    /\ outcomes \in Outcomes
    /\ registry \subseteq RegistryRow
    /\ predictions \in Seq(Prediction)
    /\ feedback \in Seq([lot: 0..Lots, seen: 0..Wafers])
    /\ Len(feedback) = Len(predictions)
    /\ worker \in Worker
    /\ failures \in 0..MaxFailures

\* A model has one champion at most, whatever candidates are registered again
\* under a version that was champion, retired or rejected before
\* (repository.py:478-512, migrations/003_continuous_intelligence.sql:16-18).
OneChampion == \A m \in Model : \A x, y \in Champions(m) : x = y

\* No prediction is made by a model that was fitted or calibrated with the
\* outcome of the predicted lot, neither as a row of that lot nor as the target
\* of the lot before it, although the worker learns the latest lots' outcomes
\* before it predicts them (main.py:43-69, service.py:633-640, 711-719).
PredictionIsOutOfSample ==
    \A i \in DOMAIN predictions : \A r \in Fitted(predictions[i].model, predictions[i].data) :
        r.lot < predictions[i].lot /\ r.target < predictions[i].lot

\* Once a model has been registered, a new champion replaces a champion it was
\* compared with: "Promotion therefore re-scores the incumbent parameters on the
\* current candidate shadow window" (service.py:588). The code breaks it: a
\* candidate trained on the champion's own rows has its version, is rejected and
\* takes the champion's row along.
PromotionIsGuarded ==
    [][\A m \in Model :
         (\E x \in registry : x.model = m) /\ Champions(m)' \ Champions(m) # {} => HasChampion(m)]_vars

\* Again and again every prediction that an outcome can judge has been judged,
\* except where as many older ones as the worker reads at once cannot be: lots
\* that are never inspected keep theirs in front (main.py:45,
\* repository.py:598-611).
Stuck(i) == Cardinality({j \in Unevaluated : j < i /\ Judges(predictions[j]) = {}}) >= FeedbackLimit

AllJudged == \A i \in Unevaluated : Judges(predictions[i]) # {} => Stuck(i)

FeedbackArrives == []<>AllJudged
=============================================================================
