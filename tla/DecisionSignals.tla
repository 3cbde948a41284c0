-------------------------- MODULE DecisionSignals --------------------------
(* What the operator is told of a case from its predictions: the signal and   *)
(* urgency of decision.py, computed anew for every request, and the plan of   *)
(* planner.py, which is stored under the material signature and only made     *)
(* anew when the signature is another. Between the two stand thresholds of    *)
(* both files and the rounding of the signature. A local model may replace    *)
(* the plan's question, and its report keeps what it was asked of.            *)
(* Scores are in hundredths.                                                 *)
EXTENDS Integers, FiniteSets, FiniteSetsExt

CONSTANTS
    ForecastYields, Excursions, Alarms, Maintenances   \* scores predicted of each target

ASSUME SignalsAssumption ==
    \A S \in {ForecastYields, Excursions, Alarms, Maintenances} : S \subseteq 0..100

None == -1

\* final_yield, final_excursion_probability and the two next_lot_ targets; None is a
\* target that is not predicted.
Prediction ==
    [yield: ForecastYields \cup {None}, excursion: Excursions \cup {None},
     alarm: Alarms \cup {None}, maintenance: Maintenances \cup {None}]

CaseKind == {"physical_excursion", "sensor_bias_suspected", "data_quality_incident"}

VARIABLES
    kind,           \* the case's classification
    spread,         \* whether it spans several chambers
    scores,         \* latest_predictions_for_lots
    planned,        \* the plan stored last
    asked,          \* the job queued last, its request document
    told            \* the latest report

signalVars == <<kind, spread, scores, planned, asked, told>>

\* by: "rules" or "model", validated_llm_visualization_plan's planner
Question == {"delivery", "next lot", "chambers", "drift", "broad", "proposed"}
Plan == [of: Prediction, question: Question]
NoPlan == [of |-> [yield |-> None, excursion |-> None, alarm |-> None, maintenance |-> None],
           question |-> "absent"]

Trajectory == {"RISING", "FALLING", "MIXED", "STABLE"}
Told == [of: Prediction, question: Question, trajectory: Trajectory]
Untold == [of |-> NoPlan.of, question |-> "absent", trajectory |-> "STABLE"]

-----------------------------------------------------------------------------
(* material_signature, of a case whose document does not change.             *)

\* round(score, 1), of scores that are no tie but 0.55, 0.65 and 0.75, which
\* are rounded up.
Rounded(score) == IF score = None THEN None ELSE (score + 5) \div 10

Signature(p) == <<Rounded(p.yield), Rounded(p.excursion), Rounded(p.alarm), Rounded(p.maintenance)>>

-----------------------------------------------------------------------------
(* build_live_decision_intelligence: a score that is not predicted reaches no *)
(* threshold.                                                                *)
Signal(p) ==
    CASE p.alarm >= 75 -> "ESCALATE_REVIEW"
      [] p.alarm < 75 /\ p.excursion >= 70 -> "VERIFY_PHYSICAL"
      [] p.alarm < 75 /\ p.excursion < 70 /\ p.maintenance >= 65 -> "MAINTENANCE_WATCH"
      [] OTHER -> IF p.yield # None /\ p.yield < 86 THEN "YIELD_WATCH"
                  ELSE IF kind = "data_quality_incident" THEN "VERIFY_DATA" ELSE "MONITOR"

Urgency(p) ==
    CASE Signal(p) \in {"ESCALATE_REVIEW", "VERIFY_PHYSICAL"} -> "HIGH"
      [] Signal(p) = "MONITOR" -> "NORMAL"
      [] OTHER -> "WATCH"

-----------------------------------------------------------------------------
(* visualization_plan.                                                       *)

\* Mutant: the plan turns to the next lot where the trigger is met.
PlanQuestionLate(p) ==
    IF kind = "data_quality_incident" THEN "delivery"
    ELSE IF p.maintenance >= 65 \/ p.alarm >= 80 THEN "next lot"
    ELSE IF spread THEN "chambers"
    ELSE IF p.excursion >= 55 \/ kind = "sensor_bias_suspected" THEN "drift"
    ELSE "broad"

PlanQuestion(p) ==
    IF kind = "data_quality_incident" THEN "delivery"
    ELSE IF p.maintenance >= 65 \/ p.alarm >= 72 THEN "next lot"
    ELSE IF spread THEN "chambers"
    ELSE IF p.excursion >= 55 \/ kind = "sensor_bias_suspected" THEN "drift"
    ELSE "broad"

\* validated_llm_visualization_plan: a proposal with renderers and texts that are
\* allowed replaces the question.
Proposal == {"none", "invalid renderer", "invalid text", "valid"}
Validated(question, proposal) == IF proposal = "valid" THEN "proposed" ELSE question

-----------------------------------------------------------------------------
(* build_situation_assessment.                                               *)
Targets == {"yield", "excursion", "alarm", "maintenance"}

\* Targets whose score is known before and after and differs by more than a
\* hundredth.
Moved(p, q, up) ==
    {t \in Targets : None \notin {p[t], q[t]} /\ IF up THEN q[t] - p[t] > 1 ELSE p[t] - q[t] > 1}

RiskTrajectory(p, q) ==
    CASE Moved(p, q, TRUE) # {} /\ Moved(p, q, FALSE) = {} -> "RISING"
      [] Moved(p, q, TRUE) = {} /\ Moved(p, q, FALSE) # {} -> "FALLING"
      [] Moved(p, q, TRUE) # {} /\ Moved(p, q, FALSE) # {} -> "MIXED"
      [] OTHER -> "STABLE"

-----------------------------------------------------------------------------
Idle == [of |-> NoPlan.of, question |-> "absent", before |-> NoPlan.of]

SignalsInit ==
    /\ kind \in CaseKind /\ spread \in BOOLEAN
    /\ scores = NoPlan.of
    /\ planned = NoPlan /\ asked = Idle /\ told = Untold

\* The worker predicts a target of the case's lot, for the first time or anew.
Predict ==
    /\ \E p \in Prediction :
        /\ Cardinality({t \in Targets : p[t] # scores[t]}) = 1
        /\ \A t \in Targets : p[t] = None => scores[t] = None
        /\ scores' = p
    /\ UNCHANGED <<kind, spread, planned, asked, told>>

\* A review: another signature than the last makes a plan and asks for an
\* assessment, with the report there is by now.
Review ==
    /\ planned = NoPlan \/ Signature(scores) # Signature(planned.of)
    /\ planned' = [of |-> scores, question |-> PlanQuestion(scores)]
    /\ asked' = [of |-> scores, question |-> PlanQuestion(scores), before |-> told.of]
    /\ UNCHANGED <<kind, spread, scores, told>>

\* persist_completed_inference: a plan that was accepted is stored, over the one of
\* its signature.
Answer(proposal) ==
    LET question == Validated(asked.question, proposal)
    IN  /\ asked # Idle
        /\ told' = [of |-> asked.of, question |-> question,
                    trajectory |-> RiskTrajectory(asked.before, asked.of)]
        /\ planned' = IF question = "proposed" /\ planned.of = asked.of
                      THEN [planned EXCEPT !.question = question] ELSE planned
        /\ asked' = Idle
        /\ UNCHANGED <<kind, spread, scores>>

SignalsNext == Predict \/ Review \/ \E proposal \in Proposal : Answer(proposal)

-----------------------------------------------------------------------------
SignalsTypeOK ==
    /\ kind \in CaseKind /\ spread \in BOOLEAN
    /\ scores \in Prediction
    /\ planned \in Plan \cup {NoPlan}
    /\ asked = Idle \/ (asked.of \in Prediction /\ asked.before \in Prediction
                        /\ asked.question \in Question)
    /\ told \in Told \cup {Untold}

\* While the signature says that nothing material changed since a plan was made or an
\* assessment was asked for, an urgent case, or one whose equipment is to be
\* watched, is not shown a plan that sees no single failure mode: the thresholds of
\* decision.py, those of planner.py and the buckets of the signature have to fit,
\* whatever scores the plan was made of (decision.py:86-104, planner.py:16, 37-59).
SignalIsPlanned ==
    Signal(scores) \in {"ESCALATE_REVIEW", "VERIFY_PHYSICAL", "MAINTENANCE_WATCH"} =>
        /\ planned # NoPlan /\ Signature(planned.of) = Signature(scores) => planned.question # "broad"
        /\ told # Untold /\ Signature(told.of) = Signature(scores) => told.question # "broad"
=============================================================================
