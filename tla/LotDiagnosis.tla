---------------------------- MODULE LotDiagnosis ----------------------------
(* What a lot's events say in the end: simulator/fabtwin.py emits them with  *)
(* one of its faults, services/detection/service.py makes cases of them,     *)
(* services/rca/ranking.py ranks the causes it finds in the projected graph, *)
(* and services/decision/service.py recommends an option. The detector and   *)
(* the projection read the log on their own, so cases and graph are of       *)
(* different moments. Scores are in hundredths; yields are above or below    *)
(* the threshold by as much as they differ.                                  *)
EXTENDS Integers, Sequences, FiniteSets, FiniteSetsExt

CONSTANTS
    Wafers,         \* wafers of the lot, inspected one after the other
    Yields          \* yields of a wafer, as differences from the threshold

ASSUME DiagnosisAssumption ==
    /\ Wafers \in Nat \ {0}
    /\ Yields \subseteq Int

Wafer == 1..Wafers

\* fault-F1 to fault-F6 of _fault_truth, or a nominal lot.
Fault == {"F1", "F2", "F3", "F4", "F5", "F6", "none"}
Physical == {"F1", "F2", "F3", "F4"}
Alarmed == {"F1", "F2", "F5"}

Classification == {"physical_excursion", "sensor_bias_suspected", "data_quality_incident"}

VARIABLES
    lot,            \* what the simulator drew: fault, yields, deviation, maintained
    consumed,       \* events of the lot the detector has consumed
    projected,      \* events of the lot in the graph
    cases           \* the lot's case of each classification

diagnosisVars == <<lot, consumed, projected, cases>>

\* deviation: the measurement is beyond the control limits; maintained: the graph holds
\* a maintenance of the faulty chamber, an event without a lot, which an
\* incremental projection keeps and a rebuild leaves out.
LotDrawn == [fault: Fault, yields: [Wafer -> Yields], deviation: BOOLEAN, maintained: BOOLEAN]

\* Only ETCH-01-A, the chamber of F1, is ever maintained.
Drawn == {x \in LotDrawn : x.maintained => x.fault = "F1"}

Document == [mean: {"none", "low", "nominal"}, incidents: BOOLEAN]
NoCase == [mean |-> "absent", incidents |-> FALSE]

-----------------------------------------------------------------------------
(* The events of the lot, in the order they are emitted.                     *)
If(condition, event) == IF condition THEN <<event>> ELSE <<>>

Trace ==
    <<"litho", "etch", "measurement">>
        \o If(lot.fault \in Alarmed, "alarm")
        \o [w \in Wafer |-> "inspection"]
        \o If(lot.fault = "F6", "incident")

Events(n) == {Trace[i] : i \in 1..n}
Inspected(n) == Cardinality({i \in 1..n : Trace[i] = "inspection"})

DefectPattern ==
    CASE lot.fault = "F1" -> "Edge-Loc" [] lot.fault = "F2" -> "Random"
      [] lot.fault = "F3" -> "Center" [] lot.fault = "F4" -> "Scratch"
      [] OTHER -> "None"

-----------------------------------------------------------------------------
(* The detector.                                                             *)
TotalYield(yields, n) == MapThenSumSet(LAMBDA w : yields[w], 1..n)

MeanYield(n) ==
    LET total == TotalYield(lot.yields, Inspected(n))
    IN  IF Inspected(n) = 0 THEN "none" ELSE IF total < 0 THEN "low" ELSE "nominal"

\* The classification _materialize comes to after the n-th event, if any. Every
\* inspection comes after the measurements and the alarms of the lot.
Classified(n) ==
    IF Trace[n] = "incident" THEN {"data_quality_incident"}
    ELSE IF Trace[n] # "inspection" THEN {}
    ELSE IF MeanYield(n) = "low" THEN {"physical_excursion"}
    ELSE IF lot.deviation /\ lot.fault = "F5"
         THEN {"sensor_bias_suspected"} ELSE {}

DiagnosisInit ==
    /\ lot \in Drawn
    /\ consumed = 0 /\ projected = 0
    /\ cases = [c \in Classification |-> NoCase]

\* _consume of the next event.
Consume ==
    /\ consumed < Len(Trace)
    /\ consumed' = consumed + 1
    /\ cases' = [c \in Classification |->
                    IF c \in Classified(consumed')
                    THEN [mean |-> MeanYield(consumed'), incidents |-> "incident" \in Events(consumed')]
                    ELSE cases[c]]
    /\ UNCHANGED <<lot, projected>>

\* project_stored of the next event.
Project ==
    /\ projected < Len(Trace)
    /\ projected' = projected + 1
    /\ UNCHANGED <<lot, consumed, cases>>

DiagnosisNext == Consume \/ Project

-----------------------------------------------------------------------------
(* rank: the candidates for a case, from what the graph holds of the lot.    *)
Seen == Events(projected)
PatternSeen == IF "inspection" \in Seen THEN DefectPattern ELSE "unseen"

\* support: supporting records; contradicted: whether there is a contradicting one.
Candidate(type, score, support, contradicted) ==
    [type |-> type, score |-> score, support |-> support, contradicted |-> contradicted]

RecipeMismatch ==
    {Candidate("recipe_mismatch", 20 + 20 + 35 + (IF PatternSeen = "Center" THEN 15 ELSE 5), 1, FALSE) :
        x \in {"etch"} \cap Seen \cap (IF lot.fault = "F3" THEN {"etch"} ELSE {})}

IsSensorBias(c) == c = "sensor_bias_suspected" \/ lot.fault = "F5"

Maintenance == IF lot.maintained THEN 1 ELSE 0

\* The biased sensor has its measurement in the chamber among its support.
SensorSupport == 1 + Maintenance + (IF "measurement" \in Seen THEN 1 ELSE 0)

\* Mutant: the contradiction of the equipment counts for it.
AlarmBackedAdding(c) ==
    IF "alarm" \notin Seen THEN {}
    ELSE IF IsSensorBias(c)
    THEN {Candidate("sensor_calibration", 20 + 20 + 30 + 5, SensorSupport, TRUE),
          Candidate("equipment", 20 + 20 + 10 + 5 + 45, SensorSupport, TRUE)}
    ELSE {Candidate("chamber",
            20 + 20 + 30 + (IF lot.maintained THEN 15 ELSE 5)
                + (IF PatternSeen \in {"Edge-Loc", "Random"} THEN 15 ELSE 5),
            1 + Maintenance + 1, FALSE)}

AlarmBacked(c) ==
    IF "alarm" \notin Seen THEN {}
    ELSE IF IsSensorBias(c)
    THEN {Candidate("sensor_calibration", 20 + 20 + 30 + 5, SensorSupport, TRUE),
          Candidate("equipment", 20 + 20 + 10 + 5 - 45, SensorSupport, TRUE)}
    ELSE {Candidate("chamber",
            20 + 20 + 30 + (IF lot.maintained THEN 15 ELSE 5)
                + (IF PatternSeen \in {"Edge-Loc", "Random"} THEN 15 ELSE 5),
            1 + Maintenance + 1, FALSE)}

Interaction(c) ==
    {Candidate("upstream_downstream_interaction", 20 + 25 + 25 + 25, 2, TRUE) :
        x \in {1} \cap (IF /\ c = "physical_excursion" /\ lot.fault = "F4"
                           /\ {"litho", "etch"} \subseteq Seen /\ PatternSeen = "Scratch"
                        THEN {1} ELSE {})}

Unknown == Candidate("unknown", 5 + 5, 0, TRUE)

\* Mutant: a data quality incident is ranked like any case.
RankDataQualityLast(c) ==
    LET found == RecipeMismatch \cup AlarmBacked(c) \cup Interaction(c)
    IN  IF found = {} THEN {Unknown} ELSE found

Rank(c) ==
    LET found == RecipeMismatch \cup AlarmBacked(c) \cup Interaction(c)
    IN  IF c = "data_quality_incident"
        THEN {Candidate("data_quality", 25 + 25 + 25, IF "incident" \in Seen THEN 1 ELSE 0, TRUE)}
        ELSE IF found = {} THEN {Unknown} ELSE found

\* candidates[0]; no two of a lot's candidates have the same score.
TopCandidate(c) == CHOOSE x \in Rank(c) : \A y \in Rank(c) : y.score <= x.score

-----------------------------------------------------------------------------
(* The decision packet.                                                      *)
Recommended(c) ==
    CASE c = "data_quality_incident" -> "reconcile_replay"
      [] c = "sensor_bias_suspected" -> "verify_calibration"
      [] OTHER -> "confirm_evidence"

Target(c) ==
    CASE c = "data_quality_incident" -> "verify_source_data"
      [] c = "sensor_bias_suspected" -> "independent_metrology"
      [] OTHER -> "containment_review"

NoCandidate == Candidate("none", 0, 0, FALSE)

\* _decision_boundary: whether all its conditions are met. A replay's outcome is
\* never known.
AllConditionsMet(c, top) ==
    CASE c = "physical_excursion" ->
            cases[c].mean = "low" /\ top.support >= 3 /\ ~top.contradicted /\ ~cases[c].incidents
      [] c = "sensor_bias_suspected" ->
            cases[c].mean = "low" /\ top.support = 0 /\ ~cases[c].incidents
      [] OTHER -> FALSE

\* packet
RecommendedOption(c) ==
    IF AllConditionsMet(c, TopCandidate(c)) THEN Target(c) ELSE Recommended(c)

\* advise: abstains without support; a data quality incident or a sensor's bias has
\* its own next step whatever the candidate says.
NextStep(c) ==
    LET top == TopCandidate(c)
    IN  IF top.support = 0 THEN "request_more_evidence"
        ELSE IF c = "data_quality_incident" THEN "reconcile and replay"
        ELSE IF c = "sensor_bias_suspected" THEN "verify sensor calibration"
        ELSE CASE top.type = "chamber" -> "hold the implicated chamber"
               [] top.type = "upstream_downstream_interaction" -> "hold the combination"
               [] top.type = "recipe_mismatch" -> "rollback recipe"
               [] OTHER -> "verify sensor calibration"

-----------------------------------------------------------------------------
Detected == {c \in Classification : cases[c] # NoCase}

DiagnosisTypeOK ==
    /\ lot \in Drawn
    /\ consumed \in 0..Len(Trace) /\ projected \in 0..Len(Trace)
    /\ cases \in [Classification -> Document \cup {NoCase}]

\* A containment review is recommended, or a hold advised, only of a lot whose yield
\* was found low and whose graph explains it: by the alarm of a chamber that was
\* maintained for the review, by one or by a combination of chambers for the hold.
\* Equipment is never the first cause. A summary of the cockpit, made without a
\* candidate, never says that the conditions to change the recommendation are met:
\* for a sensor's bias the missing candidate counts as lost support, and only the
\* detector's classification, which needs a nominal mean, keeps the boundary unmet.
\* However far detector and graph are apart (decision/service.py:152-252, 417-422,
\* ranking.py:114-177, provider.py:125-131, detection/service.py:124-127).
HoldsAreBacked ==
    \A c \in Detected :
        /\ TopCandidate(c).type # "equipment"
        /\ RecommendedOption(c) = "containment_review" =>
              /\ cases[c].mean = "low" /\ lot.fault \in Alarmed \ {"F5"}
              /\ "alarm" \in Seen /\ lot.maintained
        /\ NextStep(c) \in {"hold the implicated chamber", "hold the combination"} =>
              cases[c].mean = "low" /\ lot.fault \in Physical
        /\ ~AllConditionsMet(c, NoCandidate)

\* Once both have read the whole lot, each fault is explained as the simulator's
\* hidden truth has it, where its traces show at all: a low mean yield, or a
\* deviation with a nominal one (fabtwin.py:68-80).
Explains(c, type) == cases[c] # NoCase /\ TopCandidate(c).type = type

FaultsAreExplained ==
    consumed = Len(Trace) /\ projected = Len(Trace) =>
        LET low == MeanYield(consumed) = "low"
        IN  /\ lot.fault \in {"F1", "F2"} /\ low => Explains("physical_excursion", "chamber")
            /\ lot.fault = "F3" /\ low => Explains("physical_excursion", "recipe_mismatch")
            /\ lot.fault = "F4" /\ low =>
                  Explains("physical_excursion", "upstream_downstream_interaction")
            /\ lot.fault = "F5" /\ lot.deviation /\ ~low =>
                  Explains("sensor_bias_suspected", "sensor_calibration")
            /\ lot.fault = "F6" => Explains("data_quality_incident", "data_quality")
=============================================================================
