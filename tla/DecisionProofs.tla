----------------------------- MODULE DecisionProofs -----------------------------
(***************************************************************************)
(* Theorems about what an operator is told: the signals of a case and its  *)
(* plan, for any predicted scores; the diagnosis of a lot, for any yields  *)
(* and any distance of detector and graph; and the episodes of the         *)
(* cockpit, for any lots, kinds, gaps, spans and queues.                   *)
(***************************************************************************)
EXTENDS DecisionSignals, LotDiagnosis, IncidentEpisodes,
        FiniteSetTheorems, FunctionTheorems, SequenceTheorems, WellFoundedInduction,
        TLAPS

-----------------------------------------------------------------------------
(* Signals and plans.                                                        *)

SignalsSpec == SignalsInit /\ [][SignalsNext]_signalVars

LEMMA Scores ==
    ASSUME SignalsAssumption, NEW p \in Prediction
    PROVE  \A t \in Targets : p[t] \in -1..100
BY DEF SignalsAssumption, Prediction, Targets, None

\* What is stored, asked for and shown is the question of the scores it was made
\* of, or one the local model proposed.
QuestionsFit ==
    /\ planned # NoPlan => planned.question \in {PlanQuestion(planned.of), "proposed"}
    /\ asked # Idle => asked.question = PlanQuestion(asked.of)
    /\ told # Untold => told.question \in {PlanQuestion(told.of), "proposed"}

LEMMA QuestionType == ASSUME NEW p PROVE PlanQuestion(p) \in Question \ {"proposed"}
BY DEF PlanQuestion, Question

LEMMA NothingPredicted == NoPlan.of \in Prediction
BY DEF NoPlan, Prediction

LEMMA SignalsTypeStep ==
    ASSUME SignalsTypeOK, [SignalsNext]_signalVars
    PROVE  SignalsTypeOK'
<1>1. CASE UNCHANGED signalVars
  BY <1>1 DEF SignalsTypeOK, signalVars
<1>2. CASE Predict
  BY <1>2 DEF Predict, SignalsTypeOK
<1>3. CASE Review
  <2>1. planned'.of = scores /\ planned' \in Plan
    BY <1>3, QuestionType DEF Review, Plan, SignalsTypeOK
  <2>2. told.of \in Prediction
    BY NothingPredicted DEF SignalsTypeOK, Told, Untold
  <2>3. asked'.of \in Prediction /\ asked'.before \in Prediction /\ asked'.question \in Question
    BY <1>3, <2>2, QuestionType DEF Review, SignalsTypeOK
  <2> QED
    BY <1>3, <2>1, <2>3 DEF Review, SignalsTypeOK
<1>4. ASSUME NEW proposal \in Proposal, Answer(proposal) PROVE SignalsTypeOK'
  <2> DEFINE question == Validated(asked.question, proposal)
  <2>1. /\ asked.of \in Prediction /\ question \in Question
    BY <1>4 DEF Answer, SignalsTypeOK, Validated, Question
  <2>2. told' \in Told
    <3>1. RiskTrajectory(asked.before, asked.of) \in Trajectory
      BY DEF RiskTrajectory, Trajectory
    <3> QED
      BY <1>4, <2>1, <3>1 DEF Answer, Told
  <2>3. planned' \in Plan \cup {NoPlan}
    <3>1. CASE planned' = planned
      BY <3>1 DEF SignalsTypeOK
    <3>2. CASE planned' = [planned EXCEPT !.question = question]
      BY <2>1, <3>2, NothingPredicted DEF SignalsTypeOK, Plan, NoPlan
    <3> QED
      BY <1>4, <3>1, <3>2 DEF Answer, Validated
  <2> QED
    BY <1>4, <2>2, <2>3 DEF Answer, SignalsTypeOK
<1> QED
  BY <1>1, <1>2, <1>3, <1>4 DEF SignalsNext

LEMMA QuestionsStep ==
    ASSUME SignalsTypeOK, QuestionsFit, [SignalsNext]_signalVars
    PROVE  QuestionsFit'
<1>1. CASE UNCHANGED signalVars
  BY <1>1 DEF QuestionsFit, signalVars, PlanQuestion
<1>2. CASE Predict
  BY <1>2 DEF Predict, QuestionsFit, PlanQuestion
<1>3. CASE Review
  <2>1. /\ planned'.of = scores /\ planned'.question = PlanQuestion(scores)
        /\ asked'.of = scores /\ asked'.question = PlanQuestion(scores)
    BY <1>3 DEF Review
  <2>2. UNCHANGED <<kind, spread, told>>
    BY <1>3 DEF Review
  <2> QED
    BY <2>1, <2>2 DEF QuestionsFit, PlanQuestion
<1>4. ASSUME NEW proposal \in Proposal, Answer(proposal) PROVE QuestionsFit'
  <2> DEFINE question == Validated(asked.question, proposal)
  <2>1. question \in {PlanQuestion(asked.of), "proposed"}
    BY <1>4 DEF Answer, QuestionsFit, Validated
  <2>2. told'.of = asked.of /\ told'.question = question
    BY <1>4 DEF Answer
  <2>3. UNCHANGED <<kind, spread>> /\ asked' = Idle
    BY <1>4 DEF Answer
  <2>4. planned' = planned \/ planned'.question = "proposed"
    <3>1. CASE question = "proposed" /\ planned.of = asked.of
      <4>1. planned' = [planned EXCEPT !.question = question]
        BY <1>4, <3>1 DEF Answer
      <4>2. planned'.question = question
        BY <4>1 DEF SignalsTypeOK, Plan, NoPlan
      <4> QED
        BY <3>1, <4>2
    <3>2. CASE ~(question = "proposed" /\ planned.of = asked.of)
      BY <1>4, <3>2 DEF Answer
    <3> QED
      BY <3>1, <3>2
  <2> QED
    BY <2>1, <2>2, <2>3, <2>4 DEF QuestionsFit, PlanQuestion
<1> QED
  BY <1>1, <1>2, <1>3, <1>4 DEF SignalsNext

\* Scores of one bucket of the signature lie on the same side of the boundary at
\* which decision.py calls a case urgent, as far as planner.py's thresholds go.
LEMMA BucketsFit ==
    ASSUME NEW x \in -1..100, NEW y \in -1..100, Rounded(x) = Rounded(y)
    PROVE  /\ y >= 75 => x >= 72
           /\ y >= 70 => x >= 55
           /\ y >= 65 => x >= 65
BY DEF Rounded, None

LEMMA SignalScores ==
    ASSUME NEW p,
           Signal(p) \in {"ESCALATE_REVIEW", "VERIFY_PHYSICAL", "MAINTENANCE_WATCH"}
    PROVE  p.alarm >= 75 \/ p.excursion >= 70 \/ p.maintenance >= 65
BY DEF Signal

LEMMA UrgentIsPlanned ==
    ASSUME SignalsAssumption, NEW p \in Prediction, NEW q \in Prediction,
           Signature(p) = Signature(q),
           Signal(q) \in {"ESCALATE_REVIEW", "VERIFY_PHYSICAL", "MAINTENANCE_WATCH"}
    PROVE  PlanQuestion(p) # "broad"
<1>1. /\ p.alarm \in -1..100 /\ q.alarm \in -1..100
      /\ p.excursion \in -1..100 /\ q.excursion \in -1..100
      /\ p.maintenance \in -1..100 /\ q.maintenance \in -1..100
  BY Scores DEF Targets
<1>2. /\ Rounded(p.alarm) = Rounded(q.alarm) /\ Rounded(p.excursion) = Rounded(q.excursion)
      /\ Rounded(p.maintenance) = Rounded(q.maintenance)
  BY DEF Signature
<1>3. p.alarm >= 72 \/ p.excursion >= 55 \/ p.maintenance >= 65
  BY <1>1, <1>2, SignalScores, BucketsFit
<1> QED
  BY <1>3 DEF PlanQuestion

LEMMA SignalsInvariant == SignalsSpec => [](SignalsTypeOK /\ QuestionsFit)
<1>1. SignalsInit => SignalsTypeOK /\ QuestionsFit
  BY NothingPredicted DEF SignalsInit, SignalsTypeOK, QuestionsFit
<1>2. SignalsTypeOK /\ QuestionsFit /\ [SignalsNext]_signalVars => (SignalsTypeOK /\ QuestionsFit)'
  BY SignalsTypeStep, QuestionsStep
<1> QED
  BY <1>1, <1>2, PTL DEF SignalsSpec

\* For any scores a model may predict: a case that decision.py shows as urgent has no
\* plan, and no report, without a failure mode as long as its material signature is
\* the same (decision.py:86-104, planner.py:16, 37-59).
THEOREM UrgentSignalsArePlanned == SignalsSpec => []SignalIsPlanned
<1>1. SignalsTypeOK /\ QuestionsFit => SignalIsPlanned
  <2> SUFFICES ASSUME SignalsTypeOK, QuestionsFit,
                      Signal(scores) \in {"ESCALATE_REVIEW", "VERIFY_PHYSICAL", "MAINTENANCE_WATCH"}
               PROVE  /\ planned # NoPlan /\ Signature(planned.of) = Signature(scores)
                            => planned.question # "broad"
                      /\ told # Untold /\ Signature(told.of) = Signature(scores)
                            => told.question # "broad"
    BY DEF SignalIsPlanned
  <2>1. \A p \in Prediction : Signature(p) = Signature(scores) => PlanQuestion(p) # "broad"
    BY UrgentIsPlanned, SignalsAssumption DEF SignalsTypeOK
  <2>2. /\ planned # NoPlan => planned.of \in Prediction
        /\ told # Untold => told.of \in Prediction
    BY DEF SignalsTypeOK, Plan, Told
  <2> QED
    BY <2>1, <2>2 DEF QuestionsFit
<1> QED
  BY <1>1, SignalsInvariant, PTL

-----------------------------------------------------------------------------
(* The diagnosis of a lot.                                                   *)

DiagnosisSpec == DiagnosisInit /\ [][DiagnosisNext]_diagnosisVars

EventName == {"litho", "etch", "measurement", "alarm", "inspection", "incident"}

Alarms1 == IF lot.fault \in Alarmed THEN 1 ELSE 0
Incidents1 == IF lot.fault = "F6" THEN 1 ELSE 0

LEMMA Joined ==
    ASSUME NEW S, NEW a \in Seq(S), NEW b \in Seq(S)
    PROVE  /\ a \o b \in Seq(S) /\ Len(a \o b) = Len(a) + Len(b)
           /\ \A k \in 1..Len(a) : (a \o b)[k] = a[k]
           /\ \A k \in Len(a) + 1 .. Len(a) + Len(b) : (a \o b)[k] = b[k - Len(a)]
BY ConcatProperties

LEMMA Single ==
    ASSUME NEW event \in EventName
    PROVE  <<event>> \in Seq(EventName) /\ Len(<<event>>) = 1 /\ <<event>>[1] = event
OBVIOUS

LEMMA None1 == <<>> \in Seq(EventName) /\ Len(<<>>) = 0
OBVIOUS

\* The events of a lot, by their place.
LEMMA TraceIs ==
    ASSUME DiagnosisAssumption
    PROVE  /\ Trace \in Seq(EventName)
           /\ Len(Trace) = 3 + Alarms1 + Wafers + Incidents1
           /\ Trace[1] = "litho" /\ Trace[2] = "etch" /\ Trace[3] = "measurement"
           /\ lot.fault \in Alarmed => Trace[4] = "alarm"
           /\ \A k \in 4 + Alarms1 .. 3 + Alarms1 + Wafers : Trace[k] = "inspection"
           /\ lot.fault = "F6" => Trace[Len(Trace)] = "incident"
<1> DEFINE head == <<"litho", "etch", "measurement">>
           alarm == If(lot.fault \in Alarmed, "alarm")
           inspections == [w \in Wafer |-> "inspection"]
           incident == If(lot.fault = "F6", "incident")
           one == head \o alarm
           two == one \o inspections
<1>1. Wafers \in Nat /\ Wafers >= 1
  BY DEF DiagnosisAssumption
<1>2. /\ head \in Seq(EventName) /\ Len(head) = 3
      /\ head[1] = "litho" /\ head[2] = "etch" /\ head[3] = "measurement"
  BY DEF EventName
<1>3. alarm \in Seq(EventName) /\ Len(alarm) = Alarms1 /\ (lot.fault \in Alarmed => alarm[1] = "alarm")
  <2>1. CASE lot.fault \in Alarmed
    <3>1. alarm = <<"alarm">> /\ Alarms1 = 1 /\ "alarm" \in EventName
      BY <2>1 DEF If, Alarms1, EventName
    <3> HIDE DEF alarm
    <3> QED
      BY <3>1, Single
  <2>2. CASE lot.fault \notin Alarmed
    <3>1. alarm = <<>> /\ Alarms1 = 0
      BY <2>2 DEF If, Alarms1
    <3> HIDE DEF alarm
    <3> QED
      BY <2>2, <3>1, None1
  <2> QED
    BY <2>1, <2>2
<1>4. incident \in Seq(EventName) /\ Len(incident) = Incidents1
      /\ (lot.fault = "F6" => incident[1] = "incident")
  <2>1. CASE lot.fault = "F6"
    <3>1. incident = <<"incident">> /\ Incidents1 = 1 /\ "incident" \in EventName
      BY <2>1 DEF If, Incidents1, EventName
    <3> HIDE DEF incident
    <3> QED
      BY <3>1, Single
  <2>2. CASE lot.fault # "F6"
    <3>1. incident = <<>> /\ Incidents1 = 0
      BY <2>2 DEF If, Incidents1
    <3> HIDE DEF incident
    <3> QED
      BY <2>2, <3>1, None1
  <2> QED
    BY <2>1, <2>2
<1>5. inspections \in Seq(EventName) /\ Len(inspections) = Wafers
      /\ \A w \in 1..Wafers : inspections[w] = "inspection"
  BY <1>1 DEF EventName, Wafer
<1>6. Alarms1 \in {0, 1} /\ Incidents1 \in {0, 1}
      /\ (lot.fault \in Alarmed => Alarms1 = 1) /\ (lot.fault = "F6" => Incidents1 = 1)
  BY DEF Alarms1, Incidents1
<1> HIDE DEF head, alarm, inspections, incident
<1>7. /\ one \in Seq(EventName) /\ Len(one) = 3 + Alarms1
      /\ one[1] = "litho" /\ one[2] = "etch" /\ one[3] = "measurement"
      /\ lot.fault \in Alarmed => one[4] = "alarm"
  <2>1. /\ one \in Seq(EventName) /\ Len(one) = Len(head) + Len(alarm)
        /\ \A k \in 1..Len(head) : one[k] = head[k]
        /\ \A k \in Len(head) + 1 .. Len(head) + Len(alarm) : one[k] = alarm[k - Len(head)]
    BY <1>2, <1>3, Joined, Zenon
  <2> QED
    BY <1>2, <1>3, <1>6, <2>1
<1> HIDE DEF one
<1>8. /\ two \in Seq(EventName) /\ Len(two) = 3 + Alarms1 + Wafers
      /\ \A k \in 1..3 + Alarms1 : two[k] = one[k]
      /\ \A k \in 4 + Alarms1 .. 3 + Alarms1 + Wafers : two[k] = "inspection"
  <2>1. /\ two \in Seq(EventName) /\ Len(two) = Len(one) + Len(inspections)
        /\ \A k \in 1..Len(one) : two[k] = one[k]
        /\ \A k \in Len(one) + 1 .. Len(one) + Len(inspections) :
              two[k] = inspections[k - Len(one)]
    BY <1>5, <1>7, Joined, Zenon
  <2> QED
    BY <1>1, <1>5, <1>6, <1>7, <2>1
<1>9. Trace = two \o incident
  BY DEF Trace, two, one, head, alarm, inspections, incident
<1> HIDE DEF two
<1>10. /\ Trace \in Seq(EventName) /\ Len(Trace) = 3 + Alarms1 + Wafers + Incidents1
       /\ \A k \in 1 .. 3 + Alarms1 + Wafers : Trace[k] = two[k]
       /\ \A k \in 4 + Alarms1 + Wafers .. 3 + Alarms1 + Wafers + Incidents1 :
             Trace[k] = incident[k - (3 + Alarms1 + Wafers)]
  <2> DEFINE all == two \o incident
  <2>1. /\ all \in Seq(EventName) /\ Len(all) = Len(two) + Len(incident)
        /\ \A k \in 1..Len(two) : all[k] = two[k]
        /\ \A k \in Len(two) + 1 .. Len(two) + Len(incident) : all[k] = incident[k - Len(two)]
    <3>1. two \in Seq(EventName) /\ incident \in Seq(EventName)
      BY <1>4, <1>8
    <3> QED
      BY <3>1, Joined, Zenon
  <2>2. Trace = all
    BY <1>9
  <2> HIDE DEF all
  <2> QED
    BY <1>1, <1>4, <1>6, <1>8, <2>1, <2>2
<1> QED
  BY <1>1, <1>4, <1>6, <1>7, <1>8, <1>10

\* What the detector has written says what it saw: a low mean for an excursion, none
\* for the bias of a sensor, and the event consumed last has its case.
CasesFit ==
    /\ cases["physical_excursion"] # NoCase => cases["physical_excursion"].mean = "low"
    /\ cases["sensor_bias_suspected"] # NoCase =>
          cases["sensor_bias_suspected"].mean # "low" /\ lot.fault = "F5"
    /\ consumed > 0 => \A c \in Classified(consumed) : cases[c] # NoCase

LEMMA MeanType == ASSUME NEW n PROVE MeanYield(n) \in {"none", "low", "nominal"}
BY DEF MeanYield

LEMMA ClassifiedFit ==
    ASSUME NEW n
    PROVE  /\ "physical_excursion" \in Classified(n) => MeanYield(n) = "low"
           /\ "sensor_bias_suspected" \in Classified(n) => MeanYield(n) # "low" /\ lot.fault = "F5"
BY DEF Classified

\* The trace and what is classified of it are of the lot alone.
LEMMA SameLot ==
    ASSUME lot' = lot
    PROVE  Trace' = Trace /\ \A n : Classified(n)' = Classified(n)
<1>1. Trace' = Trace
  BY DEF Trace
<1>2. ASSUME NEW n PROVE Classified(n)' = Classified(n)
  <2>1. Inspected(n)' = Inspected(n)
    BY <1>1 DEF Inspected
  <2>2. MeanYield(n)' = MeanYield(n)
    BY <2>1 DEF MeanYield
  <2> QED
    BY <1>1, <2>2 DEF Classified
<1> QED
  BY <1>1, <1>2

LEMMA DiagnosisStep ==
    ASSUME DiagnosisAssumption, DiagnosisTypeOK, CasesFit, [DiagnosisNext]_diagnosisVars
    PROVE  (DiagnosisTypeOK /\ CasesFit)'
<1>0. Len(Trace) \in Nat
  BY TraceIs
<1>1. CASE UNCHANGED diagnosisVars
  <2>1. Trace' = Trace /\ \A n : Classified(n)' = Classified(n)
    BY <1>1, SameLot DEF diagnosisVars
  <2> QED
    BY <1>1, <2>1 DEF diagnosisVars, DiagnosisTypeOK, CasesFit
<1>2. CASE Project
  <2>1. Trace' = Trace /\ \A n : Classified(n)' = Classified(n)
    BY <1>2, SameLot DEF Project
  <2> QED
    BY <1>0, <1>2, <2>1 DEF Project, DiagnosisTypeOK, CasesFit
<1>3. CASE Consume
  <2>1. Trace' = Trace /\ \A n : Classified(n)' = Classified(n)
    BY <1>3, SameLot DEF Consume
  <2> DEFINE document == [mean |-> MeanYield(consumed'), incidents |-> "incident" \in Events(consumed')]
  <2>2. document \in [mean : {"none", "low", "nominal"}, incidents : BOOLEAN]
        /\ document.mean = MeanYield(consumed') /\ document # NoCase
    BY MeanType DEF NoCase
  <2> HIDE DEF document
  <2>3. /\ cases' = [c \in Classification |-> IF c \in Classified(consumed') THEN document ELSE cases[c]]
        /\ consumed' = consumed + 1 /\ consumed < Len(Trace) /\ UNCHANGED <<lot, projected>>
    BY <1>3 DEF Consume, document
  <2>4. \A c \in Classification :
            cases'[c] = IF c \in Classified(consumed') THEN document ELSE cases[c]
    BY <2>3
  <2>5. {"physical_excursion", "sensor_bias_suspected"} \subseteq Classification
        /\ \A n : Classified(n) \subseteq Classification
    BY DEF Classification, Classified
  <2>6. DiagnosisTypeOK'
    BY <1>0, <2>1, <2>2, <2>3 DEF DiagnosisTypeOK, Document
  <2>7. CasesFit'
    BY <2>1, <2>2, <2>3, <2>4, <2>5, ClassifiedFit DEF CasesFit
  <2> QED
    BY <2>6, <2>7
<1> QED
  BY <1>1, <1>2, <1>3 DEF DiagnosisNext

LEMMA DiagnosisInvariant == DiagnosisSpec => [](DiagnosisTypeOK /\ CasesFit)
<1>1. DiagnosisInit => DiagnosisTypeOK /\ CasesFit
  BY TraceIs, DiagnosisAssumption
     DEF DiagnosisInit, DiagnosisTypeOK, CasesFit, Classification
<1>2. DiagnosisTypeOK /\ CasesFit /\ [DiagnosisNext]_diagnosisVars => (DiagnosisTypeOK /\ CasesFit)'
  BY DiagnosisStep, DiagnosisAssumption
<1> QED
  BY <1>1, <1>2, PTL DEF DiagnosisSpec

\* The cause with the highest score is the first.
LEMMA TopIs ==
    ASSUME NEW c, NEW x \in Rank(c), \A y \in Rank(c) : y = x \/ ~(x.score <= y.score)
    PROVE  TopCandidate(c) = x
<1>1. x.score \in Int
  BY DEF Rank, RecipeMismatch, AlarmBacked, Interaction, Unknown, Candidate
<1>2. \A y \in Rank(c) : y.score <= x.score
  BY DEF Rank, RecipeMismatch, AlarmBacked, Interaction, Unknown, Candidate
<1> QED
  BY <1>2 DEF TopCandidate

LEMMA SeenIs ==
    ASSUME DiagnosisAssumption, DiagnosisTypeOK
    PROVE  /\ "alarm" \in Seen => lot.fault \in Alarmed
           /\ "incident" \in Seen => lot.fault = "F6"
<1>1. /\ projected \in 0..Len(Trace)
      /\ Wafers \in Nat /\ Alarms1 \in {0, 1} /\ Incidents1 \in {0, 1}
      /\ (lot.fault \notin Alarmed => Alarms1 = 0) /\ (lot.fault # "F6" => Incidents1 = 0)
  BY DEF DiagnosisTypeOK, DiagnosisAssumption, Alarms1, Incidents1
<1>2. ASSUME NEW i \in 1..projected
      PROVE  /\ Trace[i] = "alarm" => lot.fault \in Alarmed
             /\ Trace[i] = "incident" => lot.fault = "F6"
  <2>1. i \in 1..3 + Alarms1 + Wafers + Incidents1
    BY <1>1, TraceIs
  <2>2. CASE i \in 1..3
    BY <2>2, TraceIs
  <2>3. CASE i \in 4 .. 3 + Alarms1
    BY <1>1, <2>3, TraceIs DEF Alarmed
  <2>4. CASE i \in 4 + Alarms1 .. 3 + Alarms1 + Wafers
    BY <2>4, TraceIs
  <2>5. CASE i > 3 + Alarms1 + Wafers
    BY <1>1, <2>1, <2>5, TraceIs DEF Alarmed
  <2> QED
    BY <1>1, <2>1, <2>2, <2>3, <2>4, <2>5
<1> QED
  BY <1>2 DEF Seen, Events

\* What is first, and of which records: the causes of two faults are never ranked
\* against each other.
LEMMA FirstCause ==
    ASSUME DiagnosisAssumption, DiagnosisTypeOK, NEW c \in Classification
    PROVE  LET top == TopCandidate(c) IN
           \/ c = "data_quality_incident" /\ top.type = "data_quality"
           \/ /\ c # "data_quality_incident"
              /\ \/ /\ lot.fault = "F3" /\ "etch" \in Seen
                    /\ top.type = "recipe_mismatch" /\ top.support = 1
                 \/ /\ lot.fault \in Alarmed /\ "alarm" \in Seen /\ IsSensorBias(c)
                    /\ top.type = "sensor_calibration" /\ top.contradicted /\ top.support > 0
                 \/ /\ lot.fault \in Alarmed /\ "alarm" \in Seen /\ ~IsSensorBias(c)
                    /\ top.type = "chamber" /\ top.support = 2 + Maintenance
                 \/ /\ lot.fault = "F4" /\ c = "physical_excursion"
                    /\ top.type = "upstream_downstream_interaction" /\ top.contradicted
                 \/ /\ top = Unknown
                    /\ ~(lot.fault = "F3" /\ "etch" \in Seen) /\ "alarm" \notin Seen
                    /\ ~(/\ lot.fault = "F4" /\ c = "physical_excursion"
                         /\ {"litho", "etch"} \subseteq Seen /\ PatternSeen = "Scratch")
<1> USE DEF Candidate
<1>0. "alarm" \in Seen => lot.fault \in Alarmed
  BY SeenIs
<1>1. CASE c = "data_quality_incident"
  <2> DEFINE x == Candidate("data_quality", 25 + 25 + 25, IF "incident" \in Seen THEN 1 ELSE 0, TRUE)
  <2>1. Rank(c) = {x} /\ x.type = "data_quality" /\ x.score = 75
    BY <1>1 DEF Rank
  <2> HIDE DEF x
  <2>2. TopCandidate(c) = x
    BY <2>1, TopIs
  <2> QED
    BY <1>1, <2>1, <2>2
<1> DEFINE found == RecipeMismatch \cup AlarmBacked(c) \cup Interaction(c)
<1>2. CASE c # "data_quality_incident" /\ lot.fault = "F3" /\ "etch" \in Seen
  <2>1. "alarm" \notin Seen
    BY <1>0, <1>2 DEF Alarmed
  <2> DEFINE pattern == IF PatternSeen = "Center" THEN 15 ELSE 5
             x == Candidate("recipe_mismatch", 20 + 20 + 35 + pattern, 1, FALSE)
  <2>2. RecipeMismatch = {x} /\ x.type = "recipe_mismatch" /\ x.support = 1 /\ x.score \in Int
    BY <1>2 DEF RecipeMismatch
  <2> HIDE DEF x
  <2>3. AlarmBacked(c) = {} /\ Interaction(c) = {}
    BY <1>2, <2>1 DEF AlarmBacked, Interaction
  <2>4. Rank(c) = {x}
    BY <1>2, <2>2, <2>3 DEF Rank
  <2>5. TopCandidate(c) = x
    BY <2>2, <2>4, TopIs
  <2> QED
    BY <1>2, <2>2, <2>5
<1>3. CASE c # "data_quality_incident" /\ "alarm" \in Seen
  <2>1. RecipeMismatch = {} /\ Interaction(c) = {}
    BY <1>0, <1>3 DEF RecipeMismatch, Interaction, Alarmed
  <2>2. Rank(c) = AlarmBacked(c)
    BY <1>3, <2>1 DEF Rank, AlarmBacked
  <2>3. CASE IsSensorBias(c)
    <3> DEFINE x == Candidate("sensor_calibration", 20 + 20 + 30 + 5, SensorSupport, TRUE)
               y == Candidate("equipment", 20 + 20 + 10 + 5 - 45, SensorSupport, TRUE)
    <3>1. /\ Rank(c) = {x, y} /\ x.score = 75 /\ y.score = 10
          /\ x.type = "sensor_calibration" /\ x.contradicted /\ x.support = SensorSupport
      BY <1>3, <2>2, <2>3 DEF AlarmBacked
    <3> HIDE DEF x, y
    <3>2. SensorSupport > 0
      BY DEF SensorSupport, Maintenance
    <3>3. TopCandidate(c) = x
      BY <3>1, TopIs
    <3> QED
      BY <1>0, <1>3, <2>3, <3>1, <3>2, <3>3
  <2>4. CASE ~IsSensorBias(c)
    <3> DEFINE score == 20 + 20 + 30 + (IF lot.maintained THEN 15 ELSE 5)
                           + (IF PatternSeen \in {"Edge-Loc", "Random"} THEN 15 ELSE 5)
               x == Candidate("chamber", score, 1 + Maintenance + 1, FALSE)
    <3>1. /\ Rank(c) = {x} /\ x.type = "chamber" /\ x.score \in Int
          /\ x.support = 1 + Maintenance + 1
      BY <1>3, <2>2, <2>4 DEF AlarmBacked
    <3> HIDE DEF x
    <3>2. 1 + Maintenance + 1 = 2 + Maintenance
      BY DEF Maintenance
    <3>3. TopCandidate(c) = x
      BY <3>1, TopIs
    <3> QED
      BY <1>0, <1>3, <2>4, <3>1, <3>2, <3>3
  <2> QED
    BY <2>3, <2>4
<1>4. CASE /\ c # "data_quality_incident" /\ "alarm" \notin Seen
           /\ lot.fault = "F4" /\ c = "physical_excursion"
           /\ {"litho", "etch"} \subseteq Seen /\ PatternSeen = "Scratch"
  <2>1. RecipeMismatch = {} /\ AlarmBacked(c) = {}
    BY <1>4 DEF RecipeMismatch, AlarmBacked
  <2> DEFINE x == Candidate("upstream_downstream_interaction", 20 + 25 + 25 + 25, 2, TRUE)
  <2>2. /\ Interaction(c) = {x} /\ x.type = "upstream_downstream_interaction"
        /\ x.contradicted /\ x.score \in Int
    BY <1>4 DEF Interaction
  <2> HIDE DEF x
  <2>3. Rank(c) = {x}
    BY <1>4, <2>1, <2>2 DEF Rank
  <2>4. TopCandidate(c) = x
    BY <2>2, <2>3, TopIs
  <2> QED
    BY <1>4, <2>2, <2>4
<1>5. CASE /\ c # "data_quality_incident" /\ "alarm" \notin Seen
           /\ ~(lot.fault = "F3" /\ "etch" \in Seen)
           /\ ~(/\ lot.fault = "F4" /\ c = "physical_excursion"
                /\ {"litho", "etch"} \subseteq Seen /\ PatternSeen = "Scratch")
  <2>1. RecipeMismatch = {} /\ AlarmBacked(c) = {} /\ Interaction(c) = {}
    BY <1>5 DEF RecipeMismatch, AlarmBacked, Interaction
  <2>2. Rank(c) = {Unknown}
    BY <1>5, <2>1 DEF Rank
  <2>3. TopCandidate(c) = Unknown
    BY <2>2, TopIs DEF Unknown
  <2> QED
    BY <1>5, <2>3
<1> QED
  BY <1>1, <1>2, <1>3, <1>4, <1>5

\* Whatever the detector and the projection have read of a lot: a containment review
\* or a hold is backed by a low yield and by the cause the graph shows, equipment
\* is never first, and no boundary is met without a candidate
\* (decision/service.py:152-252, 417-422, ranking.py:114-177, provider.py:125-131).
THEOREM HoldsBacked == DiagnosisSpec => []HoldsAreBacked
<1>1. DiagnosisTypeOK /\ CasesFit => HoldsAreBacked
  <2> SUFFICES ASSUME DiagnosisTypeOK, CasesFit, NEW c \in Detected
               PROVE  /\ TopCandidate(c).type # "equipment"
                      /\ RecommendedOption(c) = "containment_review" =>
                            /\ cases[c].mean = "low" /\ lot.fault \in Alarmed \ {"F5"}
                            /\ "alarm" \in Seen /\ lot.maintained
                      /\ NextStep(c) \in {"hold the implicated chamber", "hold the combination"} =>
                            cases[c].mean = "low" /\ lot.fault \in Physical
                      /\ ~AllConditionsMet(c, NoCandidate)
    BY DEF HoldsAreBacked
  <2> DEFINE top == TopCandidate(c)
  <2>0. c \in Classification /\ cases[c] # NoCase
    BY DEF Detected
  <2>1. top.type # "equipment"
    BY <2>0, FirstCause, DiagnosisAssumption DEF Unknown, Candidate
  <2>2. ASSUME RecommendedOption(c) = "containment_review"
        PROVE  /\ cases[c].mean = "low" /\ lot.fault \in Alarmed \ {"F5"}
               /\ "alarm" \in Seen /\ lot.maintained
    <3>1. c = "physical_excursion" /\ AllConditionsMet(c, top)
      BY <2>0, <2>2 DEF RecommendedOption, Recommended, Target, Classification
    <3>2. cases[c].mean = "low" /\ top.support >= 3 /\ ~top.contradicted
      BY <3>1 DEF AllConditionsMet
    <3>3. /\ lot.fault \in Alarmed /\ "alarm" \in Seen /\ ~IsSensorBias(c)
          /\ top.support = 2 + Maintenance
      BY <2>0, <3>1, <3>2, FirstCause, DiagnosisAssumption DEF Unknown, Candidate
    <3>4. lot.maintained
      BY <3>2, <3>3 DEF Maintenance
    <3> QED
      BY <3>2, <3>3, <3>4 DEF IsSensorBias
  <2>3. ASSUME NextStep(c) \in {"hold the implicated chamber", "hold the combination"}
        PROVE  cases[c].mean = "low" /\ lot.fault \in Physical
    <3>1. /\ c \notin {"data_quality_incident", "sensor_bias_suspected"}
          /\ top.type \in {"chamber", "upstream_downstream_interaction"}
      BY <2>3 DEF NextStep
    <3>2. c = "physical_excursion"
      BY <2>0, <3>1 DEF Classification
    <3>3. lot.fault = "F4" \/ (lot.fault \in Alarmed /\ ~IsSensorBias(c))
      <4>1. Unknown.type = "unknown"
        BY DEF Unknown, Candidate
      <4>2. \/ top.type \in {"data_quality", "recipe_mismatch", "sensor_calibration"}
            \/ lot.fault \in Alarmed /\ ~IsSensorBias(c)
            \/ lot.fault = "F4"
            \/ top = Unknown
        BY <2>0, FirstCause, DiagnosisAssumption
      <4> HIDE DEF top
      <4> QED
        BY <3>1, <4>1, <4>2
    <3> QED
      BY <2>0, <3>2, <3>3 DEF CasesFit, Physical, Alarmed, IsSensorBias
  <2>4. ~AllConditionsMet(c, NoCandidate)
    BY <2>0 DEF AllConditionsMet, NoCandidate, Candidate, CasesFit, Classification
  <2> QED
    BY <2>1, <2>2, <2>3, <2>4
<1> QED
  BY <1>1, DiagnosisInvariant, PTL

\* Once detector and graph have read the whole lot, the first cause of its case is
\* the one the simulator hid, for any number of wafers and any yields
\* (fabtwin.py:68-80, ranking.py).
THEOREM FaultsExplained == DiagnosisSpec => []FaultsAreExplained
<1>1. DiagnosisTypeOK /\ CasesFit => FaultsAreExplained
  <2> SUFFICES ASSUME DiagnosisTypeOK, CasesFit, consumed = Len(Trace), projected = Len(Trace)
               PROVE  LET low == MeanYield(consumed) = "low"
                      IN  /\ lot.fault \in {"F1", "F2"} /\ low => Explains("physical_excursion", "chamber")
                          /\ lot.fault = "F3" /\ low => Explains("physical_excursion", "recipe_mismatch")
                          /\ lot.fault = "F4" /\ low =>
                                Explains("physical_excursion", "upstream_downstream_interaction")
                          /\ lot.fault = "F5" /\ lot.deviation /\ ~low =>
                                Explains("sensor_bias_suspected", "sensor_calibration")
                          /\ lot.fault = "F6" => Explains("data_quality_incident", "data_quality")
    BY DEF FaultsAreExplained
  <2> DEFINE n == 3 + Alarms1 + Wafers + Incidents1
  <2>1. /\ Wafers \in Nat /\ Wafers >= 1 /\ Alarms1 \in {0, 1} /\ Incidents1 \in {0, 1}
        /\ (lot.fault \in Alarmed => Alarms1 = 1) /\ (lot.fault # "F6" => Incidents1 = 0)
        /\ Len(Trace) = n /\ n \in Nat /\ n >= 4 + Alarms1
    BY TraceIs, DiagnosisAssumption DEF DiagnosisAssumption, Alarms1, Incidents1
  <2>2. \A i \in 1..n : Trace[i] \in Seen
    BY <2>1 DEF Seen, Events
  <2>3. /\ {"litho", "etch", "inspection"} \subseteq Seen
        /\ lot.fault \in Alarmed => "alarm" \in Seen
    <3>1. 4 + Alarms1 \in 4 + Alarms1 .. 3 + Alarms1 + Wafers /\ {1, 2, 4, 4 + Alarms1} \subseteq 1..n
      BY <2>1
    <3>2. Trace[1] = "litho" /\ Trace[2] = "etch" /\ Trace[4 + Alarms1] = "inspection"
          /\ (lot.fault \in Alarmed => Trace[4] = "alarm")
      BY <3>1, TraceIs, DiagnosisAssumption
    <3> QED
      BY <2>2, <3>1, <3>2
  <2>4. PatternSeen = DefectPattern
    BY <2>3 DEF PatternSeen
  <2>5. /\ lot.fault # "F6" => Trace[consumed] = "inspection"
        /\ lot.fault = "F6" => Trace[consumed] = "incident"
    <3>1. lot.fault # "F6" => n \in 4 + Alarms1 .. 3 + Alarms1 + Wafers
      BY <2>1
    <3> QED
      BY <2>1, <3>1, TraceIs, DiagnosisAssumption
  <2>6. \A c \in Classified(consumed) : cases[c] # NoCase
    BY <2>1 DEF CasesFit
  <2>7. {"physical_excursion", "sensor_bias_suspected", "data_quality_incident"} \subseteq Classification
    BY DEF Classification
  <2>8. ASSUME lot.fault # "F6", MeanYield(consumed) = "low"
        PROVE  cases["physical_excursion"] # NoCase
    BY <2>5, <2>6, <2>8 DEF Classified
  <2>9. ASSUME lot.fault \in {"F1", "F2"}, MeanYield(consumed) = "low"
        PROVE  Explains("physical_excursion", "chamber")
    <3>1. ~IsSensorBias("physical_excursion") /\ "alarm" \in Seen
      BY <2>3, <2>9 DEF IsSensorBias, Alarmed
    <3>2. TopCandidate("physical_excursion").type = "chamber"
      BY <2>7, <2>9, <3>1, FirstCause, DiagnosisAssumption
    <3> QED
      BY <2>8, <2>9, <3>2 DEF Explains
  <2>10. ASSUME lot.fault = "F3", MeanYield(consumed) = "low"
         PROVE  Explains("physical_excursion", "recipe_mismatch")
    <3>1. TopCandidate("physical_excursion").type = "recipe_mismatch"
      BY <2>3, <2>7, <2>10, FirstCause, DiagnosisAssumption DEF Alarmed
    <3> QED
      BY <2>8, <2>10, <3>1 DEF Explains
  <2>11. ASSUME lot.fault = "F4", MeanYield(consumed) = "low"
         PROVE  Explains("physical_excursion", "upstream_downstream_interaction")
    <3>1. PatternSeen = "Scratch"
      BY <2>4, <2>11 DEF DefectPattern
    <3>2. TopCandidate("physical_excursion").type = "upstream_downstream_interaction"
      BY <2>3, <2>7, <2>11, <3>1, FirstCause, DiagnosisAssumption DEF Alarmed
    <3> QED
      BY <2>8, <2>11, <3>2 DEF Explains
  <2>12. ASSUME lot.fault = "F5", lot.deviation, MeanYield(consumed) # "low"
         PROVE  Explains("sensor_bias_suspected", "sensor_calibration")
    <3>1. cases["sensor_bias_suspected"] # NoCase
      BY <2>5, <2>6, <2>12 DEF Classified
    <3>2. IsSensorBias("sensor_bias_suspected") /\ "alarm" \in Seen
      BY <2>3, <2>12 DEF IsSensorBias, Alarmed
    <3>3. TopCandidate("sensor_bias_suspected").type = "sensor_calibration"
      BY <2>7, <2>12, <3>2, FirstCause, DiagnosisAssumption
    <3> QED
      BY <3>1, <3>3 DEF Explains
  <2>13. ASSUME lot.fault = "F6"
         PROVE  Explains("data_quality_incident", "data_quality")
    <3>1. cases["data_quality_incident"] # NoCase
      BY <2>5, <2>6, <2>13 DEF Classified
    <3>2. TopCandidate("data_quality_incident").type = "data_quality"
      BY <2>7, FirstCause, DiagnosisAssumption
    <3> QED
      BY <3>1, <3>2 DEF Explains
  <2> QED
    BY <2>9, <2>10, <2>11, <2>12, <2>13
<1> QED
  BY <1>1, DiagnosisInvariant, PTL

-----------------------------------------------------------------------------
(* The episodes of the cockpit. Sets of lots are induced over by the least   *)
(* element of what would be the counterexamples.                             *)

EpisodesSpec == EpisodesInit /\ [][EpisodesNext]_episodeVars

LEMMA Least ==
    ASSUME NEW T, T \subseteq Nat, T # {}
    PROVE  \E x \in T : \A y \in T : x <= y
<1> DEFINE R == OpToRel(<, Nat)
<1>1. PICK x \in T : \A y \in T : <<y, x>> \notin R
  <2>1. IsWellFoundedOn(R, Nat)
    BY NatLessThanWellFounded
  <2> HIDE DEF R
  <2> QED
    BY <2>1, WFMin
<1>2. \A y \in T : ~(y < x)
  BY <1>1 DEF OpToRel
<1> QED
  BY <1>2

LEMMA Upward ==
    ASSUME NEW T, 0 \in T, \A i \in Nat : i \in T => i + 1 \in T
    PROVE  Nat \subseteq T
<1> SUFFICES ASSUME Nat \ T # {} PROVE FALSE
  OBVIOUS
<1>1. PICK x \in Nat \ T : \A y \in Nat \ T : x <= y
  BY Least
<1>2. x - 1 \in Nat /\ x - 1 \in T
  BY <1>1
<1> QED
  BY <1>1, <1>2

LEMMA FromBelow ==
    ASSUME NEW L, L \subseteq Nat, NEW T,
           \A l \in L : (\A m \in L : m < l => m \in T) => l \in T
    PROVE  L \subseteq T
<1> SUFFICES ASSUME L \ T # {} PROVE FALSE
  OBVIOUS
<1>1. PICK x \in L \ T : \A y \in L \ T : x <= y
  BY Least
<1>2. \A m \in L : m < x => m \in T
  BY <1>1
<1> QED
  BY <1>1, <1>2

LEMMA MaxIs ==
    ASSUME NEW S, S \subseteq Nat, S # {}, NEW n \in Nat, \A x \in S : x <= n
    PROVE  Max(S) \in S /\ \A y \in S : y <= Max(S)
<1> DEFINE below == {n - x : x \in S}
<1>0. \A x \in S : n - x \in Nat /\ n - x \in below
  OBVIOUS
<1>1. below \subseteq Nat /\ below # {}
  BY <1>0
<1>2. PICK d \in below : \A y \in below : d <= y
  BY <1>1, Least
<1>3. PICK x \in S : d = n - x
  BY <1>2
<1>4. \A y \in S : x >= y
  <2> SUFFICES ASSUME NEW y \in S PROVE x >= y
    OBVIOUS
  <2>1. n - x <= n - y /\ x \in Nat /\ y \in Nat
    BY <1>0, <1>2, <1>3
  <2> QED
    BY <2>1
<1> QED
  BY <1>3, <1>4 DEF Max

LEMMA MinIs ==
    ASSUME NEW S, S \subseteq Nat, NEW x \in S, \A y \in S : x <= y
    PROVE  Min(S) = x
<1>1. Min(S) \in S /\ \A y \in S : Min(S) <= y
  BY DEF Min
<1>2. Min(S) <= x /\ x <= Min(S) /\ x \in Nat /\ Min(S) \in Nat
  BY <1>1
<1> QED
  BY <1>2

\* The list of first lots, of any set of lots.
Before(L, l) == {m \in L : m < l}

FirstOf(L, f, l) ==
    IF Before(L, l) # {} /\ Joins(l, Max(Before(L, l)), f[Max(Before(L, l))])
      THEN f[Max(Before(L, l))] ELSE l

Grouped(L) == CHOOSE f : f = [l \in L |-> FirstOf(L, f, l)]

LEMMA FirstLotIs == \A k : FirstLot(k) = Grouped(LotsWith(k)) /\ FirstLot(k)' = Grouped(LotsWith(k)')
<1>1. ASSUME NEW k PROVE FirstLot(k) = Grouped(LotsWith(k))
  BY DEF FirstLot, Grouped, FirstOf, Before
<1>2. ASSUME NEW k PROVE FirstLot(k)' = Grouped(LotsWith(k)')
  BY DEF FirstLot, Grouped, FirstOf, Before
<1> QED
  BY <1>1, <1>2

LEMMA BeforeIs == ASSUME NEW L, NEW l PROVE \A m : m \in Before(L, l) <=> m \in L /\ m < l
BY DEF Before

LEMMA LotsAreNumbers ==
    ASSUME EpisodesAssumption, NEW L \in SUBSET EpisodeLot
    PROVE  L \subseteq Nat /\ \A l \in L : l >= 1 /\ l <= Lots
BY DEF EpisodesAssumption, EpisodeLot

LEMMA BeforeHasMax ==
    ASSUME EpisodesAssumption, NEW L \in SUBSET EpisodeLot, NEW l \in L, Before(L, l) # {}
    PROVE  LET b == Max(Before(L, l)) IN b \in L /\ b < l /\ \A m \in L : m < l => m <= b
<1> DEFINE B == Before(L, l)
<1>0. L \subseteq Nat /\ l \in Nat /\ \A m : m \in B <=> m \in L /\ m < l
  BY LotsAreNumbers, BeforeIs
<1> HIDE DEF B
<1>1. B \subseteq Nat /\ \A m \in B : m <= l
  <2>1. \A m \in B : m \in Nat /\ m < l
    BY <1>0
  <2>2. \A m, n \in Nat : m < n => m <= n
    OBVIOUS
  <2> QED
    BY <1>0, <2>1, <2>2
<1>2. Max(B) \in B /\ \A m \in B : m <= Max(B)
  BY <1>0, <1>1, MaxIs DEF B
<1> QED
  BY <1>0, <1>2 DEF B

\* The recursion has a solution.
LEMMA GroupedDef ==
    ASSUME EpisodesAssumption, NEW L \in SUBSET EpisodeLot
    PROVE  /\ DOMAIN Grouped(L) = L
           /\ \A l \in L : Grouped(L)[l] = FirstOf(L, Grouped(L), l)
<1> DEFINE Upto(n) == {m \in L : m <= n}
           Solves(f, n) == f = [l \in Upto(n) |-> FirstOf(L, f, l)]
           T == {n \in Nat : \E f : Solves(f, n)}
<1>0. Lots \in Nat /\ L \subseteq Nat /\ \A l \in L : l >= 1 /\ l <= Lots
  BY LotsAreNumbers DEF EpisodesAssumption
<1>1. 0 \in T
  <2>1. Upto(0) = {}
    <3>1. \A l \in L : ~(l <= 0)
      BY <1>0
    <3> QED
      BY <3>1
  <2>2. Solves([l \in {} |-> 0], 0)
    BY <2>1
  <2> QED
    BY <2>2
<1>2. ASSUME NEW n \in Nat, n \in T PROVE n + 1 \in T
  <2>1. PICK f : Solves(f, n)
    BY <1>2
  <2> DEFINE g == [l \in Upto(n + 1) |-> IF l <= n THEN f[l] ELSE FirstOf(L, f, l)]
  <2>2. \A l \in Upto(n + 1) : l \in Nat /\ (l <= n \/ l = n + 1)
    BY <1>0
  <2>3. ASSUME NEW l \in Upto(n + 1) PROVE FirstOf(L, g, l) = FirstOf(L, f, l)
    <3>1. CASE Before(L, l) = {}
      BY <3>1 DEF FirstOf
    <3>2. CASE Before(L, l) # {}
      <4> DEFINE b == Max(Before(L, l))
      <4>1. b \in L /\ b < l
        BY <3>2, BeforeHasMax
      <4>2. b <= n /\ b \in Upto(n + 1)
        <5> HIDE DEF b
        <5>1. l \in Nat /\ b \in Nat /\ (l <= n \/ l = n + 1)
          BY <1>0, <2>2, <4>1
        <5>2. b <= n /\ b <= n + 1
          BY <4>1, <5>1
        <5> QED
          BY <4>1, <5>2
      <4>3. g[b] = f[b]
        BY <4>2
      <4> HIDE DEF g, b
      <4> QED
        BY <4>3 DEF FirstOf, b
    <3> QED
      BY <3>1, <3>2
  <2>4. ASSUME NEW l \in Upto(n + 1) PROVE g[l] = FirstOf(L, f, l)
    <3>1. CASE l <= n
      <4>1. l \in Upto(n)
        BY <3>1
      <4>2. f[l] = FirstOf(L, f, l)
        <5> HIDE DEF Upto
        <5> QED
          BY <2>1, <4>1
      <4> QED
        BY <3>1, <4>2
    <3>2. CASE ~(l <= n)
      BY <3>2
    <3> QED
      BY <3>1, <3>2
  <2>5. n + 1 \in Nat /\ Solves(g, n + 1)
    <3>1. g = [l \in Upto(n + 1) |-> FirstOf(L, f, l)]
      <4> DEFINE h == [l \in Upto(n + 1) |-> FirstOf(L, f, l)]
      <4>1. DOMAIN g = Upto(n + 1) /\ DOMAIN h = Upto(n + 1) /\ \A l \in Upto(n + 1) : g[l] = h[l]
        BY <2>4
      <4> HIDE DEF Upto
      <4> QED
        BY <2>4
    <3>2. [l \in Upto(n + 1) |-> FirstOf(L, f, l)] = [l \in Upto(n + 1) |-> FirstOf(L, g, l)]
      <4> HIDE DEF g, Upto
      <4> QED
        BY <2>3
    <3> HIDE DEF g
    <3> QED
      BY <3>1, <3>2
  <2> QED
    BY <2>5
<1>3. Lots \in T
  <2> HIDE DEF T
  <2> QED
    BY <1>0, <1>1, <1>2, Upward
<1>4. Upto(Lots) = L
  BY <1>0
<1>5. \E f : f = [l \in L |-> FirstOf(L, f, l)]
  BY <1>3, <1>4
<1>6. Grouped(L) = [l \in L |-> FirstOf(L, Grouped(L), l)]
  BY <1>5 DEF Grouped
<1> QED
  <2> HIDE DEF Upto
  <2>1. \A f : f = [l \in L |-> FirstOf(L, f, l)] => DOMAIN f = L /\ \A l \in L : f[l] = FirstOf(L, f, l)
    OBVIOUS
  <2> QED
    BY <1>6, <2>1

\* An episode is a run of cases from its first one on, and not longer than the span.
LEMMA Runs ==
    ASSUME EpisodesAssumption, NEW L \in SUBSET EpisodeLot
    PROVE  \A l \in L :
               /\ Grouped(L)[l] \in L /\ Grouped(L)[l] <= l /\ l - Grouped(L)[l] <= Span
               /\ \A m \in L : Grouped(L)[l] <= m /\ m <= l => Grouped(L)[m] = Grouped(L)[l]
<1> DEFINE F == Grouped(L)
           T == {l \in L : /\ F[l] \in L /\ F[l] <= l /\ l - F[l] <= Span
                           /\ \A m \in L : F[l] <= m /\ m <= l => F[m] = F[l]}
<1>0. L \subseteq Nat /\ Span \in Nat
  BY DEF EpisodesAssumption, EpisodeLot
<1>1. ASSUME NEW l \in L, \A m \in L : m < l => m \in T PROVE l \in T
  <2>1. F[l] = FirstOf(L, F, l)
    BY GroupedDef
  <2>2. CASE F[l] = l
    <3>1. \A m \in L : F[l] <= m /\ m <= l => F[m] = F[l]
      <4>1. \A m \in L : l <= m /\ m <= l => m = l
        BY <1>0
      <4> HIDE DEF F
      <4> QED
        BY <2>2, <4>1
    <3> HIDE DEF F
    <3> QED
      BY <1>0, <2>2, <3>1
  <2>3. CASE F[l] # l
    <3> DEFINE b == Max(Before(L, l))
    <3>1. Before(L, l) # {} /\ Joins(l, b, F[b]) /\ F[l] = F[b]
      BY <2>1, <2>3 DEF FirstOf
    <3>2. b \in L /\ b < l /\ \A m \in L : m < l => m <= b
      BY <3>1, BeforeHasMax
    <3>3. F[b] \in L /\ F[b] <= b /\ \A m \in L : F[b] <= m /\ m <= b => F[m] = F[b]
      BY <1>1, <3>2
    <3>4. l - F[b] <= Span
      BY <3>1 DEF Joins
    <3> HIDE DEF F, b
    <3>5. \A m \in L : F[l] <= m /\ m <= l => F[m] = F[l]
      <4> SUFFICES ASSUME NEW m \in L, F[l] <= m, m <= l PROVE F[m] = F[l]
        OBVIOUS
      <4>1. CASE m = l
        BY <4>1
      <4>2. CASE m # l
        <5>1. m < l
          BY <1>0, <4>2
        <5> QED
          BY <3>1, <3>2, <3>3, <5>1
      <4> QED
        BY <4>1, <4>2
    <3>6. F[b] \in Nat /\ b \in Nat /\ l \in Nat
      BY <1>0, <3>2, <3>3
    <3>7. F[l] \in L /\ F[l] <= l /\ l - F[l] <= Span
      BY <3>1, <3>2, <3>3, <3>4, <3>6
    <3> QED
      BY <3>5, <3>7
  <2> QED
    BY <2>2, <2>3
<1>2. L \subseteq T
  <2> HIDE DEF T
  <2> QED
    BY <1>0, <1>1, FromBelow
<1> QED
  BY <1>2

\* Cases of later lots change nothing for the ones there are.
LEMMA Prefix ==
    ASSUME EpisodesAssumption, NEW L \in SUBSET EpisodeLot, NEW M \in SUBSET EpisodeLot,
           L \subseteq M, \A x \in M \ L, y \in L : y <= x
    PROVE  \A l \in L : Grouped(L)[l] = Grouped(M)[l]
<1> DEFINE T == {l \in L : Grouped(L)[l] = Grouped(M)[l]}
<1>0. L \subseteq Nat
  BY DEF EpisodesAssumption, EpisodeLot
<1>1. ASSUME NEW l \in L, \A m \in L : m < l => m \in T PROVE l \in T
  <2>1. Before(L, l) = Before(M, l)
    <3>1. \A m : m \in M /\ m < l => m \in L
      BY LotsAreNumbers
    <3>2. \A m : m \in Before(L, l) <=> m \in Before(M, l)
      BY <3>1, BeforeIs
    <3> QED
      BY <3>2 DEF Before
  <2>2. /\ Grouped(L)[l] = FirstOf(L, Grouped(L), l)
        /\ Grouped(M)[l] = FirstOf(M, Grouped(M), l)
    BY GroupedDef
  <2>3. CASE Before(L, l) = {}
    BY <2>1, <2>2, <2>3 DEF FirstOf
  <2>4. CASE Before(L, l) # {}
    <3> DEFINE b == Max(Before(L, l))
    <3>1. b \in L /\ b < l
      BY <2>4, BeforeHasMax
    <3>2. Grouped(L)[b] = Grouped(M)[b]
      BY <1>1, <3>1
    <3> QED
      BY <2>1, <2>2, <3>2 DEF FirstOf
  <2> QED
    BY <2>3, <2>4
<1>2. L \subseteq T
  <2> HIDE DEF T
  <2> QED
    BY <1>0, <1>1, FromBelow
<1> QED
  BY <1>2

-----------------------------------------------------------------------------

LEMMA NoIncidentIs == ASSUME EpisodesAssumption PROVE NoIncident \notin Incident
BY DEF NoIncident, Incident, EpisodesAssumption

LEMMA LotsWithType == \A k : LotsWith(k) \in SUBSET EpisodeLot
BY DEF LotsWith

LEMMA LatestIsLatest ==
    ASSUME EpisodesAssumption, NEW k \in Kind, NEW l \in LotsWith(k)
    PROVE  l <= LatestLot /\ LatestLot \in Nat
<1> DEFINE S == {0} \cup UNION {LotsWith(i) : i \in Kind}
<1>1. S \subseteq Nat /\ S # {} /\ Lots \in Nat /\ \A x \in S : x <= Lots
  <2>1. Lots \in Nat /\ \A i \in Kind : LotsWith(i) \subseteq 1..Lots
    BY LotsWithType DEF EpisodesAssumption, EpisodeLot
  <2> QED
    BY <2>1
<1>2. l \in S
  OBVIOUS
<1>3. Max(S) \in S /\ \A x \in S : x <= Max(S)
  <2> HIDE DEF S
  <2> QED
    BY <1>1, MaxIs
<1> QED
  BY <1>1, <1>2, <1>3 DEF LatestLot

\* Steps: a case is added, at the latest lot or after it, or is changed.
LEMMA EpisodesStep ==
    ASSUME EpisodesAssumption, EpisodesTypeOK, [EpisodesNext]_episodeVars
    PROVE  /\ EpisodesTypeOK'
           /\ \A k \in Kind : /\ LotsWith(k) \subseteq LotsWith(k)'
                              /\ \A x \in LotsWith(k)' \ LotsWith(k), y \in LotsWith(k) : y <= x
<1>1. CASE UNCHANGED episodeVars
  BY <1>1 DEF episodeVars, EpisodesTypeOK, LotsWith
<1>2. ASSUME NEW i \in Kind, NEW n \in EpisodeLot, NEW score \in 0..MaxScore, Detect(i, n, score)
      PROVE  /\ EpisodesTypeOK'
             /\ \A k \in Kind : /\ LotsWith(k) \subseteq LotsWith(k)'
                                /\ \A x \in LotsWith(k)' \ LotsWith(k), y \in LotsWith(k) : y <= x
  <2> DEFINE new == [score |-> score, closed |-> FALSE]
  <2>1. new \in Incident
    BY DEF Incident
  <2>2. new # NoIncident
    BY <2>1, NoIncidentIs
  <2> HIDE DEF new
  <2>3. incidents' = [incidents EXCEPT ![i][n] = new]
    BY <1>2 DEF Detect, new
  <2>4. EpisodesTypeOK'
    BY <2>1, <2>3 DEF EpisodesTypeOK
  <2>5. /\ incidents'[i][n] = new
        /\ \A k \in Kind, l \in EpisodeLot : k # i \/ l # n => incidents'[k][l] = incidents[k][l]
    BY <2>3 DEF EpisodesTypeOK
  <2>6. ASSUME NEW k \in Kind
        PROVE  /\ LotsWith(k) \subseteq LotsWith(k)'
               /\ \A x \in LotsWith(k)' \ LotsWith(k), y \in LotsWith(k) : y <= x
    <3>1. \A l \in LotsWith(k) : l \in LotsWith(k)'
      BY <2>2, <2>5 DEF LotsWith
    <3>2. \A x \in LotsWith(k)' \ LotsWith(k) : x = n
      BY <2>5 DEF LotsWith
    <3>3. \A y \in LotsWith(k) : y <= LatestLot /\ y \in Nat /\ LatestLot \in Nat
      BY LatestIsLatest, LotsWithType, LotsAreNumbers
    <3>4. n >= LatestLot
      BY <1>2 DEF Detect
    <3>5. n \in Nat
      BY DEF EpisodeLot, EpisodesAssumption
    <3> QED
      BY <3>1, <3>2, <3>3, <3>4, <3>5
  <2> QED
    BY <2>4, <2>6
<1>3. ASSUME NEW i \in Kind, NEW n \in EpisodeLot, CloseIncident(i, n)
      PROVE  /\ EpisodesTypeOK'
             /\ \A k \in Kind : /\ LotsWith(k) \subseteq LotsWith(k)'
                                /\ \A x \in LotsWith(k)' \ LotsWith(k), y \in LotsWith(k) : y <= x
  <2> DEFINE new == [incidents[i][n] EXCEPT !.closed = TRUE]
  <2>1. incidents[i][n] \in Incident
    BY <1>3 DEF CloseIncident, LotsWith, EpisodesTypeOK
  <2>2. new \in Incident
    BY <2>1 DEF Incident
  <2>3. new # NoIncident
    BY <2>2, NoIncidentIs
  <2>4. incidents' = [incidents EXCEPT ![i][n] = new]
    BY <1>3 DEF CloseIncident, EpisodesTypeOK
  <2> HIDE DEF new
  <2>5. EpisodesTypeOK'
    BY <2>2, <2>4 DEF EpisodesTypeOK
  <2>6. /\ incidents'[i][n] = new /\ incidents[i][n] # NoIncident
        /\ \A k \in Kind, l \in EpisodeLot : k # i \/ l # n => incidents'[k][l] = incidents[k][l]
    BY <1>3, <2>4 DEF EpisodesTypeOK, CloseIncident, LotsWith
  <2>7. \A k \in Kind, l \in EpisodeLot : l \in LotsWith(k)' <=> l \in LotsWith(k)
    BY <2>3, <2>6 DEF LotsWith
  <2> QED
    BY <2>5, <2>7, LotsWithType DEF LotsWith
<1> QED
  BY <1>1, <1>2, <1>3 DEF EpisodesNext

LEMMA EpisodesTypeInvariant == EpisodesSpec => []EpisodesTypeOK
<1>1. EpisodesInit => EpisodesTypeOK
  BY DEF EpisodesInit, EpisodesTypeOK
<1>2. EpisodesTypeOK /\ [EpisodesNext]_episodeVars => EpisodesTypeOK'
  BY EpisodesStep, EpisodesAssumption
<1> QED
  BY <1>1, <1>2, PTL DEF EpisodesSpec

\* For any gap and span, and however many lots: what the detector adds changes
\* neither the episode a case is in nor the id of that episode
\* (decision/service.py:219-334).
THEOREM EpisodesStable == EpisodesSpec => EpisodesAreStable
<1> DEFINE Stable == \A k \in Kind : \A l \in LotsWith(k) :
                         l \in LotsWith(k)' /\ FirstLot(k)[l] = FirstLot(k)'[l]
<1>1. EpisodesTypeOK /\ [EpisodesNext]_episodeVars => Stable
  <2> SUFFICES ASSUME EpisodesTypeOK, [EpisodesNext]_episodeVars,
                      NEW k \in Kind, NEW l \in LotsWith(k)
               PROVE  l \in LotsWith(k)' /\ FirstLot(k)[l] = FirstLot(k)'[l]
    OBVIOUS
  <2> DEFINE L == LotsWith(k)
             M == LotsWith(k)'
  <2>1. L \in SUBSET EpisodeLot /\ M \in SUBSET EpisodeLot
    BY DEF LotsWith
  <2>2. L \subseteq M /\ \A x \in M \ L, y \in L : y <= x
    BY EpisodesStep, EpisodesAssumption
  <2>3. FirstLot(k) = Grouped(L) /\ FirstLot(k)' = Grouped(M)
    BY FirstLotIs
  <2>4. l \in L
    OBVIOUS
  <2> HIDE DEF L, M
  <2>5. l \in M /\ Grouped(L)[l] = Grouped(M)[l]
    BY <2>1, <2>2, <2>4, Prefix, EpisodesAssumption
  <2> QED
    BY <2>3, <2>5 DEF M
<1> QED
  BY <1>1, EpisodesTypeInvariant, PTL DEF EpisodesSpec, EpisodesAreStable

-----------------------------------------------------------------------------

\* The cases of the episode of kind k that starts at lot a.
Members(k, a) == {m \in LotsWith(k) : FirstLot(k)[m] = a}

LEMMA MembersAre ==
    ASSUME EpisodesAssumption, NEW k, NEW l \in LotsWith(k)
    PROVE  LET a == FirstLot(k)[l]
               S == Members(k, a)
           IN  /\ a \in LotsWith(k) /\ FirstLot(k)[a] = a /\ l \in S /\ S \subseteq LotsWith(k)
               /\ Min(S) = a /\ Max(S) \in S
               /\ \A m \in S : a <= m /\ m <= Max(S) /\ m - a <= Span
<1> DEFINE L == LotsWith(k)
           F == FirstLot(k)
           a == F[l]
           S == Members(k, a)
<1>0. L \in SUBSET EpisodeLot /\ L \subseteq Nat /\ Lots \in Nat /\ l \in L
  BY LotsWithType, LotsAreNumbers DEF EpisodesAssumption
<1>1. \A n \in L : n <= Lots
  BY <1>0, LotsAreNumbers
<1>2. F = Grouped(L)
  BY FirstLotIs
<1>3. \A m : m \in S <=> m \in L /\ F[m] = a
  BY DEF Members
<1> HIDE DEF F, S, L
<1>4. \A n \in L : /\ F[n] \in L /\ F[n] <= n /\ n - F[n] <= Span
                   /\ \A m \in L : F[n] <= m /\ m <= n => F[m] = F[n]
  BY <1>0, <1>2, Runs
<1>5. a \in L /\ a <= l /\ F[a] = a
  <2>1. a \in L /\ a <= l
    BY <1>0, <1>4
  <2>2. \A n \in L : n <= n
    BY <1>0
  <2> QED
    BY <1>0, <1>4, <2>1, <2>2
<1>6. S \subseteq Nat /\ S # {} /\ \A m \in S : m <= Lots
  BY <1>0, <1>1, <1>3
<1>7. Max(S) \in S /\ \A m \in S : m <= Max(S)
  BY <1>0, <1>6, MaxIs
<1>8. \A m \in S : a <= m /\ m - a <= Span
  BY <1>3, <1>4
<1>9. Min(S) = a
  BY <1>3, <1>5, <1>6, <1>8, MinIs
<1> QED
  BY <1>0, <1>3, <1>5, <1>7, <1>8, <1>9 DEF S, F, L

\* An episode is determined by its kind and its first lot.
LEMMA EpisodeIs ==
    ASSUME EpisodesAssumption, NEW e \in Episodes
    PROVE  /\ e.kind \in Kind /\ e.first \in LotsWith(e.kind)
           /\ FirstLot(e.kind)[e.first] = e.first
           /\ e = Episode(e.kind, Members(e.kind, e.first))
           /\ e.lots = Members(e.kind, e.first) /\ e.last \in e.lots
           /\ \A m \in e.lots : e.first <= m /\ m <= e.last /\ m - e.first <= Span
<1>1. PICK k \in Kind : \E l \in LotsWith(k) :
          e = Episode(k, {m \in LotsWith(k) : FirstLot(k)[m] = FirstLot(k)[l]})
  BY DEF Episodes
<1>l. PICK l \in LotsWith(k) :
          e = Episode(k, {m \in LotsWith(k) : FirstLot(k)[m] = FirstLot(k)[l]})
  BY <1>1
<1> DEFINE a == FirstLot(k)[l]
           S == Members(k, a)
<1>2. e = Episode(k, S)
  BY <1>l DEF Members
<1>3. /\ a \in LotsWith(k) /\ FirstLot(k)[a] = a /\ l \in S /\ S \subseteq LotsWith(k)
      /\ Min(S) = a /\ Max(S) \in S
      /\ \A m \in S : a <= m /\ m <= Max(S) /\ m - a <= Span
  BY MembersAre
<1> HIDE DEF S, a
<1>4. e.kind = k /\ e.lots = S /\ e.first = a /\ e.last = Max(S)
  BY <1>2, <1>3 DEF Episode
<1> QED
  BY <1>2, <1>3, <1>4 DEF S

LEMMA EpisodeExists ==
    ASSUME NEW k \in Kind, NEW l \in LotsWith(k)
    PROVE  \E e \in Episodes : e.kind = k /\ l \in e.lots
<1> DEFINE S == {m \in LotsWith(k) : FirstLot(k)[m] = FirstLot(k)[l]}
           e == Episode(k, S)
<1>1. e \in Episodes
  BY DEF Episodes
<1>2. l \in S
  OBVIOUS
<1> HIDE DEF S
<1>3. e.kind = k /\ e.lots = S
  BY DEF Episode
<1> HIDE DEF e
<1> QED
  BY <1>1, <1>2, <1>3

LEMMA RunsApart ==
    ASSUME EpisodesAssumption, NEW L \in SUBSET EpisodeLot,
           NEW x \in L, NEW y \in L, Grouped(L)[y] = y, x < y,
           NEW z \in L, Grouped(L)[z] = x
    PROVE  z < y
<1>1. x \in Nat /\ y \in Nat /\ z \in Nat
  BY LotsAreNumbers
<1>2. y <= z => Grouped(L)[y] = x
  BY <1>1, Runs
<1> QED
  BY <1>1, <1>2

LEMMA EpisodesApart ==
    ASSUME EpisodesAssumption, NEW e \in Episodes, NEW f \in Episodes, e.kind = f.kind, e # f
    PROVE  e.first # f.first /\ (e.last < f.first \/ f.last < e.first)
<1> DEFINE L == LotsWith(e.kind)
           F == Grouped(L)
<1>0. L \in SUBSET EpisodeLot /\ L \subseteq Nat /\ FirstLot(e.kind) = F
  BY LotsWithType, LotsAreNumbers, FirstLotIs
<1>1. e.first # f.first
  BY EpisodeIs
<1>2. ASSUME NEW x \in Episodes, NEW y \in Episodes, x.kind = e.kind, y.kind = e.kind,
             x.first < y.first
      PROVE  x.last < y.first
  <2>1. /\ x.first \in L /\ y.first \in L /\ F[y.first] = y.first
        /\ x.last \in L /\ F[x.last] = x.first
    <3>1. /\ x.first \in L /\ x.last \in Members(e.kind, x.first)
          /\ y.first \in L /\ FirstLot(e.kind)[y.first] = y.first
      <4>1. /\ x.first \in LotsWith(x.kind) /\ x.last \in Members(x.kind, x.first)
            /\ y.first \in LotsWith(y.kind) /\ FirstLot(y.kind)[y.first] = y.first
        BY EpisodeIs
      <4> QED
        BY <1>2, <4>1
    <3> QED
      BY <1>0, <3>1 DEF Members
  <2> QED
    BY <1>0, <1>2, <2>1, RunsApart
<1>3. e.first < f.first \/ f.first < e.first
  <2>1. e.first \in Nat /\ f.first \in Nat
    BY <1>0, EpisodeIs
  <2> QED
    BY <1>1, <2>1
<1> QED
  BY <1>1, <1>2, <1>3

LEMMA Partitioned == EpisodesAssumption => EpisodesPartitionCases
<1> SUFFICES ASSUME EpisodesAssumption PROVE EpisodesPartitionCases
  OBVIOUS
<1>1. ASSUME NEW k \in Kind
      PROVE  UNION {e.lots : e \in {x \in Episodes : x.kind = k}} = LotsWith(k)
  <2>1. ASSUME NEW e \in Episodes, e.kind = k PROVE e.lots \subseteq LotsWith(k)
    BY <2>1, EpisodeIs DEF Members
  <2>2. ASSUME NEW l \in LotsWith(k) PROVE \E e \in Episodes : e.kind = k /\ l \in e.lots
    BY EpisodeExists
  <2> QED
    BY <2>1, <2>2
<1>2. \A e, f \in Episodes : e.kind = f.kind /\ e # f => e.last < f.first \/ f.last < e.first
  BY EpisodesApart
<1>3. \A e \in Episodes : e.last - e.first <= Span
  BY EpisodeIs
<1>4. \A e, f \in Episodes : Id(e) = Id(f) => e = f
  BY EpisodesApart DEF Id
<1> QED
  BY <1>1, <1>2, <1>3, <1>4 DEF EpisodesPartitionCases

\* For any cases there may be: every case is in one episode, episodes of a kind do
\* not overlap, none is longer than the span, and an id names one episode
\* (decision/service.py:219-334).
THEOREM EpisodesPartition == EpisodesSpec => []EpisodesPartitionCases
<1>1. EpisodesTypeOK => EpisodesPartitionCases
  BY Partitioned, EpisodesAssumption
<1> QED
  BY <1>1, EpisodesTypeInvariant, PTL

-----------------------------------------------------------------------------

LEMMA KindOrderIs ==
    ASSUME EpisodesAssumption
    PROVE  /\ \A k \in Kind : KindOrder[k] \in Nat
           /\ \A k, i \in Kind : KindOrder[k] = KindOrder[i] => k = i
<1> DEFINE n == Cardinality(Kind)
<1>0. IsFiniteSet(Kind)
  BY DEF EpisodesAssumption
<1>1. n \in Nat /\ ExistsBijection(1..n, Kind)
  BY <1>0, FS_CardinalityType
<1>2. ExistsBijection(Kind, 1..n)
  BY <1>1, Fun_ExistsBijSymmetric
<1>3. \E f \in [Kind -> 1..n] : IsInjective(f)
  BY <1>2 DEF ExistsBijection, Bijection, Injection
<1>4. KindOrder \in [Kind -> 1..n] /\ IsInjective(KindOrder)
  BY <1>3 DEF KindOrder
<1> HIDE DEF n
<1> QED
  BY <1>1, <1>4 DEF IsInjective

\* Whoever ranks the elements of a finite set by how many come before each of them
\* finds at most n among the first n.
LEMMA AtMostN ==
    ASSUME NEW S, IsFiniteSet(S), NEW n \in Nat \ {0},
           \A e \in S : ~MoreRecent(e, e),
           \A e, f \in S : e # f => MoreRecent(e, f) \/ MoreRecent(f, e),
           \A e, f, g \in S : MoreRecent(e, f) /\ MoreRecent(f, g) => MoreRecent(e, g)
    PROVE  MostRecent(S, n) \subseteq S /\ Cardinality(MostRecent(S, n)) \in 0..n
<1> DEFINE Ahead(e) == {f \in S : MoreRecent(f, e)}
           T == MostRecent(S, n)
           rank == [e \in T |-> Cardinality(Ahead(e))]
           ranks == {rank[e] : e \in T}
<1>1. T \subseteq S /\ \A e \in T : Cardinality(Ahead(e)) < n
  BY DEF MostRecent
<1>2. \A e \in S : IsFiniteSet(Ahead(e)) /\ Cardinality(Ahead(e)) \in Nat
  BY FS_Subset, FS_CardinalityType
<1>3. IsFiniteSet(T) /\ Cardinality(T) \in Nat
  BY <1>1, FS_Subset, FS_CardinalityType
<1>4. CASE T = {}
  BY <1>1, <1>4, FS_EmptySet
<1>5. CASE T # {}
  <2>1. ranks \subseteq Nat /\ ranks # {} /\ \A x \in ranks : x <= n
    <3>1. \A e \in T : rank[e] = Cardinality(Ahead(e))
      OBVIOUS
    <3> HIDE DEF rank, T, Ahead
    <3>2. \A e \in T : rank[e] \in Nat /\ rank[e] <= n
      BY <1>1, <1>2, <3>1
    <3> QED
      BY <1>5, <3>2
  <2>2. Max(ranks) \in ranks /\ \A x \in ranks : x <= Max(ranks)
    <3> HIDE DEF ranks
    <3> QED
      BY <2>1, MaxIs
  <2>3. PICK t \in T : rank[t] = Max(ranks)
    BY <2>2
  <2>4. ASSUME NEW f \in T, f # t PROVE MoreRecent(f, t)
    <3> SUFFICES ASSUME MoreRecent(t, f) PROVE FALSE
      BY <1>1, <2>4
    <3>1. Ahead(t) \subseteq Ahead(f) /\ t \in Ahead(f) /\ t \notin Ahead(t)
      BY <1>1
    <3>2. Cardinality(Ahead(t)) <= Cardinality(Ahead(f)) /\ Cardinality(Ahead(t)) # Cardinality(Ahead(f))
      <4> HIDE DEF Ahead
      <4>1. Ahead(t) \in SUBSET Ahead(f) /\ Ahead(t) # Ahead(f) /\ IsFiniteSet(Ahead(f))
        BY <1>1, <1>2, <3>1
      <4> QED
        BY <4>1, FS_Subset
    <3>3. rank[f] <= rank[t]
      BY <2>2, <2>3
    <3>4. rank[f] = Cardinality(Ahead(f)) /\ rank[t] = Cardinality(Ahead(t))
      OBVIOUS
    <3>5. Cardinality(Ahead(f)) \in Nat /\ Cardinality(Ahead(t)) \in Nat
      BY <1>1, <1>2
    <3> HIDE DEF rank, Ahead
    <3> QED
      BY <3>2, <3>3, <3>4, <3>5
  <2>5. T \ {t} \subseteq Ahead(t)
    BY <1>1, <2>4
  <2>6. Cardinality(T \ {t}) = Cardinality(T) - 1
    BY <1>3, <2>3, FS_RemoveElement
  <2>7. Cardinality(T \ {t}) <= Cardinality(Ahead(t))
    BY <1>1, <1>2, <2>5, FS_Subset
  <2>8. Cardinality(Ahead(t)) < n /\ Cardinality(Ahead(t)) \in Nat
    BY <1>1, <1>2
  <2> HIDE DEF T, Ahead
  <2>9. Cardinality(T) \in 0..n
    BY <1>3, <2>6, <2>7, <2>8
  <2> QED
    BY <1>1, <2>9 DEF T
<1> QED
  BY <1>4, <1>5

LEMMA EpisodesFinite == ASSUME EpisodesAssumption PROVE IsFiniteSet(Episodes)
<1> DEFINE f == [e \in Episodes |-> Id(e)]
           S == Kind \X EpisodeLot
<1>1. IsFiniteSet(S)
  <2>1. IsFiniteSet(EpisodeLot)
    BY FS_Interval DEF EpisodeLot, EpisodesAssumption
  <2> QED
    BY <2>1, FS_Product DEF EpisodesAssumption
<1>2. \A e \in Episodes : Id(e) \in S
  BY EpisodeIs DEF Id, LotsWith
<1>3. \A e, g \in Episodes : Id(e) = Id(g) => e = g
  BY EpisodesApart DEF Id
<1>4. f \in Injection(Episodes, S)
  <2>1. f \in [Episodes -> S]
    BY <1>2
  <2>2. IsInjective(f)
    BY <1>3 DEF IsInjective
  <2> QED
    BY <2>1, <2>2 DEF Injection
<1> HIDE DEF S, f
<1> QED
  BY <1>1, <1>4, FS_Injection

\* What the orders compare.
LEMMA EpisodeKeys ==
    ASSUME EpisodesAssumption, EpisodesTypeOK, NEW e \in Episodes
    PROVE  /\ e.kind \in Kind /\ e.last \in Nat /\ e.first \in Nat /\ e.first <= e.last
           /\ e.score \in Int /\ Severity[e.kind] \in Int /\ KindOrder[e.kind] \in Nat
<1>1. /\ e.kind \in Kind /\ e.first \in LotsWith(e.kind) /\ e.last \in LotsWith(e.kind)
      /\ e.first <= e.last
  BY EpisodeIs DEF Members
<1>2. LotsWith(e.kind) \subseteq Nat /\ LotsWith(e.kind) \subseteq EpisodeLot
  BY LotsWithType, LotsAreNumbers
<1>3. e.score = Score(e.kind, e.last)
  <2> DEFINE S == Members(e.kind, e.first)
  <2>1. e = Episode(e.kind, S)
    BY EpisodeIs
  <2> HIDE DEF S
  <2>2. \A k : Episode(k, S).score = Score(k, Episode(k, S).last)
    BY DEF Episode
  <2> QED
    BY <2>1, <2>2
<1>4. e.score \in Int
  BY <1>1, <1>2, <1>3 DEF Score, EpisodesTypeOK, Incident, NoIncident, EpisodesAssumption
<1>5. Severity[e.kind] \in Int /\ KindOrder[e.kind] \in Nat
  BY <1>1, KindOrderIs DEF EpisodesAssumption
<1> QED
  BY <1>1, <1>2, <1>4, <1>5

LEMMA RecentOrder ==
    ASSUME EpisodesAssumption, EpisodesTypeOK
    PROVE  /\ \A e \in Episodes : ~MoreRecent(e, e)
           /\ \A e, f \in Episodes : e # f => MoreRecent(e, f) \/ MoreRecent(f, e)
           /\ \A e, f, g \in Episodes : MoreRecent(e, f) /\ MoreRecent(f, g) => MoreRecent(e, g)
<1>1. ASSUME NEW e \in Episodes, NEW f \in Episodes, e # f
      PROVE  MoreRecent(e, f) \/ MoreRecent(f, e)
  <2>1. e.last = f.last => e.kind # f.kind
    <3> SUFFICES ASSUME e.last = f.last, e.kind = f.kind PROVE FALSE
      OBVIOUS
    <3>1. e.last < f.first \/ f.last < e.first
      BY <1>1, EpisodesApart
    <3>2. /\ e.last \in Nat /\ e.first \in Nat /\ f.first \in Nat /\ f.last \in Nat
          /\ e.first <= e.last /\ f.first <= f.last
      BY EpisodeKeys
    <3> QED
      BY <3>1, <3>2
  <2>2. e.last = f.last => KindOrder[e.kind] # KindOrder[f.kind]
    BY <2>1, EpisodeKeys, KindOrderIs
  <2>3. /\ e.last \in Nat /\ f.last \in Nat
        /\ KindOrder[e.kind] \in Nat /\ KindOrder[f.kind] \in Nat
    BY EpisodeKeys
  <2> QED
    BY <2>2, <2>3 DEF MoreRecent
<1>2. \A e \in Episodes : e.last \in Nat /\ KindOrder[e.kind] \in Nat
  BY EpisodeKeys
<1>3. \A e \in Episodes : ~MoreRecent(e, e)
  BY <1>2 DEF MoreRecent
<1>4. \A e, f, g \in Episodes : MoreRecent(e, f) /\ MoreRecent(f, g) => MoreRecent(e, g)
  BY <1>2 DEF MoreRecent
<1> QED
  BY <1>1, <1>3, <1>4

LEMMA SevereOrder ==
    ASSUME EpisodesAssumption, EpisodesTypeOK, NEW e \in Episodes, NEW f \in Episodes,
           MoreSevere(e, f)
    PROVE  ~MoreSevere(f, e)
<1>1. /\ e.score \in Int /\ Severity[e.kind] \in Int /\ e.last \in Nat /\ KindOrder[e.kind] \in Nat
      /\ f.score \in Int /\ Severity[f.kind] \in Int /\ f.last \in Nat /\ KindOrder[f.kind] \in Nat
  BY EpisodeKeys
<1>2. ~(MoreRecent(e, f) /\ MoreRecent(f, e))
  BY <1>1 DEF MoreRecent
<1> QED
  BY <1>1, <1>2 DEF MoreSevere

LEMMA WorstQueued ==
    ASSUME EpisodesAssumption, EpisodesTypeOK
    PROVE  WorstIsQueued
<1> DEFINE A == Active
           recent == MostRecent(A, Recent)
           severe == MostSevere(A, Recent) \ recent
<1>0. A \subseteq Episodes
  BY DEF Active
<1>1. IsFiniteSet(A)
  BY <1>0, EpisodesFinite, FS_Subset
<1>2. Recent \in Nat /\ Queue \in Nat /\ 0 < Recent /\ Recent < Queue
  BY DEF EpisodesAssumption
<1> HIDE DEF A
<1>3. recent \subseteq A /\ Cardinality(recent) \in 0..Recent
  BY <1>0, <1>1, <1>2, RecentOrder, AtMostN
<1>4. ASSUME NEW e \in A, \A f \in A \ {e} : MoreSevere(e, f), e \notin recent
      PROVE  e \in MostSevere(severe, Queue - Cardinality(recent))
  <2>1. \A f \in A : ~MoreSevere(f, e)
    <3> SUFFICES ASSUME NEW f \in A, MoreSevere(f, e) PROVE FALSE
      OBVIOUS
    <3>1. CASE f = e
      BY <1>0, <3>1, SevereOrder
    <3>2. CASE f # e
      BY <1>0, <1>4, <3>2, SevereOrder
    <3> QED
      BY <3>1, <3>2
  <2>2. \A B : B \subseteq A => {f \in B : MoreSevere(f, e)} = {}
    BY <2>1
  <2>3. Cardinality({}) = 0
    BY FS_EmptySet
  <2>4. e \in severe
    <3>1. Cardinality({f \in A : MoreSevere(f, e)}) < Recent
      <4>1. {f \in A : MoreSevere(f, e)} = {}
        BY <2>2
      <4> QED
        BY <1>2, <2>3, <4>1
    <3> HIDE DEF recent
    <3> QED
      BY <1>4, <3>1 DEF MostSevere
  <2>5. severe \subseteq A
    BY DEF MostSevere
  <2> HIDE DEF severe, recent
  <2>6. Cardinality({f \in severe : MoreSevere(f, e)}) < Queue - Cardinality(recent)
    <3>1. {f \in severe : MoreSevere(f, e)} = {}
      BY <2>2, <2>5
    <3>2. 0 < Queue - Cardinality(recent)
      BY <1>2, <1>3
    <3> QED
      BY <2>3, <3>1, <3>2
  <2> QED
    BY <2>4, <2>6 DEF MostSevere
<1>5. ASSUME NEW e \in A, \A f \in A \ {e} : MoreRecent(e, f)
      PROVE  e \in recent
  <2>1. \A f \in A : ~MoreRecent(f, e)
    BY <1>0, <1>5, RecentOrder
  <2>2. {f \in A : MoreRecent(f, e)} = {}
    BY <2>1
  <2> QED
    BY <1>2, <2>2, FS_EmptySet DEF MostRecent
<1>6. Selected = recent \cup MostSevere(severe, Queue - Cardinality(recent))
  BY DEF Selected, A
<1> HIDE DEF recent, severe
<1>7. \A e \in A : (\A f \in A \ {e} : MoreSevere(e, f)) \/ (\A f \in A \ {e} : MoreRecent(e, f))
                       => e \in Selected
  BY <1>4, <1>5, <1>6
<1> QED
  BY <1>7 DEF WorstIsQueued, A

\* For any number of open incidents and any queue longer than the share of the recent
\* ones: the most severe and the most recent are queued (decision/service.py:432-520).
THEOREM WorstIncidentQueued == EpisodesSpec => []WorstIsQueued
<1>1. EpisodesTypeOK => WorstIsQueued
  BY WorstQueued, EpisodesAssumption
<1> QED
  BY <1>1, EpisodesTypeInvariant, PTL
=============================================================================
