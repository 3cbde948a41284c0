--------------------------- MODULE MCRcaProjection ---------------------------
(* The projection worker, the stores it may write to, and what is made of    *)
(* the graph: a lot's diagnosis, the episodes of the cockpit, the signals    *)
(* and plans of a case. They share no variable here, so a behaviour of the   *)
(* model moves one of them, its part.                                        *)
EXTENDS RcaProjection, GraphStores, LotDiagnosis, IncidentEpisodes, DecisionSignals

VARIABLE part

\* The classes of the detector, by their priority_rank.
Ranked == [k \in Kind |-> IF k = "physical" THEN 3 ELSE 2]

\* Yields a step below the threshold and a step above it.
AroundThreshold == {-1, 1}

allVars == <<vars, graphVars, diagnosisVars, episodeVars, signalVars, part>>

AllInit ==
    /\ part \in {"projection", "stores", "diagnosis", "episodes", "signals"}
    /\ Init /\ GraphInit /\ DiagnosisInit /\ EpisodesInit /\ SignalsInit
    /\ part # "diagnosis" => lot = CHOOSE x \in Drawn : TRUE
    /\ part # "signals" => kind = "physical_excursion" /\ ~spread

Projection(Step) ==
    part = "projection" /\ Step
    /\ UNCHANGED <<graphVars, diagnosisVars, episodeVars, signalVars, part>>
Stores(Step) ==
    part = "stores" /\ Step
    /\ UNCHANGED <<vars, diagnosisVars, episodeVars, signalVars, part>>
Diagnosis(Step) ==
    part = "diagnosis" /\ Step
    /\ UNCHANGED <<vars, graphVars, episodeVars, signalVars, part>>
Episodic(Step) ==
    part = "episodes" /\ Step
    /\ UNCHANGED <<vars, graphVars, diagnosisVars, signalVars, part>>
Signals(Step) ==
    part = "signals" /\ Step
    /\ UNCHANGED <<vars, graphVars, diagnosisVars, episodeVars, part>>

AllNext ==
    \/ Projection(Next) \/ Stores(GraphNext) \/ Diagnosis(DiagnosisNext)
    \/ Episodic(EpisodesNext) \/ Signals(SignalsNext)

AllSpec == AllInit /\ [][AllNext]_allVars /\ WF_allVars(Projection(WorkerStep))

=============================================================================
