----------------------------- MODULE AccessProofs -----------------------------
(***************************************************************************)
(* Theorems about what stands in front of a call: the gateway of the local *)
(* provider, for any requests and slots, the budget of the demo, for any   *)
(* sessions, clients, windows and restarts, the breaker of a dependency,   *)
(* for any threads and thresholds, and the supervisor of the preview, for  *)
(* any windows and any number of requests, waiting threads, failures and   *)
(* crashes.                                                                *)
(***************************************************************************)
EXTENDS NarrationGateway, DemoSession, GuardedDependency, PreviewSupervisor,
        FiniteSetTheorems, TLAPS

HoldingAt == {"holding", "checked", "loading", "sleeping", "sending", "upstream"}

GatewayInv == GatewayTypeOK /\ SlotsAreReturned

LEMMA HoldingFinite ==
    ASSUME GatewayAssumption
    PROVE  IsFiniteSet(Holding) /\ Cardinality(Holding) \in Nat
<1>1. IsFiniteSet(Request) /\ Holding \in SUBSET Request
  BY DEF GatewayAssumption, Holding
<1> QED
  BY <1>1, FS_Subset, FS_CardinalityType

\* The semaphore and the requests that hold a slot add up again when one request takes
\* a slot, gives its own back or keeps what it has.
LEMMA SlotCount ==
    ASSUME GatewayAssumption, GatewayInv, NEW r \in Request, free' >= 0,
           LET given == IF r \in Holding THEN 1 ELSE 0
           IN  \/ Holding' = Holding \cup {r} /\ free' = free + given - 1
               \/ Holding' = Holding \ {r} /\ free' = free + given
    PROVE  SlotsAreReturned' /\ free' \in 0..Slots
<1>1. IsFiniteSet(Holding) /\ Cardinality(Holding) \in Nat
  BY HoldingFinite
<1>2. free \in Nat /\ Slots \in Nat /\ free + Cardinality(Holding) = Slots
  BY DEF GatewayInv, GatewayTypeOK, SlotsAreReturned, GatewayAssumption
<1>3. /\ IsFiniteSet(Holding \cup {r}) /\ IsFiniteSet(Holding \ {r})
      /\ Cardinality(Holding \cup {r}) = IF r \in Holding THEN Cardinality(Holding) ELSE Cardinality(Holding) + 1
      /\ Cardinality(Holding \ {r}) = IF r \in Holding THEN Cardinality(Holding) - 1 ELSE Cardinality(Holding)
  BY <1>1, FS_AddElement, FS_RemoveElement
<1>4. Cardinality(Holding \cup {r}) \in Nat /\ Cardinality(Holding \ {r}) \in Nat
  BY <1>3, FS_CardinalityType
<1>5. free' + Cardinality(Holding') = Slots /\ Cardinality(Holding') \in Nat
  <2>1. CASE Holding' = Holding \cup {r} /\ free' = free + (IF r \in Holding THEN 1 ELSE 0) - 1
    BY <1>1, <1>2, <1>3, <1>4, <2>1
  <2>2. CASE Holding' = Holding \ {r} /\ free' = free + (IF r \in Holding THEN 1 ELSE 0)
    BY <1>1, <1>2, <1>3, <1>4, <2>2
  <2> QED
    BY <2>1, <2>2
<1>6. free' \in 0..Slots
  <2>1. free' \in Int
    BY <1>2
  <2> QED
    BY <1>2, <1>5, <2>1
<1> QED
  BY <1>5, <1>6 DEF SlotsAreReturned

\* One request moves.
LEMMA RequestMoves ==
    ASSUME GatewayAssumption, GatewayInv, NEW r \in Request, NEW new \in RequestState,
           req' = [req EXCEPT ![r] = new],
           free' = free + (IF r \in Holding THEN 1 ELSE 0) - (IF new.at \in HoldingAt THEN 1 ELSE 0), free' >= 0,
           running' \subseteq Request \cup {User}, loaded' \in BOOLEAN, unseen' \subseteq Request
    PROVE  GatewayInv'
<1>1. req \in [Request -> RequestState]
  BY DEF GatewayInv, GatewayTypeOK
<1>2. /\ req' \in [Request -> RequestState] /\ req'[r] = new
      /\ \A x \in Request \ {r} : req'[x] = req[x]
  BY <1>1
<1>3. IF new.at \in HoldingAt THEN Holding' = Holding \cup {r} ELSE Holding' = Holding \ {r}
  BY <1>2 DEF Holding, HoldingAt
<1>4. SlotsAreReturned' /\ free' \in 0..Slots
  <2>1. free \in Nat
    BY DEF GatewayInv, GatewayTypeOK
  <2>2. CASE new.at \in HoldingAt
    BY <1>3, <2>2, SlotCount
  <2>3. CASE new.at \notin HoldingAt
    <3>1. Holding' = Holding \ {r} /\ free' = free + (IF r \in Holding THEN 1 ELSE 0)
      BY <1>3, <2>1, <2>3
    <3> QED
      BY <3>1, SlotCount
  <2> QED
    BY <2>2, <2>3
<1> QED
  BY <1>2, <1>4 DEF GatewayInv, GatewayTypeOK

\* A request is answered.
LEMMA Answers ==
    ASSUME GatewayAssumption, GatewayInv, NEW r \in Request, NEW status \in Status,
           r \in Holding, req' = [req EXCEPT ![r] = [at |-> "done", status |-> status]], free' = free + 1,
           running' \subseteq running, loaded' \in BOOLEAN, unseen' \subseteq Request
    PROVE  GatewayInv'
<1> DEFINE new == [at |-> "done", status |-> status]
<1>1. new \in RequestState /\ new.at = "done" /\ req' = [req EXCEPT ![r] = new]
  BY DEF RequestState
<1>2. free \in Nat /\ running \subseteq Request \cup {User}
  BY DEF GatewayInv, GatewayTypeOK
<1> HIDE DEF new
<1>3. new.at \notin HoldingAt /\ free' >= 0
      /\ free' = free + (IF r \in Holding THEN 1 ELSE 0) - (IF new.at \in HoldingAt THEN 1 ELSE 0)
  BY <1>1, <1>2 DEF HoldingAt
<1> QED
  BY <1>1, <1>2, <1>3, RequestMoves

\* A request comes to another place.
LEMMA Comes ==
    ASSUME GatewayAssumption, GatewayInv, NEW r \in Request, NEW at,
           at \in HoldingAt \cup {"waiting"},
           To(r, at),
           free' = free + (IF r \in Holding THEN 1 ELSE 0) - (IF at \in HoldingAt THEN 1 ELSE 0), free' >= 0,
           running' \subseteq Request \cup {User}, loaded' \in BOOLEAN, unseen' \subseteq Request
    PROVE  GatewayInv'
<1> DEFINE new == [req[r] EXCEPT !.at = at]
<1>1. req \in [Request -> RequestState] /\ req[r] \in RequestState
  BY DEF GatewayInv, GatewayTypeOK
<1>2. new \in RequestState /\ new.at = at
  BY <1>1 DEF RequestState, HoldingAt
<1>3. req' = [req EXCEPT ![r] = new]
  BY <1>1 DEF To
<1> HIDE DEF new
<1> QED
  BY <1>2, <1>3, RequestMoves

\* A request that holds no slot is turned away.
LEMMA TurnedAway ==
    ASSUME GatewayAssumption, GatewayInv, NEW r \in Request, NEW status \in Status, r \notin Holding,
           req' = [req EXCEPT ![r].at = "done", ![r].status = status],
           UNCHANGED <<free, running, loaded, unseen>>
    PROVE  GatewayInv'
<1>1. req \in [Request -> RequestState] /\ req[r] \in RequestState /\ unseen \subseteq Request
      /\ free \in Nat /\ running \subseteq Request \cup {User} /\ loaded \in BOOLEAN
  BY DEF GatewayInv, GatewayTypeOK
<1> DEFINE new == [req[r] EXCEPT !.at = "done", !.status = status]
<1>2. new \in RequestState /\ new.at = "done"
  BY <1>1 DEF RequestState
<1>3. req' = [req EXCEPT ![r] = new]
  BY <1>1
<1> HIDE DEF new
<1>4. new.at \notin HoldingAt /\ free' >= 0
      /\ free' = free + (IF r \in Holding THEN 1 ELSE 0) - (IF new.at \in HoldingAt THEN 1 ELSE 0)
  BY <1>1, <1>2 DEF HoldingAt
<1> QED
  BY <1>1, <1>2, <1>3, <1>4, RequestMoves

LEMMA RequestStep ==
    ASSUME GatewayAssumption, GatewayInv, NEW r \in Request,
           Arrive(r) \/ GatewayStep(r) \/ Collected(r)
    PROVE  GatewayInv'
<1>1. /\ req \in [Request -> RequestState] /\ free \in Nat /\ unseen \subseteq Request
      /\ running \subseteq Request \cup {User} /\ loaded \in BOOLEAN
  BY DEF GatewayInv, GatewayTypeOK
<1>2. r \in Holding <=> req[r].at \in HoldingAt
  BY DEF Holding, HoldingAt
\* A request that keeps its slot.
<1>3. ASSUME NEW at \in HoldingAt, To(r, at), r \in Holding, free' = free,
             running' \subseteq running \cup {r}, loaded' \in BOOLEAN, unseen' \subseteq unseen \cup {r}
      PROVE  GatewayInv'
  <2>1. free' = free + (IF r \in Holding THEN 1 ELSE 0) - (IF at \in HoldingAt THEN 1 ELSE 0) /\ free' >= 0
    BY <1>1, <1>3
  <2>2. running' \subseteq Request \cup {User} /\ unseen' \subseteq Request
    BY <1>1, <1>3
  <2> QED
    BY <1>1, <1>3, <2>1, <2>2, Comes
<1>4. ASSUME NEW status \in Status, Answer(r, status), r \in Holding, running' \subseteq running,
             loaded' \in BOOLEAN, unseen' = unseen
      PROVE  GatewayInv'
  BY <1>1, <1>4, Answers DEF Answer
<1>5. CASE Arrive(r)
  <2>1. r \notin Holding
    BY <1>2, <1>5 DEF Arrive, HoldingAt
  <2>2. CASE To(r, "waiting")
    <3>1. "waiting" \notin HoldingAt /\ UNCHANGED <<free, running, loaded, unseen>>
      BY <1>5 DEF Arrive, HoldingAt
    <3>2. free' = free + (IF r \in Holding THEN 1 ELSE 0) - (IF "waiting" \in HoldingAt THEN 1 ELSE 0)
          /\ free' >= 0
      BY <1>1, <2>1, <3>1
    <3> QED
      BY <1>1, <2>1, <2>2, <3>1, <3>2, Comes
  <2>3. CASE req' = [req EXCEPT ![r].at = "done", ![r].status = "refused"]
    BY <1>5, <2>1, <2>3, TurnedAway DEF Arrive, Status
  <2> QED
    BY <1>5, <2>2, <2>3 DEF Arrive
<1>6. CASE AcquireSlot(r)
  <2>1. r \notin Holding /\ "holding" \in HoldingAt
    BY <1>2, <1>6 DEF AcquireSlot, HoldingAt
  <2>2. free' = free - 1 /\ free' >= 0 /\ To(r, "holding") /\ UNCHANGED <<running, loaded, unseen>>
    BY <1>1, <1>6 DEF AcquireSlot
  <2>3. free' = free + (IF r \in Holding THEN 1 ELSE 0) - (IF "holding" \in HoldingAt THEN 1 ELSE 0)
    BY <1>1, <2>1, <2>2
  <2> QED
    BY <1>1, <2>1, <2>2, <2>3, Comes
<1>7. CASE SlotTimeout(r)
  <2>1. r \notin Holding
    BY <1>2, <1>7 DEF SlotTimeout, HoldingAt
  <2> QED
    BY <1>7, <2>1, TurnedAway DEF SlotTimeout, Status
<1>8. CASE FirstCheck(r)
  BY <1>1, <1>2, <1>3, <1>4, <1>8 DEF FirstCheck, HoldingAt, Status
<1>9. CASE EnsureModel(r)
  BY <1>1, <1>2, <1>3, <1>4, <1>9 DEF EnsureModel, HoldingAt, Status
<1>10. CASE LoadEnds(r)
  BY <1>1, <1>2, <1>3, <1>4, <1>10 DEF LoadEnds, HoldingAt, Status
<1>11. CASE SecondCheck(r)
  <2>1. r \in Holding /\ "sending" \in HoldingAt /\ "busy" \in Status /\ running' = running /\ loaded' = loaded
    BY <1>2, <1>11 DEF SecondCheck, HoldingAt, Status
  <2>2. CASE Answer(r, "busy") /\ unseen' = unseen
    BY <1>1, <1>4, <2>1, <2>2
  <2>3. CASE To(r, "sending") /\ free' = free /\ unseen' \subseteq unseen \cup {r}
    BY <1>1, <1>3, <2>1, <2>3
  <2> QED
    BY <1>11, <2>2, <2>3 DEF SecondCheck
<1>12. CASE Dispatch(r)
  <2>1. r \in Holding /\ "upstream" \in HoldingAt /\ "tooLarge" \in Status
        /\ loaded' = loaded /\ unseen' = unseen
    BY <1>2, <1>12 DEF Dispatch, HoldingAt, Status
  <2>2. CASE Answer(r, "tooLarge") /\ running' = running
    BY <1>1, <1>4, <2>1, <2>2
  <2>3. CASE To(r, "upstream") /\ running' = running \cup {r} /\ free' = free
    BY <1>1, <1>3, <2>1, <2>3
  <2> QED
    BY <1>12, <2>2, <2>3 DEF Dispatch
<1>13. CASE UpstreamEnds(r)
  <2>1. PICK status \in Status : req' = [req EXCEPT ![r] = [at |-> "done", status |-> status]]
    BY <1>13 DEF UpstreamEnds, Status
  <2>2. r \in Holding /\ free' = free + 1 /\ running' \subseteq running /\ loaded' = loaded /\ unseen' = unseen
    BY <1>2, <1>13 DEF UpstreamEnds, HoldingAt
  <2> QED
    BY <1>1, <2>1, <2>2, Answers
<1>14. CASE GiveUp(r)
  BY <1>1, <1>2, <1>4, <1>14 DEF GiveUp, HoldingAt, Status
<1>15. CASE Collected(r)
  <2>1. r \notin Holding /\ req' = [req EXCEPT ![r] = Idle] /\ UNCHANGED <<free, running, loaded, unseen>>
    BY <1>2, <1>15 DEF Collected, HoldingAt
  <2>2. Idle \in RequestState /\ Idle.at \notin HoldingAt
    BY DEF Idle, RequestState, HoldingAt
  <2>3. free' = free + (IF r \in Holding THEN 1 ELSE 0) - (IF Idle.at \in HoldingAt THEN 1 ELSE 0)
        /\ free' >= 0
    BY <1>1, <2>1, <2>2
  <2> QED
    BY <1>1, <2>1, <2>2, <2>3, RequestMoves
<1> QED
  BY <1>5, <1>6, <1>7, <1>8, <1>9, <1>10, <1>11, <1>12, <1>13, <1>14, <1>15 DEF GatewayStep

LEMMA LMStudioKeeps ==
    ASSUME GatewayInv, LMStudio
    PROVE  GatewayInv'
<1>1. /\ free' = free /\ req' = req /\ unseen' = unseen
      /\ running' \subseteq running \cup {User} /\ loaded' \in BOOLEAN
  BY DEF LMStudio, GenerationEnds, UserGenerates, ModelUnloads, GatewayInv, GatewayTypeOK
<1>2. Holding' = Holding
  BY <1>1 DEF Holding
<1> QED
  BY <1>1, <1>2 DEF GatewayInv, GatewayTypeOK, SlotsAreReturned

LEMMA GatewayKeeps == GatewayInv /\ [GatewayNext]_gatewayVars => GatewayInv'
<1> SUFFICES ASSUME GatewayInv, [GatewayNext]_gatewayVars PROVE GatewayInv'
  OBVIOUS
<1>1. CASE UNCHANGED gatewayVars
  BY <1>1 DEF gatewayVars, GatewayInv, GatewayTypeOK, SlotsAreReturned, Holding
<1>2. ASSUME NEW r \in Request, Arrive(r) \/ GatewayStep(r) \/ Collected(r)
      PROVE  GatewayInv'
  BY <1>2, RequestStep, GatewayAssumption
<1> QED
  BY <1>1, <1>2, LMStudioKeeps DEF GatewayNext

\* The gateway's slots add up in every state.
THEOREM GatewayInvariant == GatewaySpec => []GatewayInv
<1>1. GatewayInit => GatewayInv
  <2> SUFFICES ASSUME GatewayInit PROVE GatewayInv
    OBVIOUS
  <2>1. GatewayTypeOK
    BY GatewayAssumption DEF GatewayAssumption, GatewayInit, GatewayTypeOK, Idle, RequestState
  <2>2. Holding = {}
    BY DEF GatewayInit, Holding, Idle
  <2>3. SlotsAreReturned
    BY <2>2, FS_EmptySet, GatewayAssumption DEF GatewayAssumption, SlotsAreReturned, GatewayInit
  <2> QED
    BY <2>1, <2>3 DEF GatewayInv
<1> QED
  BY <1>1, GatewayKeeps, PTL DEF GatewaySpec

\* The gateway is well typed: the semaphore stays within its slots (gateway.py:262-312).
THEOREM GatewayTypeCorrect == GatewaySpec => []GatewayTypeOK
<1>1. GatewayInv => GatewayTypeOK
  BY DEF GatewayInv
<1> QED
  BY <1>1, GatewayInvariant, PTL

\* Every way out of a request gives back the slot it took, and no other
\* (gateway.py:274-312).
THEOREM SlotsReturned == GatewaySpec => []SlotsAreReturned
<1>1. GatewayInv => SlotsAreReturned
  BY DEF GatewayInv
<1> QED
  BY <1>1, GatewayInvariant, PTL

\* Requests whose generation runs, or will as soon as they send it, and which did not
\* miss another one.
Generating == ({r \in Request : req[r].at = "sending"} \cup (running \cap Request)) \ unseen

GeneratingFits == Cardinality(Generating) <= Slots

LEMMA GeneratingFinite ==
    ASSUME GatewayAssumption, NEW S, S \subseteq Request
    PROVE  IsFiniteSet(S) /\ Cardinality(S) \in Nat
BY FS_Subset, FS_CardinalityType DEF GatewayAssumption

\* A set of generations no larger than another that fits, fits.
LEMMA Fewer ==
    ASSUME GatewayAssumption, NEW S, NEW T, T \subseteq S, S \subseteq Request, Cardinality(S) <= Slots
    PROVE  Cardinality(T) <= Slots
<1>1. IsFiniteSet(S) /\ Cardinality(S) \in Nat /\ Cardinality(T) \in Nat
  BY GeneratingFinite
<1>2. Cardinality(T) <= Cardinality(S)
  BY <1>1, FS_Subset
<1> QED
  BY <1>1, <1>2 DEF GatewayAssumption

\* While a request sends its generation without having missed one, either nothing else
\* runs, and all that generate hold a slot, or it is not counted.
LEMMA GeneratingStep == GatewayInv /\ GeneratingFits /\ [GatewayNext]_gatewayVars => GeneratingFits'
<1> SUFFICES ASSUME GatewayInv, GeneratingFits, [GatewayNext]_gatewayVars PROVE GeneratingFits'
  OBVIOUS
<1>0. /\ req \in [Request -> RequestState] /\ GatewayAssumption
      /\ GatewayInv' /\ Generating \subseteq Request /\ Generating' \subseteq Request
  BY GatewayKeeps, GatewayAssumption DEF GatewayInv, GatewayTypeOK, Generating
<1>fewer. ASSUME Generating' \subseteq Generating PROVE GeneratingFits'
  <2>1. Cardinality(Generating') <= Slots
    BY <1>0, <1>fewer, Fewer DEF GeneratingFits
  <2> QED
    BY <2>1 DEF GeneratingFits
<1>1. CASE UNCHANGED gatewayVars
  BY <1>1, <1>fewer DEF gatewayVars, Generating
<1>2. CASE LMStudio
  <2>1. /\ req' = req /\ unseen' = unseen /\ running' \cap Request \subseteq running \cap Request
    BY <1>0, <1>2 DEF LMStudio, GenerationEnds, UserGenerates, ModelUnloads, GatewayAssumption
  <2> QED
    BY <1>fewer, <2>1 DEF Generating
<1>3. ASSUME NEW r \in Request, SecondCheck(r) PROVE GeneratingFits'
  <2>1. running' = running /\ \A x \in Request \ {r} : req'[x] = req[x]
    BY <1>0, <1>3 DEF SecondCheck, Answer, To
  <2>2. CASE Answer(r, "busy") /\ unseen' = unseen
    <3>1. req'[r].at = "done"
      BY <1>0, <2>2 DEF Answer
    <3> QED
      BY <1>fewer, <2>1, <2>2, <3>1 DEF Generating
  <2>3. CASE running # {} /\ unseen' = unseen \cup {r}
    BY <1>fewer, <2>1, <2>3 DEF Generating
  <2>4. CASE running = {}
    <3>1. Generating' \subseteq Holding'
      BY <2>1, <2>4 DEF Generating, Holding
    <3>2. /\ IsFiniteSet(Holding') /\ Cardinality(Holding') \in Nat /\ Holding' \subseteq Request
          /\ free' \in Nat /\ free' + Cardinality(Holding') = Slots
      <4>1. Holding' \subseteq Request
        BY DEF Holding
      <4> QED
        BY <1>0, <4>1, GeneratingFinite DEF GatewayInv, GatewayTypeOK, SlotsAreReturned
    <3>3. Cardinality(Holding') <= Slots
      BY <3>2
    <3>4. Cardinality(Generating') <= Slots
      BY <1>0, <3>1, <3>2, <3>3, Fewer
    <3> QED
      BY <3>4 DEF GeneratingFits
  <2> QED
    BY <1>3, <2>2, <2>3, <2>4 DEF SecondCheck
<1>4. ASSUME NEW r \in Request, Dispatch(r) PROVE GeneratingFits'
  <2>1. /\ \A x \in Request \ {r} : req'[x] = req[x]
        /\ req'[r].at # "sending" /\ req[r].at = "sending" /\ unseen' = unseen
        /\ running' \subseteq running \cup {r}
    BY <1>0, <1>4 DEF Dispatch, Answer, To, RequestState
  <2> QED
    BY <1>fewer, <2>1 DEF Generating
<1>5. ASSUME NEW r \in Request, Arrive(r) \/ Collected(r) \/ (GatewayStep(r) /\ ~SecondCheck(r) /\ ~Dispatch(r))
      PROVE  GeneratingFits'
  <2>1. /\ \A x \in Request \ {r} : req'[x] = req[x]
        /\ req'[r].at # "sending" /\ unseen' = unseen /\ running' \subseteq running
    <3>1. CASE Arrive(r) \/ Collected(r)
      BY <1>0, <3>1 DEF Arrive, Collected, To, RequestState, Idle
    <3>2. CASE AcquireSlot(r) \/ SlotTimeout(r) \/ FirstCheck(r)
      BY <1>0, <3>2 DEF AcquireSlot, SlotTimeout, FirstCheck, Answer, To, RequestState
    <3>3. CASE EnsureModel(r) \/ LoadEnds(r)
      BY <1>0, <3>3 DEF EnsureModel, LoadEnds, Answer, To, RequestState
    <3>4. CASE UpstreamEnds(r) \/ GiveUp(r)
      BY <1>0, <3>4 DEF UpstreamEnds, GiveUp, Answer, RequestState
    <3> QED
      BY <1>5, <3>1, <3>2, <3>3, <3>4 DEF GatewayStep
  <2> QED
    BY <1>fewer, <2>1 DEF Generating
<1> QED
  BY <1>1, <1>2, <1>3, <1>4, <1>5 DEF GatewayNext

\* No more generations of the gateway run at once than it has slots, one a timed-out
\* request left behind included, but for those sent where the second check missed
\* another (gateway.py:178-180, 274-312).
THEOREM GenerationsFit == GatewaySpec => []GenerationsFitSlots
<1>1. GatewayInit => GeneratingFits
  <2> SUFFICES ASSUME GatewayInit PROVE GeneratingFits
    OBVIOUS
  <2>1. Generating = {}
    BY DEF GatewayInit, Generating, Idle
  <2> QED
    BY <2>1, FS_EmptySet, GatewayAssumption DEF GatewayAssumption, GeneratingFits
<1>2. GeneratingFits => GenerationsFitSlots
  <2> SUFFICES ASSUME GeneratingFits PROVE GenerationsFitSlots
    OBVIOUS
  <2>1. (running \cap Request) \ unseen \subseteq Generating /\ Generating \subseteq Request
    BY DEF Generating
  <2> QED
    BY <2>1, Fewer, GatewayAssumption DEF GeneratingFits, GenerationsFitSlots
<1> QED
  BY <1>1, <1>2, GatewayInvariant, GeneratingStep, PTL DEF GatewaySpec

-----------------------------------------------------------------------------
(* The budget of the demo.                                                   *)

\* A token is issued before anything is counted for it.
Unissued == \A s \in Session : expires[s] = 0 => sessions[s].count = 0 /\ spent[s] = 0

\* A request has a token that was issued before the request read the clock.
Timely ==
    \A h \in Handler : handler[h].at # "idle" =>
        LET s == handler[h].session
        IN  /\ expires[s] > 0
            /\ handler[h].at = "timed" =>
                  expires[s] - Ttl <= handler[h].now /\ handler[h].now <= instant

\* The window of a session does not begin before its token.
WindowInLife ==
    \A s \in Session :
        /\ expires[s] > 0 => expires[s] - Ttl <= instant
        /\ sessions[s].count <= PerSession
        /\ sessions[s].count > 0 => expires[s] - Ttl <= sessions[s].from

\* What was spent before this life of the process, and what this life has counted.
Counted ==
    \A s \in Session : instant < expires[s] => spent[s] <= PerSession * restarts + sessions[s].count

DemoInv == DemoTypeOK /\ Unissued /\ Timely /\ WindowInLife /\ Counted /\ TokenBuysItsLimit

LEMMA Limits ==
    ASSUME NEW n \in Nat, DemoAssumption
    PROVE  /\ PerSession * n \in Nat /\ PerSession * (n + 1) = PerSession * n + PerSession
           /\ PerSession \in Nat \ {0} /\ Ttl \in Nat \ {0} /\ Hour \in Nat \ {0}
<1>1. PerSession \in Nat \ {0} /\ Ttl \in Nat \ {0} /\ Hour \in Nat \ {0}
  BY DEF DemoAssumption
<1>2. PerSession * n \in Nat /\ PerSession * (n + 1) = PerSession * n + PerSession
  BY <1>1
<1> QED
  BY <1>1, <1>2

LEMMA OpenWindow ==
    ASSUME NEW w \in Window, NEW now \in Nat, NEW length \in Nat
    PROVE  /\ Open(w, now, length) \in Window /\ OneMore(Open(w, now, length)) \in Window
           /\ OneMore(Open(w, now, length)).count = Open(w, now, length).count + 1
           /\ OneMore(Open(w, now, length)).from = Open(w, now, length).from
           /\ \/ Open(w, now, length) = w /\ now - w.from < length
              \/ Open(w, now, length).from = now /\ Open(w, now, length).count = 0
<1> DEFINE o == Open(w, now, length)
<1>1. o \in Window /\ (\/ o = w /\ now - w.from < length
                       \/ o.from = now /\ o.count = 0)
  BY DEF Open, Window
<1> HIDE DEF o
<1>2. OneMore(o) \in Window /\ OneMore(o).count = o.count + 1 /\ OneMore(o).from = o.from
  BY <1>1 DEF OneMore, Window
<1> QED
  BY <1>1, <1>2 DEF o

LEMMA ConsumeKeeps ==
    ASSUME DemoAssumption, DemoInv, NEW h \in Handler, Consume(h)
    PROVE  DemoInv'
<1> DEFINE s == handler[h].session
           a == handler[h].client
           now == handler[h].now
           window == Open(sessions[s], now, Ttl)
           hourly == Open(clients[a], now, Hour)
           accepted == window.count < PerSession /\ hourly.count < PerClient
<1>1. /\ handler[h].at = "timed" /\ handler' = [handler EXCEPT ![h] = Resting]
      /\ UNCHANGED <<instant, expires, restarts>>
      /\ IF accepted
         THEN /\ sessions' = [sessions EXCEPT ![s] = OneMore(window)]
              /\ clients' = [clients EXCEPT ![a] = OneMore(hourly)]
              /\ spent' = [spent EXCEPT ![s] = @ + IF instant < expires[s] THEN 1 ELSE 0]
         ELSE UNCHANGED <<sessions, clients, spent>>
  BY DEF Consume
<1>2. /\ handler \in [Handler -> Handling] /\ s \in Session /\ a \in Client /\ now \in Nat
      /\ sessions \in [Session -> Window] /\ clients \in [Client -> Window]
      /\ spent \in [Session -> Nat] /\ expires \in [Session -> Nat]
      /\ instant \in Nat /\ restarts \in Nat
  BY <1>1 DEF DemoInv, DemoTypeOK, Handling
<1>3. expires[s] > 0 /\ expires[s] - Ttl <= now /\ now <= instant
  BY <1>1 DEF DemoInv, Timely
<1> DEFINE one == IF instant < expires[s] THEN 1 ELSE 0
           limit == PerSession * restarts
<1>4. /\ PerSession \in Nat \ {0} /\ Ttl \in Nat \ {0} /\ Hour \in Nat \ {0} /\ limit \in Nat
      /\ PerSession * (restarts + 1) = limit + PerSession
  BY <1>2, Limits
<1>5. /\ window \in Window /\ OneMore(window) \in Window /\ OneMore(window).count = window.count + 1
      /\ OneMore(window).from = window.from
      /\ \/ window = sessions[s] /\ now - sessions[s].from < Ttl
         \/ window.from = now /\ window.count = 0
  <2>1. sessions[s] \in Window /\ now \in Nat /\ Ttl \in Nat
    BY <1>2, <1>4
  <2> QED
    BY ONLY <2>1, OpenWindow
<1>6. OneMore(hourly) \in Window
  BY <1>2, <1>4, OpenWindow
<1> HIDE DEF s, a, now, window, hourly, limit
<1>7. Timely'
  <2>1. \A i \in Handler : handler'[i].at # "idle" => handler'[i] = handler[i]
    BY <1>1, <1>2 DEF Resting
  <2> QED
    BY <1>1, <2>1 DEF DemoInv, Timely
<1>8. handler' \in [Handler -> Handling]
      /\ \A i \in Handler : handler'[i].at # "idle" => handler'[i].session \in Session /\ handler'[i].client \in Client
  <2>1. Resting \in Handling /\ Resting.at = "idle"
    BY DEF Resting, Handling
  <2> QED
    BY <1>1, <1>2, <2>1 DEF DemoInv, DemoTypeOK
<1>9. CASE ~accepted
  <2>1. UNCHANGED <<sessions, clients, spent, instant, expires, restarts>>
    BY <1>1, <1>9
  <2> QED
    BY <1>7, <1>8, <2>1
       DEF DemoInv, DemoTypeOK, Unissued, WindowInLife, Counted, TokenBuysItsLimit
<1>10. CASE accepted
  <2>1. /\ sessions' = [sessions EXCEPT ![s] = OneMore(window)]
        /\ clients' = [clients EXCEPT ![a] = OneMore(hourly)]
        /\ spent' = [spent EXCEPT ![s] = @ + one]
        /\ window.count < PerSession
    BY <1>1, <1>10
  <2>2. one \in {0, 1} /\ (one = 1 <=> instant < expires[s])
    OBVIOUS
  <2> HIDE DEF one
  <2>3. /\ sessions' \in [Session -> Window] /\ clients' \in [Client -> Window] /\ spent' \in [Session -> Nat]
        /\ sessions'[s].count = window.count + 1 /\ sessions'[s].from = window.from
        /\ spent'[s] = spent[s] + one
        /\ \A x \in Session \ {s} : sessions'[x] = sessions[x] /\ spent'[x] = spent[x]
    BY <1>2, <1>5, <1>6, <2>1, <2>2
  <2>4. DemoTypeOK'
    BY <1>1, <1>8, <2>3 DEF DemoInv, DemoTypeOK
  <2>5. Unissued'
    BY <1>1, <1>3, <2>3 DEF DemoInv, Unissued
  <2>6. window.count \in Nat /\ window.from \in Nat /\ sessions[s].count \in Nat /\ sessions[s].from \in Nat
        /\ spent[s] \in Nat /\ expires[s] \in Nat
    BY <1>2, <1>5 DEF Window
  <2>7. WindowInLife'
    <3>1. window.count + 1 <= PerSession /\ expires[s] - Ttl <= instant
      BY <1>2, <1>3, <1>4, <2>1, <2>6
    <3>2. expires[s] - Ttl <= window.from
      <4>1. CASE window.from = now
        BY <1>3, <4>1
      <4>2. CASE window = sessions[s] /\ sessions[s].count > 0
        BY <1>2, <4>2 DEF DemoInv, WindowInLife
      <4>3. CASE window = sessions[s] /\ sessions[s].count = 0 /\ window.from # now
        <5>1. window.from = now
          BY <4>3 DEF window, Open
        <5> QED
          BY <4>3, <5>1
      <4> QED
        BY <1>5, <2>6, <4>1, <4>2, <4>3
    <3> QED
      BY <1>1, <1>2, <2>3, <3>1, <3>2 DEF DemoInv, WindowInLife
  <2>8. instant < expires[s] => spent[s] + 1 <= limit + window.count + 1
    <3> SUFFICES ASSUME instant < expires[s] PROVE spent[s] <= limit + window.count
      BY <1>2, <1>4, <2>6
    <3>1. spent[s] <= limit + sessions[s].count
      BY <1>2 DEF DemoInv, Counted, limit
    <3>2. CASE window = sessions[s]
      BY <3>1, <3>2
    <3>3. CASE window.from = now /\ window.count = 0 /\ window # sessions[s]
      <4>1. sessions[s].count = 0 \/ now - sessions[s].from >= Ttl
        BY <3>3 DEF window, Open
      <4>2. CASE sessions[s].count = 0
        BY <3>1, <3>3, <4>2
      <4>3. CASE sessions[s].count > 0
        <5>1. expires[s] - Ttl <= sessions[s].from
          BY <1>2, <4>3 DEF DemoInv, WindowInLife
        <5> QED
          BY <1>2, <1>3, <1>4, <2>6, <4>1, <4>3, <5>1
      <4> QED
        BY <2>6, <4>2, <4>3
    <3> QED
      BY <1>5, <3>2, <3>3
  <2>9. Counted'
    BY <1>1, <1>2, <2>2, <2>3, <2>6, <2>8, <1>4 DEF DemoInv, Counted, limit
  <2>10. TokenBuysItsLimit'
    <3>1. spent'[s] <= limit + PerSession
      <4>1. CASE one = 1
        BY <1>4, <2>1, <2>2, <2>3, <2>6, <2>8, <4>1
      <4>2. CASE one = 0
        <5>1. spent[s] <= limit + PerSession
          BY <1>2, <1>4 DEF DemoInv, TokenBuysItsLimit
        <5> QED
          BY <2>3, <2>6, <4>2, <5>1
      <4> QED
        BY <2>2, <4>1, <4>2
    <3> QED
      BY <1>1, <1>4, <2>3, <3>1 DEF DemoInv, TokenBuysItsLimit
  <2> QED
    BY <1>7, <2>4, <2>5, <2>7, <2>9, <2>10 DEF DemoInv
<1> QED
  BY <1>9, <1>10

LEMMA RestartKeeps ==
    ASSUME DemoAssumption, DemoInv, Restart
    PROVE  DemoInv'
<1>1. /\ restarts < MaxRestarts /\ restarts' = restarts + 1
      /\ sessions' = [s \in Session |-> Unused] /\ clients' = [a \in Client |-> Unused]
      /\ handler' = [h \in Handler |-> Resting] /\ UNCHANGED <<instant, expires, spent>>
  BY DEF Restart
<1>2. restarts \in Nat /\ restarts' \in 0..MaxRestarts
  BY <1>1 DEF DemoInv, DemoTypeOK, DemoAssumption
<1>3. Unused \in Window /\ Unused.count = 0 /\ Resting \in Handling /\ Resting.at = "idle"
  BY DEF Unused, Window, Resting, Handling
<1>4. DemoTypeOK'
  BY <1>1, <1>2, <1>3 DEF DemoInv, DemoTypeOK
<1>5. Unissued' /\ Timely'
  BY <1>1, <1>3 DEF DemoInv, Unissued, Timely
<1>6. PerSession \in Nat \ {0} /\ PerSession * restarts \in Nat
      /\ PerSession * restarts' = PerSession * restarts + PerSession
      /\ PerSession * (restarts' + 1) = PerSession * restarts + PerSession + PerSession
      /\ PerSession * (restarts + 1) = PerSession * restarts + PerSession
  BY <1>1, <1>2, Limits
<1>7. WindowInLife'
  BY <1>1, <1>3, <1>6 DEF DemoInv, WindowInLife
<1> DEFINE limit == PerSession * restarts
<1>8. \A s \in Session : spent[s] \in Nat /\ spent[s] <= limit + PerSession
  BY <1>6 DEF DemoInv, DemoTypeOK, TokenBuysItsLimit
<1>9. /\ limit \in Nat /\ PerSession * restarts' = limit + PerSession
      /\ PerSession * (restarts' + 1) = limit + PerSession + PerSession
  BY <1>6
<1> HIDE DEF limit
<1>10. Counted' /\ TokenBuysItsLimit'
  BY <1>1, <1>3, <1>6, <1>8, <1>9 DEF Counted, TokenBuysItsLimit
<1> QED
  BY <1>4, <1>5, <1>7, <1>10 DEF DemoInv

LEMMA OtherDemoStepsKeep ==
    ASSUME DemoAssumption, DemoInv,
           \/ \E s \in Session : Issue(s)
           \/ \E h \in Handler : ReadClock(h) \/ \E s \in Session, a \in Client : Verify(h, s, a)
           \/ Passes
           \/ UNCHANGED demoVars
    PROVE  DemoInv'
<1>1. /\ instant \in Nat /\ expires \in [Session -> Nat] /\ handler \in [Handler -> Handling]
      /\ \A s \in Session : sessions[s].count \in Nat /\ sessions[s].from \in Nat
  BY DEF DemoInv, DemoTypeOK, Window
<1>2. Ttl \in Nat \ {0}
  BY DEF DemoAssumption
<1>3. ASSUME NEW s \in Session, Issue(s)
      PROVE  DemoInv'
  <2>1. /\ expires[s] = 0 /\ expires' = [expires EXCEPT ![s] = instant + Ttl]
        /\ UNCHANGED <<instant, sessions, clients, handler, restarts, spent>>
    BY <1>3 DEF Issue
  <2>2. /\ expires' \in [Session -> Nat] /\ expires'[s] = instant + Ttl /\ expires'[s] > 0
        /\ \A x \in Session \ {s} : expires'[x] = expires[x]
    BY <1>1, <1>2, <2>1
  <2>3. sessions[s].count = 0 /\ spent[s] = 0
    BY <2>1 DEF DemoInv, Unissued
  <2>4. \A h \in Handler : handler[h].at # "idle" => handler[h].session \in Session \ {s}
    BY <2>1 DEF DemoInv, DemoTypeOK, Timely
  <2>5. DemoTypeOK' /\ Unissued' /\ TokenBuysItsLimit'
    BY <2>1, <2>2 DEF DemoInv, DemoTypeOK, Unissued, TokenBuysItsLimit
  <2>6. Timely'
    BY <2>1, <2>2, <2>4 DEF DemoInv, Timely
  <2>7. WindowInLife'
    BY <1>1, <1>2, <2>1, <2>2, <2>3 DEF DemoInv, WindowInLife
  <2>8. Counted'
    <3>1. restarts \in Nat /\ PerSession * restarts \in Nat
      BY Limits DEF DemoInv, DemoTypeOK
    <3> DEFINE limit == PerSession * restarts
    <3>2. limit \in Nat /\ \A x \in Session : instant < expires[x] => spent[x] <= limit + sessions[x].count
      BY <3>1 DEF DemoInv, Counted
    <3> HIDE DEF limit
    <3>3. \A x \in Session : instant < expires'[x] => spent[x] <= limit + sessions[x].count
      BY <2>2, <2>3, <3>2
    <3> QED
      BY <2>1, <3>3 DEF Counted, limit
  <2> QED
    BY <2>5, <2>6, <2>7, <2>8 DEF DemoInv
<1>4. ASSUME NEW h \in Handler, NEW new \in Handling, handler' = [handler EXCEPT ![h] = new],
             UNCHANGED <<instant, expires, sessions, clients, restarts, spent>>,
             new.session \in Session, new.client \in Client, expires[new.session] > 0,
             new.at = "timed" => expires[new.session] - Ttl <= new.now /\ new.now <= instant
      PROVE  DemoInv'
  <2>1. handler' \in [Handler -> Handling] /\ handler'[h] = new
        /\ \A i \in Handler \ {h} : handler'[i] = handler[i]
    BY <1>1, <1>4
  <2>2. DemoTypeOK'
    BY <1>4, <2>1 DEF DemoInv, DemoTypeOK
  <2>3. Timely'
    BY <1>4, <2>1 DEF DemoInv, Timely
  <2> QED
    BY <1>4, <2>2, <2>3 DEF DemoInv, Unissued, WindowInLife, Counted, TokenBuysItsLimit
<1>5. ASSUME NEW h \in Handler, ReadClock(h)
      PROVE  DemoInv'
  <2> DEFINE new == [handler[h] EXCEPT !.at = "timed", !.now = instant]
  <2>1. handler[h].at = "verified" /\ handler[h] \in Handling
    BY <1>1, <1>5 DEF ReadClock
  <2>2. /\ new \in Handling /\ new.session = handler[h].session /\ new.client = handler[h].client
        /\ new.now = instant /\ new.at = "timed"
    BY <1>1, <2>1 DEF Handling
  <2>3. /\ handler' = [handler EXCEPT ![h] = new]
        /\ UNCHANGED <<instant, expires, sessions, clients, restarts, spent>>
    BY <1>1, <1>5 DEF ReadClock
  <2> HIDE DEF new
  <2>4. new.session \in Session /\ new.client \in Client /\ expires[new.session] > 0
    BY <2>1, <2>2 DEF DemoInv, DemoTypeOK, Timely
  <2>5. expires[new.session] - Ttl <= instant
    BY <2>4 DEF DemoInv, WindowInLife
  <2>6. expires[new.session] - Ttl <= new.now /\ new.now <= instant
    BY <1>1, <2>2, <2>5
  <2> QED
    BY <1>4, <2>2, <2>3, <2>4, <2>6
<1>6. ASSUME NEW h \in Handler, NEW s \in Session, NEW a \in Client, Verify(h, s, a)
      PROVE  DemoInv'
  <2> DEFINE new == [Resting EXCEPT !.at = "verified", !.session = s, !.client = a]
  <2>1. Resting \in Handling
    BY DEF Resting, Handling
  <2>2. new \in Handling /\ new.session = s /\ new.client = a /\ new.at = "verified"
    BY <2>1 DEF Handling
  <2>3. /\ handler' = [handler EXCEPT ![h] = new] /\ expires[s] > 0
        /\ UNCHANGED <<instant, expires, sessions, clients, restarts, spent>>
    <3>1. expires[s] > instant /\ expires[s] \in Nat
      BY <1>1, <1>6 DEF Verify
    <3>2. handler' = [handler EXCEPT ![h] = new]
      BY <1>6 DEF Verify
    <3>3. UNCHANGED <<instant, expires, sessions, clients, restarts, spent>>
      BY <1>6 DEF Verify
    <3>4. expires[s] > 0
      BY <1>1, <3>1
    <3> QED
      BY <3>2, <3>3, <3>4
  <2> HIDE DEF new
  <2> QED
    BY <1>4, <2>2, <2>3
<1>7. CASE Passes
  <2>1. instant' = instant + 1 /\ UNCHANGED <<expires, sessions, clients, handler, restarts, spent>>
    BY <1>7 DEF Passes
  <2>2. DemoTypeOK' /\ Unissued' /\ TokenBuysItsLimit'
    BY <1>1, <2>1 DEF DemoInv, DemoTypeOK, Unissued, TokenBuysItsLimit
  <2>3. Timely'
    BY <1>1, <2>1 DEF DemoInv, DemoTypeOK, Handling, Timely
  <2>4. WindowInLife'
    BY <1>1, <1>2, <2>1 DEF DemoInv, WindowInLife
  <2>5. Counted'
    BY <1>1, <2>1 DEF DemoInv, Counted
  <2> QED
    BY <2>2, <2>3, <2>4, <2>5 DEF DemoInv
<1>8. CASE UNCHANGED demoVars
  BY <1>8 DEF demoVars, DemoInv, DemoTypeOK, Unissued, Timely, WindowInLife, Counted, TokenBuysItsLimit
<1> QED
  BY <1>3, <1>5, <1>6, <1>7, <1>8

\* The inductive invariant of the demo's budget holds in every state.
THEOREM DemoInvariant == DemoSpec => []DemoInv
<1>1. DemoInit => DemoInv
  <2> SUFFICES ASSUME DemoInit PROVE DemoInv
    OBVIOUS
  <2>1. /\ Unused \in Window /\ Unused.count = 0 /\ Resting \in Handling /\ Resting.at = "idle"
        /\ MaxRestarts \in Nat
    BY DemoAssumption DEF Unused, Window, Resting, Handling, DemoAssumption
  <2>2. DemoTypeOK
    BY <2>1 DEF DemoInit, DemoTypeOK
  <2>3. Unissued /\ Timely
    BY <2>1 DEF DemoInit, Unissued, Timely
  <2>4. PerSession \in Nat /\ PerSession * 0 = 0 /\ PerSession * (0 + 1) = PerSession
    BY DemoAssumption, Limits
  <2>5. WindowInLife /\ Counted /\ TokenBuysItsLimit
    BY <2>1, <2>4 DEF DemoInit, WindowInLife, Counted, TokenBuysItsLimit
  <2> QED
    BY <2>2, <2>3, <2>5 DEF DemoInv
<1>2. DemoInv /\ [DemoNext]_demoVars => DemoInv'
  BY ConsumeKeeps, RestartKeeps, OtherDemoStepsKeep, DemoAssumption DEF DemoNext
<1> QED
  BY <1>1, <1>2, PTL DEF DemoSpec

\* The budget of the demo is well typed (demo.py:35-63).
THEOREM DemoTypeCorrect == DemoSpec => []DemoTypeOK
<1>1. DemoInv => DemoTypeOK
  BY DEF DemoInv
<1> QED
  BY <1>1, DemoInvariant, PTL

\* A token buys no more than its limit in each life of the process (demo.py:91-121).
THEOREM TokensBuyTheirLimit == DemoSpec => []TokenBuysItsLimit
<1>1. DemoInv => TokenBuysItsLimit
  BY DEF DemoInv
<1> QED
  BY <1>1, DemoInvariant, PTL

-----------------------------------------------------------------------------
(* The breaker of a dependency.                                              *)

GuardSpec == GuardInit /\ [][GuardNext]_guardVars

GuardInv == GuardTypeOK /\ OpenBreakerRecovers

\* A thread that is not about to set the breaker's time or close it moves, and the
\* breaker is not opened and keeps its time, or is opened by a thread that goes on to
\* set the time.
LEMMA RecoversStep ==
    ASSUME GuardInv, NEW t \in Thread, NEW next \in Statement, thread' = [thread EXCEPT ![t] = next],
           thread[t] \in {"stamp", "close"} =>
               breaker'.state # "open" \/ breaker'.openedAt # Unset,
           \/ breaker'.state # "open" \/ breaker'.openedAt # Unset \/ next \in {"stamp", "close"}
           \/ breaker'.state = breaker.state /\ breaker'.openedAt = breaker.openedAt
    PROVE  OpenBreakerRecovers'
<1> SUFFICES ASSUME breaker'.state = "open", breaker'.openedAt = Unset
             PROVE  \E u \in Thread : thread'[u] \in {"stamp", "close"}
  BY DEF OpenBreakerRecovers
<1>1. thread \in [Thread -> Statement]
  BY DEF GuardInv, GuardTypeOK
<1>2. CASE next \in {"stamp", "close"}
  BY <1>1, <1>2
<1>3. CASE next \notin {"stamp", "close"}
  <2>1. breaker.state = "open" /\ breaker.openedAt = Unset /\ thread[t] \notin {"stamp", "close"}
    BY <1>3
  <2>2. PICK u \in Thread : thread[u] \in {"stamp", "close"}
    BY <2>1 DEF GuardInv, OpenBreakerRecovers
  <2>3. u # t /\ thread'[u] = thread[u]
    BY <1>1, <2>1, <2>2
  <2> QED
    BY <2>2, <2>3
<1> QED
  BY <1>2, <1>3

\* Steps that leave the breaker as it is.
LEMMA ThreadMoves ==
    ASSUME GuardInv, NEW t \in Thread, NEW at \in Statement \ {"stamp", "close"}, NEW next \in Statement,
           Goes(t, at, next), breaker' = breaker, ticks' = ticks, failed' \in 0..MaxFailed
    PROVE  GuardInv'
<1>1. thread[t] = at /\ thread' = [thread EXCEPT ![t] = next]
  BY DEF Goes
<1>2. OpenBreakerRecovers'
  BY <1>1, RecoversStep
<1>3. GuardTypeOK'
  BY <1>1 DEF GuardInv, GuardTypeOK
<1> QED
  BY <1>2, <1>3 DEF GuardInv

\* Steps that set a field of the breaker.
LEMMA BreakerSet ==
    ASSUME GuardInv, NEW t \in Thread, NEW next \in Statement, thread' = [thread EXCEPT ![t] = next],
           breaker' \in Breaker, ticks' = ticks, failed' = failed, OpenBreakerRecovers'
    PROVE  GuardInv'
BY DEF GuardInv, GuardTypeOK

LEMMA GuardedStepKeeps ==
    ASSUME GuardAssumption, GuardInv, NEW t \in Thread,
           \/ Acquire(t) \/ Refresh(t) \/ HalfOpen(t) \/ Check(t)
           \/ OperationFails(t) \/ CountFailure(t) \/ JudgeFailure(t) \/ OpenBreaker(t)
           \/ OperationSucceeds(t)
    PROVE  GuardInv'
<1>1. breaker \in Breaker /\ failed \in 0..MaxFailed /\ ticks \in 0..MaxTicks /\ MaxFailed \in Nat /\ MaxTicks \in Nat
  BY DEF GuardInv, GuardTypeOK, GuardAssumption
<1>2. CASE Acquire(t) \/ Refresh(t) \/ Check(t) \/ JudgeFailure(t) \/ OperationFails(t)
  <2>1. breaker' = breaker /\ ticks' = ticks /\ failed' \in 0..MaxFailed
    <3>1. breaker' = breaker /\ ticks' = ticks
      BY <1>2 DEF Acquire, Refresh, Check, JudgeFailure, OperationFails
    <3>2. failed' = failed \/ (failed < MaxFailed /\ failed' = failed + 1)
      BY <1>2 DEF Acquire, Refresh, Check, JudgeFailure, OperationFails
    <3> QED
      BY <1>1, <3>1, <3>2
  <2>2. \E at \in Statement \ {"stamp", "close"}, next \in Statement : Goes(t, at, next)
    <3>1. CASE Acquire(t)
      BY <3>1 DEF Acquire, Statement
    <3>2. CASE Refresh(t)
      <4>1. \E at \in {"refresh", "opened at", "elapsed"},
               next \in {"opened at", "check", "elapsed", "outside", "half open"} : Goes(t, at, next)
        <5>1. CASE Goes(t, "refresh", IF breaker.state = "open" THEN "opened at" ELSE "check")
          BY <5>1
        <5>2. CASE Goes(t, "opened at", IF breaker.openedAt # Unset THEN "elapsed" ELSE "check")
          BY <5>2
        <5>3. CASE Goes(t, "elapsed", IF breaker.openedAt = Unset THEN "outside"
                          ELSE IF ticks - breaker.openedAt >= ResetTimeout THEN "half open" ELSE "check")
          BY <5>3
        <5> QED
          BY <3>2, <5>1, <5>2, <5>3 DEF Refresh
      <4> QED
        BY <4>1 DEF Statement
    <3>3. CASE Check(t)
      BY <3>3 DEF Check, Statement
    <3>4. CASE JudgeFailure(t)
      BY <3>4 DEF JudgeFailure, Statement
    <3>5. CASE OperationFails(t)
      BY <3>5 DEF OperationFails, Statement
    <3> QED
      BY <1>2, <3>1, <3>2, <3>3, <3>4, <3>5
  <2> QED
    BY <2>1, <2>2, ThreadMoves
<1>3. CASE HalfOpen(t)
  <2>1. /\ thread[t] = "half open" /\ thread' = [thread EXCEPT ![t] = "check"]
        /\ breaker' = [breaker EXCEPT !.state = "half_open"] /\ UNCHANGED <<ticks, failed>>
    BY <1>3 DEF HalfOpen, Goes
  <2>2. breaker' \in Breaker /\ breaker'.state = "half_open" /\ "check" \in Statement
    BY <1>1, <2>1 DEF Breaker, Statement
  <2>3. OpenBreakerRecovers'
    BY <2>2 DEF OpenBreakerRecovers
  <2> QED
    BY <2>1, <2>2, <2>3, BreakerSet
<1>4. CASE CountFailure(t)
  <2>1. /\ thread[t] = "count" /\ thread' = [thread EXCEPT ![t] = "judge"]
        /\ breaker' = [breaker EXCEPT !.failures = @ + 1] /\ UNCHANGED <<ticks, failed>>
    BY <1>4 DEF CountFailure, Goes
  <2>2. /\ breaker' \in Breaker /\ "judge" \in Statement
        /\ breaker'.state = breaker.state /\ breaker'.openedAt = breaker.openedAt
    BY <1>1, <2>1 DEF Breaker, Statement
  <2>3. OpenBreakerRecovers'
    BY <2>1, <2>2, RecoversStep
  <2> QED
    BY <2>1, <2>2, <2>3, BreakerSet
<1>5. CASE OpenBreaker(t)
  <2>1. CASE Goes(t, "open", "stamp") /\ breaker' = [breaker EXCEPT !.state = "open"]
    <3>1. /\ thread[t] = "open" /\ thread' = [thread EXCEPT ![t] = "stamp"] /\ UNCHANGED <<ticks, failed>>
      BY <1>5, <2>1 DEF OpenBreaker, Goes
    <3>2. breaker' \in Breaker /\ "stamp" \in Statement
      BY <1>1, <2>1 DEF Breaker, Statement
    <3>3. OpenBreakerRecovers'
      BY <3>1, <3>2, RecoversStep
    <3> QED
      BY <3>1, <3>2, <3>3, BreakerSet
  <2>2. CASE Goes(t, "stamp", "outside") /\ breaker' = [breaker EXCEPT !.openedAt = ticks]
    <3>1. thread' = [thread EXCEPT ![t] = "outside"] /\ UNCHANGED <<ticks, failed>>
      BY <1>5, <2>2 DEF OpenBreaker, Goes
    <3>2. breaker' \in Breaker /\ breaker'.openedAt # Unset /\ "outside" \in Statement
      BY <1>1, <2>2 DEF Breaker, Statement, Unset
    <3>3. OpenBreakerRecovers'
      BY <3>2 DEF OpenBreakerRecovers
    <3> QED
      BY <3>1, <3>2, <3>3, BreakerSet
  <2> QED
    BY <1>5, <2>1, <2>2 DEF OpenBreaker
<1>6. CASE OperationSucceeds(t)
  <2>0. UNCHANGED <<ticks, failed>>
    BY <1>6 DEF OperationSucceeds
  <2>1. CASE Goes(t, "operation", "clear") /\ breaker' = [breaker EXCEPT !.failures = 0]
    <3>1. thread[t] = "operation" /\ thread' = [thread EXCEPT ![t] = "clear"]
      BY <2>1 DEF Goes
    <3>2. /\ breaker' \in Breaker /\ "clear" \in Statement
          /\ breaker'.state = breaker.state /\ breaker'.openedAt = breaker.openedAt
      BY <1>1, <2>1 DEF Breaker, Statement
    <3>3. OpenBreakerRecovers'
      BY <3>1, <3>2, RecoversStep
    <3> QED
      BY <2>0, <3>1, <3>2, <3>3, BreakerSet
  <2>2. CASE Goes(t, "clear", "close") /\ breaker' = [breaker EXCEPT !.openedAt = Unset]
    <3>1. thread[t] = "clear" /\ thread' = [thread EXCEPT ![t] = "close"]
      BY <2>2 DEF Goes
    <3>2. breaker' \in Breaker /\ "close" \in Statement
      BY <1>1, <2>2 DEF Breaker, Statement
    <3>3. OpenBreakerRecovers'
      BY <3>1, <3>2, RecoversStep
    <3> QED
      BY <2>0, <3>1, <3>2, <3>3, BreakerSet
  <2>3. CASE Goes(t, "close", "outside") /\ breaker' = [breaker EXCEPT !.state = "closed"]
    <3>1. thread' = [thread EXCEPT ![t] = "outside"]
      BY <2>3 DEF Goes
    <3>2. breaker' \in Breaker /\ breaker'.state = "closed" /\ "outside" \in Statement
      BY <1>1, <2>3 DEF Breaker, Statement
    <3>3. OpenBreakerRecovers'
      BY <3>2 DEF OpenBreakerRecovers
    <3> QED
      BY <2>0, <3>1, <3>2, <3>3, BreakerSet
  <2> QED
    BY <1>6, <2>1, <2>2, <2>3 DEF OperationSucceeds
<1> QED
  BY <1>2, <1>3, <1>4, <1>5, <1>6

\* The inductive invariant of the breaker holds in every state.
THEOREM GuardInvariant == GuardSpec => []GuardInv
<1>1. GuardInit => GuardInv
  BY GuardAssumption DEF GuardInit, GuardInv, GuardTypeOK, OpenBreakerRecovers, Breaker, Statement, Unset, GuardAssumption
<1>2. GuardInv /\ [GuardNext]_guardVars => GuardInv'
  <2> SUFFICES ASSUME GuardInv, [GuardNext]_guardVars PROVE GuardInv'
    OBVIOUS
  <2>1. CASE UNCHANGED guardVars
    BY <2>1 DEF guardVars, GuardInv, GuardTypeOK, OpenBreakerRecovers
  <2>2. CASE TimePasses
    <3>1. ticks' \in 0..MaxTicks /\ UNCHANGED <<breaker, thread, failed>>
      BY <2>2, GuardAssumption DEF TimePasses, GuardInv, GuardTypeOK, GuardAssumption
    <3> QED
      BY <3>1 DEF GuardInv, GuardTypeOK, OpenBreakerRecovers
  <2>3. CASE GuardNext /\ ~TimePasses
    BY <2>3, GuardAssumption, GuardedStepKeeps DEF GuardNext
  <2> QED
    BY <2>1, <2>2, <2>3
<1> QED
  BY <1>1, <1>2, PTL DEF GuardSpec

\* However many threads share a dependency, an open breaker keeps or gets the time that
\* lets it half-open again (circuit_breaker.py:31-48).
THEOREM BreakersRecover == GuardSpec => []OpenBreakerRecovers
<1>1. GuardInv => OpenBreakerRecovers
  BY DEF GuardInv
<1> QED
  BY <1>1, GuardInvariant, PTL

-----------------------------------------------------------------------------
(* The preview supervisor.                                                   *)


Data == {"postgres", "redpanda"}

\* The holder of the operation lock has done the steps before the one it is at, and
\* nobody undid them.
StagesDone ==
    /\ operation.kind = "wake" =>
          /\ operation.step > 1 => Data \subseteq up
          /\ operation.step > 2 => "api" \in up
          /\ operation.step > 3 => "web" \in up
    /\ operation.kind = "sleep" =>
          /\ operation.step > 1 => "web" \notin up
          /\ operation.step > 2 => "api" \notin up
          /\ operation.step > 3 => "redpanda" \notin up
          /\ operation.step > 4 => "postgres" \notin up

IInv == TypeOK /\ IngressOnTop /\ StagesDone /\ FlagIsTrue

LEMMA Orders ==
    /\ Len(StartOrder) = 3 /\ Len(StopOrder) = 4
    /\ StartOrder[1] = Data /\ StartOrder[2] = {"api"} /\ StartOrder[3] = {"web"}
    /\ StopOrder[1] = {"web"} /\ StopOrder[2] = {"api"}
    /\ StopOrder[3] = {"redpanda"} /\ StopOrder[4] = {"postgres"}
BY DEF StartOrder, StopOrder, Data

LEMMA Ages ==
    ASSUME NEW limit \in Nat, NEW age \in 0..limit
    PROVE  Older(age, limit) \in 0..limit
BY DEF Older

\* A command cut short does part of what it was to do.
LEMMA Half ==
    ASSUME TypeOK, NEW next \in HalfDone
    PROVE  /\ next \subseteq Service
           /\ operation.kind = "wake" /\ operation.step <= 3 =>
                 \E some \in SUBSET StartOrder[operation.step] : next = up \cup some
           /\ operation.kind = "sleep" /\ operation.step <= 4 =>
                 \E some \in SUBSET StopOrder[operation.step] : next = up \ some
           /\ \/ operation.kind = "wake" /\ operation.step <= 3
              \/ operation.kind = "sleep" /\ operation.step <= 4
              \/ next = up
<1>1. operation.step \in 1..5 /\ up \subseteq Service
  BY DEF TypeOK
<1>2. CASE operation.kind = "wake" /\ operation.step <= 3
  <2>1. PICK some \in SUBSET StartOrder[operation.step] : next = up \cup some
    BY <1>2, Orders DEF HalfDone
  <2>2. StartOrder[operation.step] \subseteq Service
    BY <1>1, <1>2, Orders DEF Service, Data
  <2> QED
    BY <1>1, <1>2, <2>1, <2>2
<1>3. CASE operation.kind = "sleep" /\ operation.step <= 4
  <2>1. PICK some \in SUBSET StopOrder[operation.step] : next = up \ some
    BY <1>3, Orders DEF HalfDone
  <2> QED
    BY <1>1, <1>3, <2>1
<1>4. CASE /\ ~(operation.kind = "wake" /\ operation.step <= 3)
           /\ ~(operation.kind = "sleep" /\ operation.step <= 4)
  <2>1. next = up
    BY <1>4, Orders DEF HalfDone
  <2> QED
    BY <1>1, <1>4, <2>1
<1> QED
  BY <1>2, <1>3, <1>4
-----------------------------------------------------------------------------
(* The bodies of request_wake and request_sleep. *)

LEMMA WakeBody ==
    ASSUME TypeOK, SupervisorAssumption, Wake
    PROVE  /\ flag' \in {flag, "starting"}
           /\ flag' /= flag => waiting'["wake"] > 0
           /\ waiting'["wake"] >= waiting["wake"] /\ waiting'["sleep"] = waiting["sleep"]
           /\ waiting' \in [{"wake", "sleep"} -> Nat]
           /\ activityAge' \in 0..IdleTicks /\ wakeAge' = wakeAge
BY DEF Wake, TypeOK, flags, SupervisorAssumption

LEMMA SleepBody ==
    ASSUME TypeOK, Sleep
    PROVE  /\ flag' \in {flag, "stopping"}
           /\ flag' /= flag => waiting'["sleep"] > 0
           /\ waiting'["sleep"] >= waiting["sleep"] /\ waiting'["wake"] = waiting["wake"]
           /\ waiting' \in [{"wake", "sleep"} -> Nat]
           /\ activityAge' = activityAge /\ wakeAge' = wakeAge
BY DEF Sleep, TypeOK, flags
-----------------------------------------------------------------------------
(* Types. *)

LEMMA TypeInit ==
    ASSUME Init, SupervisorAssumption
    PROVE  TypeOK
<1>1. operation \in [kind : {"none", "wake", "sleep", "again"}, step : 1..5]
  BY DEF Init, NoOperation
<1>2. waiting \in [{"wake", "sleep"} -> Nat]
  BY DEF Init
<1>3. up \subseteq Service
  BY DEF Init
<1>4. flag \in Flag /\ disabled \in BOOLEAN /\ deciding \in BOOLEAN /\ blind \in BOOLEAN
  BY DEF Init, Flag
<1>5. /\ activityAge \in 0..IdleTicks /\ wakeAge \in 0..MinUpTicks /\ asking \in Nat
      /\ requests \in 0..MaxRequests /\ failures \in 0..MaxFailures
      /\ crashes \in 0..MaxCrashes
  BY DEF Init, SupervisorAssumption
<1> QED
  BY <1>1, <1>2, <1>3, <1>4, <1>5 DEF TypeOK

LEMMA TypeStep ==
    ASSUME TypeOK, SupervisorAssumption, [Next]_vars
    PROVE  TypeOK'
<1> USE DEF TypeOK, SupervisorAssumption, Flag, Wakeable
<1>1. CASE Activity
  BY <1>1 DEF Activity, CountRequest
<1>2. CASE PostSleep
  BY <1>2, SleepBody DEF PostSleep, CountRequest
<1>3. CASE Maintenance
  BY <1>3 DEF Maintenance, CountRequest, flags, threads
<1>4. CASE RequestWake
  BY <1>4, WakeBody DEF RequestWake, bounds
<1>5. CASE Decide
  BY <1>5 DEF Decide, flags, bounds
<1>6. CASE MonitorSleep
  BY <1>6, SleepBody DEF MonitorSleep, bounds
<1>7. ASSUME NEW kind \in {"wake", "sleep"}, BeginOperation(kind)
      PROVE  TypeOK'
  BY <1>7 DEF BeginOperation, flags, bounds
<1>8. CASE StartGroup
  BY <1>8, Orders DEF StartGroup, flags, bounds, Data, Service
<1>9. CASE StartFails
  <2>1. up' \subseteq Service
    BY <1>9, Half DEF StartFails
  <2> QED
    BY <1>9, <2>1 DEF StartFails, Fails, Ends, NoOperation
<1>10. CASE WakeDone
  BY <1>10 DEF WakeDone, bounds, Ends, NoOperation
<1>11. CASE StopGroup
  BY <1>11, Orders DEF StopGroup, flags, bounds
<1>12. CASE StopFails
  <2>1. up' \subseteq Service
    BY <1>12, Half DEF StopFails
  <2> QED
    BY <1>12, <2>1 DEF StopFails, Fails, Ends, NoOperation
<1>13. CASE SleepDone
  <2>1. operation' \in [kind : {"none", "wake", "sleep", "again"}, step : 1..5]
    <3>1. CASE operation' = NoOperation
      BY <3>1 DEF NoOperation
    <3>2. CASE operation' = [kind |-> "again", step |-> 1]
      BY <3>2
    <3> QED
      BY <1>13, <3>1, <3>2 DEF SleepDone
  <2> QED
    BY <1>13, <2>1 DEF SleepDone, bounds
<1>14. CASE WakeAgain
  BY <1>14, WakeBody DEF WakeAgain, bounds, Ends, NoOperation
<1>15. CASE Boot
  <2>1. flag' \in Flag
    BY <1>15 DEF Boot
  <2>2. activityAge' \in 0..IdleTicks
    BY <1>15, Ages DEF Boot
  <2> QED
    BY <1>15, <2>1, <2>2 DEF Boot, threads, bounds
<1>16. CASE BootBlind
  BY <1>16 DEF BootBlind, Fails, threads
<1>17. CASE Crash
  <2>1. operation' \in [kind : {"none", "wake", "sleep", "again"}, step : 1..5]
    BY <1>17 DEF Crash, Ends, NoOperation
  <2>2. waiting' \in [{"wake", "sleep"} -> Nat]
    BY <1>17 DEF Crash
  <2>3. crashes' \in 0..MaxCrashes /\ requests' \in 0..MaxRequests /\ failures' \in 0..MaxFailures
    BY <1>17 DEF Crash
  <2>4. /\ flag' \in Flag /\ activityAge' \in 0..IdleTicks /\ wakeAge' \in 0..MinUpTicks
        /\ up' \subseteq Service
    BY <1>17, Half DEF Crash
  <2>5. /\ disabled' \in BOOLEAN /\ blind' \in BOOLEAN
        /\ asking' \in Nat /\ deciding' \in BOOLEAN
    BY <1>17 DEF Crash
  <2> QED
    BY <2>1, <2>2, <2>3, <2>4, <2>5
<1>18. CASE Tick
  BY <1>18, Ages DEF Tick, threads, bounds
<1>19. CASE UNCHANGED vars
  BY <1>19 DEF vars, flags, threads, bounds
<1> QED
  BY <1>1, <1>2, <1>3, <1>4, <1>5, <1>6, <1>7, <1>8, <1>9, <1>10, <1>11, <1>12, <1>13,
     <1>14, <1>15, <1>16, <1>17, <1>18, <1>19 DEF Next, Operate

\* The types of the supervisor's state: no flag but those the module lists, after
\* any start of the process too, and no operation beyond its last step.
THEOREM SupervisorTypeCorrect == Spec => []TypeOK
<1>1. Init => TypeOK
  BY TypeInit, SupervisorAssumption
<1>2. TypeOK /\ [Next]_vars => TypeOK'
  BY TypeStep, SupervisorAssumption
<1> QED
  BY <1>1, <1>2, PTL DEF Spec
-----------------------------------------------------------------------------
(* Containers and flag. *)

\* Steps that leave containers and the operation alone.
LEMMA FlagOnly ==
    ASSUME IInv, up' = up, operation' = operation
    PROVE  IngressOnTop' /\ StagesDone'
BY DEF IInv, IngressOnTop, Closed, StagesDone

LEMMA WakeKeeps ==
    ASSUME IInv, SupervisorAssumption, Wake, up' = up, blind' = blind,
           operation' = operation \/ (operation.kind = "again" /\ operation'.kind = "none")
    PROVE  FlagIsTrue'
<1>1. TypeOK
  BY DEF IInv
<1>2. /\ flag' \in {flag, "starting"}
      /\ flag' /= flag => waiting'["wake"] > 0
      /\ waiting'["wake"] >= waiting["wake"] /\ waiting'["sleep"] = waiting["sleep"]
      /\ waiting["wake"] \in Nat /\ waiting["sleep"] \in Nat
      /\ waiting'["wake"] \in Nat
  BY <1>1, WakeBody DEF TypeOK
<1> QED
  BY <1>2 DEF IInv, FlagIsTrue, Under

LEMMA SleepKeeps ==
    ASSUME IInv, Sleep, up' = up, blind' = blind, operation' = operation
    PROVE  FlagIsTrue'
<1>1. TypeOK
  BY DEF IInv
<1>2. /\ flag' \in {flag, "stopping"}
      /\ flag' /= flag => waiting'["sleep"] > 0
      /\ waiting'["sleep"] >= waiting["sleep"] /\ waiting'["wake"] = waiting["wake"]
      /\ waiting["wake"] \in Nat /\ waiting["sleep"] \in Nat
      /\ waiting'["sleep"] \in Nat
  BY <1>1, SleepBody DEF TypeOK
<1> QED
  BY <1>2 DEF IInv, FlagIsTrue, Under

\* No part of a group of a start or a stop breaks the order.
LEMMA HalfKeeps ==
    ASSUME IInv, up' \in HalfDone
    PROVE  IngressOnTop'
<1>1. TypeOK /\ operation.step \in 1..5
  BY DEF IInv, TypeOK
<1>2. CASE operation.kind = "wake" /\ operation.step <= 3
  <2>1. PICK some \in SUBSET StartOrder[operation.step] : up' = up \cup some
    BY <1>1, <1>2, Half
  <2>2. /\ operation.step = 1 => some \subseteq Data
        /\ operation.step = 2 => some \subseteq {"api"}
        /\ operation.step = 3 => some \subseteq {"web"}
    BY <2>1, Orders
  <2> QED
    BY <1>1, <1>2, <2>1, <2>2 DEF IInv, IngressOnTop, Closed, StagesDone, Data
<1>3. CASE operation.kind = "sleep" /\ operation.step <= 4
  <2>1. PICK some \in SUBSET StopOrder[operation.step] : up' = up \ some
    BY <1>1, <1>3, Half
  <2>2. /\ operation.step = 1 => some \subseteq {"web"}
        /\ operation.step = 2 => some \subseteq {"api"}
        /\ operation.step = 3 => some \subseteq {"redpanda"}
        /\ operation.step = 4 => some \subseteq {"postgres"}
    BY <2>1, Orders
  <2> QED
    BY <1>1, <1>3, <2>1, <2>2 DEF IInv, IngressOnTop, Closed, StagesDone
<1>4. CASE up' = up
  BY <1>4 DEF IInv, IngressOnTop, Closed
<1> QED
  BY <1>1, <1>2, <1>3, <1>4, Half

LEMMA OperateKeeps ==
    ASSUME IInv, SupervisorAssumption, Operate
    PROVE  IngressOnTop' /\ StagesDone' /\ FlagIsTrue'
<1>1. /\ operation.step \in 1..5
      /\ operation.kind \in {"none", "wake", "sleep", "again"}
      /\ operation \in [kind : {"none", "wake", "sleep", "again"}, step : 1..5]
      /\ waiting["wake"] \in Nat /\ waiting["sleep"] \in Nat
      /\ waiting \in [{"wake", "sleep"} -> Nat]
      /\ up \subseteq Service
  BY DEF IInv, TypeOK
<1>2. ASSUME NEW kind \in {"wake", "sleep"}, BeginOperation(kind)
      PROVE  IngressOnTop' /\ StagesDone' /\ FlagIsTrue'
  <2>1. /\ operation = NoOperation /\ operation' = [kind |-> kind, step |-> 1]
        /\ \A k \in {"wake", "sleep"} : Under(k) => Under(k)'
        /\ up' = up /\ flag' = flag /\ blind' = blind
    BY <1>1, <1>2 DEF BeginOperation, Under, NoOperation, flags
  <2>2. IngressOnTop' /\ StagesDone'
    BY <2>1 DEF IInv, IngressOnTop, Closed, StagesDone
  <2> QED
    BY <2>1, <2>2 DEF IInv, FlagIsTrue
<1>3. CASE StartGroup
  <2>1. /\ operation.kind = "wake" /\ operation.step \in 1..3
        /\ up' = up \cup StartOrder[operation.step]
        /\ operation'.kind = "wake" /\ operation'.step = operation.step + 1
        /\ flag' = flag /\ waiting' = waiting /\ blind' = blind
    BY <1>1, <1>3, Orders DEF StartGroup, flags
  <2>2. /\ operation.step = 1 => up' = up \cup Data
        /\ operation.step = 2 => up' = up \cup {"api"}
        /\ operation.step = 3 => up' = up \cup {"web"}
    BY <2>1, Orders
  <2>3. IngressOnTop' /\ StagesDone'
    BY <2>1, <2>2 DEF IInv, IngressOnTop, Closed, StagesDone, Data
  <2>4. up = Service => up' = Service
    BY <2>1, <2>2 DEF Service, Data
  <2>5. FlagIsTrue'
    BY <1>1, <2>1, <2>4 DEF IInv, FlagIsTrue, Under
  <2> QED
    BY <2>3, <2>5
<1>4. CASE StartFails \/ StopFails
  <2>1. up' \in HalfDone /\ operation'.kind = "none" /\ flag' = "error"
    BY <1>4 DEF StartFails, StopFails, Ends, NoOperation
  <2>2. IngressOnTop'
    BY <2>1, HalfKeeps
  <2> QED
    BY <2>1, <2>2 DEF StagesDone, FlagIsTrue
<1>5. CASE WakeDone
  <2>1. /\ operation.kind = "wake" /\ operation.step > 3
        /\ operation'.kind = "none" /\ flag' = "running" /\ up' = up
    BY <1>1, <1>5, Orders DEF WakeDone, Ends, NoOperation
  <2>2. operation.step > 1 /\ operation.step > 2
    BY <1>1, <2>1
  <2>3. Data \subseteq up /\ "api" \in up /\ "web" \in up
    BY <2>1, <2>2 DEF IInv, StagesDone
  <2>4. up' = Service
    BY <1>1, <2>1, <2>3 DEF Service, Data
  <2> QED
    BY <2>1, <2>4 DEF IInv, IngressOnTop, Closed, StagesDone, FlagIsTrue
<1>6. CASE StopGroup
  <2>1. /\ operation.kind = "sleep" /\ operation.step \in 1..4
        /\ up' = up \ StopOrder[operation.step]
        /\ operation'.kind = "sleep" /\ operation'.step = operation.step + 1
        /\ flag' = flag /\ waiting' = waiting /\ blind' = blind
    BY <1>1, <1>6, Orders DEF StopGroup, flags
  <2>2. /\ operation.step = 1 => up' = up \ {"web"}
        /\ operation.step = 2 => up' = up \ {"api"}
        /\ operation.step = 3 => up' = up \ {"redpanda"}
        /\ operation.step = 4 => up' = up \ {"postgres"}
    BY <2>1, Orders
  <2>3. IngressOnTop' /\ StagesDone'
    BY <2>1, <2>2 DEF IInv, IngressOnTop, Closed, StagesDone
  <2>4. FlagIsTrue'
    BY <1>1, <2>1 DEF IInv, FlagIsTrue, Under
  <2> QED
    BY <2>3, <2>4
<1>7. CASE SleepDone
  <2>1. /\ operation.kind = "sleep" /\ operation.step > 4
        /\ operation'.kind \in {"none", "again"} /\ flag' = "sleeping" /\ up' = up
    BY <1>1, <1>7, Orders DEF SleepDone, NoOperation
  <2>2. up' = {}
    BY <1>1, <2>1 DEF IInv, StagesDone, Service
  <2> QED
    BY <2>1, <2>2 DEF IInv, IngressOnTop, Closed, StagesDone, FlagIsTrue
<1>8. CASE WakeAgain
  <2>1. operation.kind = "again" /\ operation'.kind = "none" /\ up' = up /\ blind' = blind /\ Wake
    BY <1>8 DEF WakeAgain, Ends, NoOperation
  <2>2. FlagIsTrue'
    BY <2>1, WakeKeeps
  <2> QED
    BY <2>1, <2>2 DEF IInv, IngressOnTop, Closed, StagesDone
<1> QED
  BY <1>2, <1>3, <1>4, <1>5, <1>6, <1>7, <1>8 DEF Operate

LEMMA Step ==
    ASSUME IInv, SupervisorAssumption, [Next]_vars
    PROVE  IInv'
<1>1. TypeOK'
  BY TypeStep DEF IInv
<1>2. CASE Activity \/ Maintenance \/ Decide \/ Tick \/ UNCHANGED vars
  <2>1. UNCHANGED <<flag, up, operation, waiting, blind>>
    BY <1>2 DEF Activity, Maintenance, Decide, Tick, vars, flags, threads
  <2>2. FlagIsTrue'
    BY <2>1 DEF IInv, FlagIsTrue, Under
  <2> QED
    BY <1>1, <2>1, <2>2, FlagOnly DEF IInv
<1>3. CASE RequestWake
  <2>1. up' = up /\ operation' = operation /\ blind' = blind /\ Wake
    BY <1>3 DEF RequestWake
  <2> QED
    BY <1>1, <2>1, FlagOnly, WakeKeeps DEF IInv
<1>4. CASE PostSleep \/ MonitorSleep
  <2>1. up' = up /\ operation' = operation /\ blind' = blind /\ Sleep
    BY <1>4 DEF PostSleep, MonitorSleep
  <2> QED
    BY <1>1, <2>1, FlagOnly, SleepKeeps DEF IInv
<1>5. CASE Operate
  BY <1>1, <1>5, OperateKeeps DEF IInv
<1>6. CASE Boot
  <2>1. up' = up /\ operation' = operation
    BY <1>6 DEF Boot, threads
  <2>2. FlagIsTrue'
    BY <1>6 DEF Boot, FlagIsTrue
  <2> QED
    BY <1>1, <2>1, <2>2, FlagOnly DEF IInv
<1>7. CASE BootBlind
  <2>1. up' = up /\ operation' = operation
    BY <1>7 DEF BootBlind, threads
  <2>2. FlagIsTrue'
    BY <1>7 DEF BootBlind, FlagIsTrue
  <2> QED
    BY <1>1, <2>1, <2>2, FlagOnly DEF IInv
<1>8. CASE Crash
  <2>1. up' \in HalfDone /\ operation'.kind = "none" /\ flag' = "down"
    BY <1>8 DEF Crash, Ends, NoOperation
  <2> QED
    BY <1>1, <2>1, HalfKeeps DEF IInv, StagesDone, FlagIsTrue
<1> QED
  BY <1>2, <1>3, <1>4, <1>5, <1>6, <1>7, <1>8 DEF Next

LEMMA Invariant == Spec => []IInv
<1>1. Init => IInv
  <2> SUFFICES ASSUME Init
               PROVE  IInv
    OBVIOUS
  <2>1. TypeOK
    BY TypeInit, SupervisorAssumption
  <2> QED
    BY <2>1 DEF Init, IInv, IngressOnTop, StagesDone, FlagIsTrue, NoOperation
<1>2. IInv /\ [Next]_vars => IInv'
  BY Step, SupervisorAssumption
<1> QED
  BY <1>1, <1>2, PTL DEF Spec

\* However starts and stops queue, fail and are cut short, the web never runs
\* without the API, nor the API without its data stores.
THEOREM IngressCorrect == Spec => []IngressOnTop
<1>1. IInv => IngressOnTop
  BY DEF IInv
<1> QED
  BY <1>1, Invariant, PTL

\* The flag only disagrees with the containers while an operation that will set it
\* again is queued or under way, for any number of handlers and threads.
THEOREM FlagCorrect == Spec => []FlagIsTrue
<1>1. IInv => FlagIsTrue
  BY DEF IInv
<1> QED
  BY <1>1, Invariant, PTL
=============================================================================
