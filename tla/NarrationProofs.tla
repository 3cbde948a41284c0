--------------------------- MODULE NarrationProofs ---------------------------
(***************************************************************************)
(* Theorems about NarrationService and the ProviderGovernor it runs on, for *)
(* any threads, providers, chain of them, limits and number of calls.      *)
(***************************************************************************)
EXTENDS NarrationService, FiniteSetTheorems, SequenceTheorems, TLAPS

\* What a critical section leaves alone of a provider's state s.
SameCircuit(s, t) ==
    t.failures = s.failures /\ t.openUntil = s.openUntil /\ t.openedAt = s.openedAt

\* Popping the old requests and resetting the day touch neither the places taken nor
\* the circuit.
LEMMA RefreshedState ==
    ASSUME NEW s \in State, NEW now \in Nat, today \in Nat
    PROVE  /\ Refreshed(s, now) \in State
           /\ Refreshed(s, now).active = s.active
           /\ SameCircuit(s, Refreshed(s, now))
<1> DEFINE fresh == IF s.date = today THEN s
                    ELSE [s EXCEPT !.date = today, !.requests = 0, !.tokens = 0]
           old(i) == now - s.window[i] >= Minute
           first == {i \in 1..Len(s.window) : \A j \in 1..i : old(j)}
           popped == SubSeq(s.window, Cardinality(first) + 1, Len(s.window))
<1>1. s.window \in Seq(Nat) /\ Len(s.window) \in Nat
  BY DEF State
<1>2. Cardinality(first) \in 0..Len(s.window)
  <2>1. IsFiniteSet(1..Len(s.window)) /\ Cardinality(1..Len(s.window)) = Len(s.window)
    BY <1>1, FS_Interval
  <2>2. first \in SUBSET (1..Len(s.window))
    OBVIOUS
  <2>3. IsFiniteSet(first) /\ Cardinality(first) <= Len(s.window)
    BY <2>1, <2>2, FS_Subset
  <2> HIDE DEF first
  <2> QED
    BY <1>1, <2>3, FS_CardinalityType
<1>3. popped \in Seq(Nat)
  <2> HIDE DEF first
  <2> QED
    BY <1>1, <1>2, SubSeqProperties
<1>4. fresh \in State /\ fresh.window = s.window /\ fresh.active = s.active /\ SameCircuit(s, fresh)
  BY DEF State, SameCircuit
<1>5. Refreshed(s, now) = [fresh EXCEPT !.window = popped]
  BY <1>4 DEF Refreshed
<1> HIDE DEF fresh, popped
<1> QED
  BY <1>3, <1>4, <1>5 DEF State, SameCircuit

LEMMA AdmittedState ==
    ASSUME NEW s \in State, NEW now \in Nat, GovernorAssumption
    PROVE  /\ Admitted(s, now) \in State
           /\ Admitted(s, now).active = s.active + 1
           /\ SameCircuit(s, Admitted(s, now))
<1> DEFINE window == Append(s.window, now)
<1>1. window \in Seq(Nat)
  BY DEF State
<1>2. s.active + 1 \in Nat /\ s.requests + 1 \in Nat /\ s.tokens + TokensPerCall \in Nat
  <2>1. TokensPerCall \in Nat
    BY DEF GovernorAssumption
  <2>2. s.active \in Nat /\ s.requests \in Nat /\ s.tokens \in Nat
    BY DEF State
  <2> QED
    BY <2>1, <2>2
<1> HIDE DEF window
<1> DEFINE t == [s EXCEPT !.active = @ + 1, !.window = window,
                        !.requests = @ + 1, !.tokens = @ + TokensPerCall]
<1>3. t \in State /\ t.active = s.active + 1 /\ SameCircuit(s, t)
  BY <1>1, <1>2 DEF State, SameCircuit
<1>4. Admitted(s, now) = t
  BY DEF Admitted, window
<1> HIDE DEF t
<1> QED
  BY <1>3, <1>4

LEMMA ReleasedState ==
    ASSUME NEW s \in State, s.active > 0
    PROVE  /\ Released(s) \in State
           /\ Released(s).active = s.active - 1
           /\ SameCircuit(s, Released(s))
BY DEF Released, State, SameCircuit

LEMMA SucceededState ==
    ASSUME NEW s \in State
    PROVE  /\ Succeeded(s) \in State
           /\ Succeeded(s).active = s.active
           /\ Succeeded(s).failures = 0 /\ Succeeded(s).openUntil = 0
BY DEF Succeeded, State

LEMMA FailedState ==
    ASSUME NEW s \in State, GovernorAssumption, clock \in Nat
    PROVE  /\ Failed(s) \in State
           /\ Failed(s).active = s.active
           /\ Failed(s).failures = s.failures + 1
           /\ IF s.failures + 1 >= Threshold
              THEN Failed(s).openUntil > 0 /\ Failed(s).openedAt = clock
              ELSE Failed(s).openUntil = s.openUntil
<1>a. s.failures \in Nat
  BY DEF State
<1>b. Cooldown \in Nat /\ Cooldown > 0
  BY DEF GovernorAssumption
<1>1. s.failures + 1 \in Nat /\ clock + Cooldown \in Nat \ {0}
  BY <1>a, <1>b
<1> DEFINE until == clock + Cooldown
<1>2. until \in Nat /\ until > 0
  BY <1>1
<1> HIDE DEF until
<1>3. CASE s.failures + 1 >= Threshold
  <2>1. Failed(s) = [s EXCEPT !.failures = @ + 1, !.openUntil = until, !.openedAt = clock]
    BY <1>3 DEF Failed, until
  <2> DEFINE t == [s EXCEPT !.failures = @ + 1, !.openUntil = until, !.openedAt = clock]
  <2>2. t \in State /\ t.active = s.active /\ t.failures = s.failures + 1
        /\ t.openUntil = until /\ t.openedAt = clock
    BY <1>1, <1>2 DEF State
  <2> HIDE DEF t
  <2>3. Failed(s) = t
    BY <2>1 DEF t
  <2> QED
    BY <1>2, <1>3, <2>2, <2>3
<1>4. CASE ~(s.failures + 1 >= Threshold)
  <2> DEFINE t == [s EXCEPT !.failures = @ + 1]
  <2>1. t \in State /\ t.active = s.active /\ t.failures = s.failures + 1
        /\ t.openUntil = s.openUntil
    BY <1>1 DEF State
  <2>2. Failed(s) = t
    BY <1>4 DEF Failed
  <2> HIDE DEF t
  <2> QED
    BY <1>4, <2>1, <2>2
<1> QED
  BY <1>3, <1>4

-----------------------------------------------------------------------------
\* No thread is ahead of the clock it read.
ClocksRead == \A c \in Caller : turn[c].now <= clock

GovernorInv ==
    GovernorTypeOK /\ ActiveIsInFlight /\ CircuitMatchesFailures /\ CircuitKeepsOut /\ ClocksRead

LEMMA InFlightFinite ==
    ASSUME GovernorAssumption, NEW p
    PROVE  IsFiniteSet(InFlight(p)) /\ Cardinality(InFlight(p)) \in Nat
<1>1. IsFiniteSet(Caller) /\ InFlight(p) \in SUBSET Caller
  BY DEF GovernorAssumption, InFlight
<1> QED
  BY <1>1, FS_Subset, FS_CardinalityType

\* A thread that is not in flight, and none other, gets a place at provider p.
LEMMA OneMoreInFlight ==
    ASSUME GovernorAssumption, NEW c \in Caller, NEW p \in Provider,
           \A q \in Provider : InFlight(q)' = IF q = p THEN InFlight(q) \cup {c} ELSE InFlight(q),
           c \notin InFlight(p)
    PROVE  \A q \in Provider : Cardinality(InFlight(q)') =
                Cardinality(InFlight(q)) + IF q = p THEN 1 ELSE 0
<1> SUFFICES ASSUME NEW q \in Provider
             PROVE  Cardinality(InFlight(q)') = Cardinality(InFlight(q)) + IF q = p THEN 1 ELSE 0
  OBVIOUS
<1>1. IsFiniteSet(InFlight(q)) /\ Cardinality(InFlight(q)) \in Nat
  BY InFlightFinite
<1>2. CASE q = p
  BY <1>1, <1>2, FS_AddElement
<1>3. CASE q # p
  BY <1>1, <1>3
<1> QED
  BY <1>2, <1>3

LEMMA OneLessInFlight ==
    ASSUME GovernorAssumption, NEW c \in Caller, NEW p \in Provider,
           \A q \in Provider : InFlight(q)' = IF q = p THEN InFlight(q) \ {c} ELSE InFlight(q),
           c \in InFlight(p)
    PROVE  /\ Cardinality(InFlight(p)) > 0
           /\ \A q \in Provider : Cardinality(InFlight(q)') =
                Cardinality(InFlight(q)) - IF q = p THEN 1 ELSE 0
<1>1. ASSUME NEW q \in Provider
      PROVE  Cardinality(InFlight(q)') = Cardinality(InFlight(q)) - IF q = p THEN 1 ELSE 0
  <2>1. IsFiniteSet(InFlight(q)) /\ Cardinality(InFlight(q)) \in Nat
    BY InFlightFinite
  <2>2. CASE q = p
    BY <2>1, <2>2, FS_RemoveElement
  <2>3. CASE q # p
    BY <2>1, <2>3
  <2> QED
    BY <2>2, <2>3
<1>2. Cardinality(InFlight(p)) > 0
  BY InFlightFinite, FS_EmptySet
<1> QED
  BY <1>1, <1>2

LEMMA GovernorInitial ==
    ASSUME GovernorAssumption, GovernorInit
    PROVE  GovernorInv
<1>1. GovernorTypeOK
  BY DEF GovernorInit, GovernorTypeOK, State, Turn, Outside
<1>2. \A p \in Provider : InFlight(p) = {}
  BY DEF GovernorInit, InFlight, Outside
<1>3. ActiveIsInFlight
  BY <1>2, FS_EmptySet DEF ActiveIsInFlight, GovernorInit
<1>4. CircuitMatchesFailures
  BY DEF CircuitMatchesFailures, GovernorInit, GovernorAssumption
<1>5. CircuitKeepsOut /\ ClocksRead
  BY <1>2 DEF CircuitKeepsOut, ClocksRead, GovernorInit, Outside
<1> QED
  BY <1>1, <1>3, <1>4, <1>5 DEF GovernorInv

-----------------------------------------------------------------------------
(* The steps of run().                                                       *)

LEMMA EnterKeeps ==
    ASSUME GovernorAssumption, GovernorInv, NEW c \in Caller, NEW p \in Provider, Enter(c, p)
    PROVE  GovernorInv'
<1>1. /\ gov' = gov /\ clock' = clock /\ today' = today
      /\ turn[c].at = "out"
      /\ turn' = [turn EXCEPT ![c] = [at |-> "entered", provider |-> p, now |-> clock]]
  BY DEF Enter
<1>2. GovernorTypeOK'
  BY <1>1 DEF GovernorInv, GovernorTypeOK, Turn
<1>3. \A q : InFlight(q)' = InFlight(q)
  BY <1>1 DEF InFlight, GovernorInv, GovernorTypeOK
<1>4. ActiveIsInFlight' /\ CircuitMatchesFailures'
  BY <1>1, <1>3 DEF GovernorInv, ActiveIsInFlight, CircuitMatchesFailures
<1>5. \A q \in Provider : \A d \in InFlight(q) : turn'[d] = turn[d]
  BY <1>1 DEF InFlight
<1>6. CircuitKeepsOut'
  BY <1>1, <1>3, <1>5 DEF GovernorInv, CircuitKeepsOut
<1>7. ClocksRead'
  BY <1>1 DEF GovernorInv, GovernorTypeOK, ClocksRead
<1> QED
  BY <1>2, <1>4, <1>6, <1>7 DEF GovernorInv

LEMMA RefuseKeeps ==
    ASSUME GovernorAssumption, GovernorInv, NEW c \in Caller, NEW reason, Refuse(c, reason)
    PROVE  GovernorInv'
<1> DEFINE p == turn[c].provider
           t == Refreshed(gov[p], turn[c].now)
<1>1. /\ turn[c].at = "entered" /\ clock' = clock /\ today' = today
      /\ gov' = [gov EXCEPT ![p] = t]
      /\ turn' = [turn EXCEPT ![c] = Outside]
  BY DEF Refuse
<1>2. p \in Provider /\ gov[p] \in State /\ turn[c].now \in Nat /\ today \in Nat
  BY <1>1 DEF GovernorInv, GovernorTypeOK, Turn
<1>3. t \in State /\ t.active = gov[p].active /\ SameCircuit(gov[p], t)
  BY <1>2, RefreshedState
<1> HIDE DEF p, t
<1>4. GovernorTypeOK'
  BY <1>1, <1>2, <1>3 DEF GovernorInv, GovernorTypeOK, Turn, Outside
<1>5. \A q : InFlight(q)' = InFlight(q)
  BY <1>1 DEF InFlight, GovernorInv, GovernorTypeOK, Outside
<1>6. \A q \in Provider : gov'[q].active = gov[q].active /\ SameCircuit(gov[q], gov'[q])
  BY <1>1, <1>2, <1>3 DEF GovernorInv, GovernorTypeOK, SameCircuit
<1>7. ActiveIsInFlight' /\ CircuitMatchesFailures'
  BY <1>5, <1>6 DEF GovernorInv, ActiveIsInFlight, CircuitMatchesFailures, SameCircuit
<1>8. \A q \in Provider : \A d \in InFlight(q) : turn'[d] = turn[d]
  BY <1>1 DEF InFlight
<1>9. CircuitKeepsOut'
  BY <1>5, <1>6, <1>8 DEF GovernorInv, CircuitKeepsOut, SameCircuit
<1>10. ClocksRead'
  BY <1>1 DEF GovernorInv, GovernorTypeOK, ClocksRead, Outside
<1> QED
  BY <1>4, <1>7, <1>9, <1>10 DEF GovernorInv

LEMMA AdmitKeeps ==
    ASSUME GovernorAssumption, GovernorInv, NEW c \in Caller, Admit(c)
    PROVE  GovernorInv'
<1> DEFINE p == turn[c].provider
           now == turn[c].now
           s == Refreshed(gov[p], now)
           t == Admitted(s, now)
<1>1. /\ turn[c].at = "entered" /\ clock' = clock /\ today' = today
      /\ ~Blocked(s, now)
      /\ gov' = [gov EXCEPT ![p] = t]
      /\ turn' = [turn EXCEPT ![c].at = "inside"]
  BY DEF Admit
<1>2. p \in Provider /\ gov[p] \in State /\ now \in Nat /\ today \in Nat
  BY <1>1 DEF GovernorInv, GovernorTypeOK, Turn
<1>3. s \in State /\ s.active = gov[p].active /\ SameCircuit(gov[p], s)
  BY <1>2, RefreshedState
<1>4. s.openUntil <= now
  <2>1. ~Applies(Reasons[1], s, now)
    BY <1>1 DEF Blocked, Reasons
  <2>2. ~(s.openUntil > now)
    BY <2>1 DEF Applies, Reasons
  <2>3. s.openUntil \in Nat
    BY <1>3 DEF State
  <2> QED
    BY <1>2, <2>2, <2>3
<1> HIDE DEF s
<1>5. t \in State /\ t.active = s.active + 1 /\ SameCircuit(s, t)
  BY <1>2, <1>3, AdmittedState
<1> HIDE DEF t, p, now
<1>6. GovernorTypeOK'
  BY <1>1, <1>2, <1>5 DEF GovernorInv, GovernorTypeOK, Turn, p
<1>7. c \notin InFlight(p) /\ \A q \in Provider : InFlight(q)' = IF q = p THEN InFlight(q) \cup {c} ELSE InFlight(q)
  BY <1>1 DEF InFlight, GovernorInv, GovernorTypeOK, Turn, p
<1>8. \A q \in Provider : /\ gov'[q].active = gov[q].active + IF q = p THEN 1 ELSE 0
                         /\ SameCircuit(gov[q], gov'[q])
  <2>1. \A q \in Provider : gov'[q] = IF q = p THEN t ELSE gov[q]
    BY <1>1, <1>2 DEF GovernorInv, GovernorTypeOK
  <2>2. \A q \in Provider : gov[q].active \in Nat
    BY DEF GovernorInv, GovernorTypeOK, State
  <2> QED
    BY <1>2, <1>3, <1>5, <2>1, <2>2 DEF SameCircuit
<1>9. ActiveIsInFlight'
  BY <1>2, <1>7, <1>8, OneMoreInFlight DEF GovernorInv, ActiveIsInFlight
<1>10. CircuitMatchesFailures'
  BY <1>8 DEF GovernorInv, CircuitMatchesFailures, SameCircuit
<1>11. CircuitKeepsOut'
  <2> SUFFICES ASSUME NEW q \in Provider, NEW d \in InFlight(q)', gov'[q].openUntil > 0
               PROVE  turn'[d].now <= gov'[q].openedAt \/ turn'[d].now >= gov'[q].openUntil
    BY DEF CircuitKeepsOut
  <2>1. turn'[d].now = turn[d].now /\ d \in Caller
    BY <1>1 DEF InFlight, GovernorInv, GovernorTypeOK, Turn
  <2>2. gov'[q].openUntil = gov[q].openUntil /\ gov'[q].openedAt = gov[q].openedAt
    BY <1>8 DEF SameCircuit
  <2>3. CASE d \in InFlight(q)
    BY <2>1, <2>2, <2>3 DEF GovernorInv, CircuitKeepsOut
  <2>4. CASE d \notin InFlight(q)
    <3>1. d = c /\ q = p
      BY <1>7, <2>4
    <3>2. gov[q].openUntil = s.openUntil
      BY <1>3, <3>1 DEF SameCircuit
    <3>3. s.openUntil \in Nat /\ now = turn[d].now
      BY <1>3, <3>1 DEF State, now
    <3> QED
      BY <1>2, <1>4, <2>1, <2>2, <3>2, <3>3
  <2> QED
    BY <2>3, <2>4
<1>12. ClocksRead'
  BY <1>1 DEF GovernorInv, GovernorTypeOK, ClocksRead, Turn
<1> QED
  BY <1>6, <1>9, <1>10, <1>11, <1>12 DEF GovernorInv

LEMMA RecordOutcomeKeeps ==
    ASSUME GovernorAssumption, GovernorInv, NEW c \in Caller,
           NEW outcome \in {"success", "busy", "failure"}, RecordOutcome(c, outcome)
    PROVE  GovernorInv'
<1> DEFINE p == turn[c].provider
           s == gov[p]
<1>1. /\ turn[c].at = "inside" /\ clock' = clock /\ today' = today
      /\ turn' = [turn EXCEPT ![c].at = "leaving"]
      /\ gov' = [gov EXCEPT ![p] = CASE outcome = "success" -> Succeeded(s)
                                       [] outcome = "busy"    -> FoundBusy(s)
                                       [] outcome = "failure" -> Failed(s)]
  BY DEF RecordOutcome
<1>2. p \in Provider /\ s \in State /\ clock \in Nat
  BY <1>1 DEF GovernorInv, GovernorTypeOK, Turn
<1>3. s.openUntil > 0 <=> s.failures >= Threshold
  BY <1>2 DEF GovernorInv, CircuitMatchesFailures
<1>4. PICK t : /\ gov' = [gov EXCEPT ![p] = t]
               /\ t = CASE outcome = "success" -> Succeeded(s)
                         [] outcome = "busy"    -> FoundBusy(s)
                         [] outcome = "failure" -> Failed(s)
  BY <1>1
<1>5. /\ t \in State /\ t.active = s.active
      /\ t.openUntil > 0 <=> t.failures >= Threshold
      /\ t.openUntil > 0 => \/ t.openedAt = clock
                            \/ t.openUntil = s.openUntil /\ t.openedAt = s.openedAt
  <2>1. Threshold \in Nat \ {0} /\ s.failures \in Nat /\ s.openUntil \in Nat
    BY <1>2 DEF GovernorAssumption, State
  <2>2. CASE outcome = "success"
    <3>1. t = Succeeded(s)
      BY <1>4, <2>2
    <3> QED
      BY <1>2, <2>1, <3>1, SucceededState
  <2>3. CASE outcome = "busy"
    <3>1. t = s
      BY <1>4, <2>3 DEF FoundBusy
    <3> QED
      BY <1>2, <1>3, <3>1
  <2>4. CASE outcome = "failure"
    <3>1. t = Failed(s)
      BY <1>4, <2>4
    <3> QED
      BY <1>2, <1>3, <2>1, <3>1, FailedState
  <2> QED
    BY <2>2, <2>3, <2>4
<1> HIDE DEF p
<1>6. GovernorTypeOK'
  BY <1>1, <1>2, <1>4, <1>5 DEF GovernorInv, GovernorTypeOK, Turn
<1>7. \A q : InFlight(q)' = InFlight(q)
  BY <1>1 DEF InFlight, GovernorInv, GovernorTypeOK, Turn
<1>8. \A q \in Provider : gov'[q] = IF q = p THEN t ELSE gov[q]
  BY <1>2, <1>4 DEF GovernorInv, GovernorTypeOK
<1>9. ActiveIsInFlight'
  BY <1>5, <1>7, <1>8 DEF GovernorInv, ActiveIsInFlight
<1>10. CircuitMatchesFailures'
  BY <1>5, <1>8 DEF GovernorInv, CircuitMatchesFailures
<1>11. \A d \in Caller : turn'[d].now = turn[d].now /\ turn[d].now <= clock
  BY <1>1 DEF GovernorInv, GovernorTypeOK, ClocksRead, Turn
<1>12. CircuitKeepsOut'
  <2> SUFFICES ASSUME NEW q \in Provider, NEW d \in InFlight(q)', gov'[q].openUntil > 0
               PROVE  turn'[d].now <= gov'[q].openedAt \/ turn'[d].now >= gov'[q].openUntil
    BY DEF CircuitKeepsOut
  <2>1. d \in Caller /\ d \in InFlight(q)
    BY <1>7 DEF InFlight
  <2>2. gov[q].openUntil > 0 => turn[d].now <= gov[q].openedAt \/ turn[d].now >= gov[q].openUntil
    BY <2>1 DEF GovernorInv, CircuitKeepsOut
  <2> QED
    BY <1>5, <1>8, <1>11, <2>1, <2>2
<1>13. ClocksRead'
  BY <1>1, <1>11 DEF ClocksRead
<1> QED
  BY <1>6, <1>9, <1>10, <1>12, <1>13 DEF GovernorInv

LEMMA LeaveKeeps ==
    ASSUME GovernorAssumption, GovernorInv, NEW c \in Caller, Leave(c)
    PROVE  GovernorInv'
<1> DEFINE p == turn[c].provider
           t == Released(gov[p])
<1>1. /\ turn[c].at = "leaving" /\ clock' = clock /\ today' = today
      /\ gov' = [gov EXCEPT ![p] = t]
      /\ turn' = [turn EXCEPT ![c] = Outside]
  BY DEF Leave
<1>2. p \in Provider /\ gov[p] \in State
  BY <1>1 DEF GovernorInv, GovernorTypeOK, Turn
<1>3. c \in InFlight(p) /\ \A q \in Provider : InFlight(q)' = IF q = p THEN InFlight(q) \ {c} ELSE InFlight(q)
  BY <1>1 DEF InFlight, GovernorInv, GovernorTypeOK, Turn, Outside
<1> HIDE DEF p
<1>4. /\ Cardinality(InFlight(p)) > 0
      /\ \A q \in Provider : Cardinality(InFlight(q)') =
            Cardinality(InFlight(q)) - IF q = p THEN 1 ELSE 0
  BY <1>2, <1>3, OneLessInFlight
<1>5. t \in State /\ t.active = gov[p].active - 1 /\ SameCircuit(gov[p], t)
  <2>1. gov[p].active > 0
    BY <1>2, <1>4 DEF GovernorInv, ActiveIsInFlight
  <2> QED
    BY <1>2, <2>1, ReleasedState
<1> HIDE DEF t
<1>6. GovernorTypeOK'
  BY <1>1, <1>2, <1>5 DEF GovernorInv, GovernorTypeOK, Turn, Outside
<1>7. \A q \in Provider : gov'[q] = IF q = p THEN t ELSE gov[q]
  BY <1>1, <1>2 DEF GovernorInv, GovernorTypeOK
<1>8. ActiveIsInFlight'
  <2>1. \A q \in Provider : gov[q].active \in Nat
    BY DEF GovernorInv, GovernorTypeOK, State
  <2> QED
    BY <1>4, <1>5, <1>7, <2>1 DEF GovernorInv, ActiveIsInFlight
<1>9. CircuitMatchesFailures'
  BY <1>5, <1>7 DEF GovernorInv, CircuitMatchesFailures, SameCircuit
<1>10. \A q \in Provider : \A d \in InFlight(q)' : d \in InFlight(q) /\ turn'[d] = turn[d]
  <2>1. \A q \in Provider : \A d \in InFlight(q)' : d \in Caller /\ d # c
    BY <1>1 DEF InFlight, GovernorInv, GovernorTypeOK, Outside
  <2> QED
    BY <1>1, <1>3, <2>1 DEF GovernorInv, GovernorTypeOK
<1>11. CircuitKeepsOut'
  BY <1>5, <1>7, <1>10 DEF GovernorInv, CircuitKeepsOut, SameCircuit
<1>12. ClocksRead'
  BY <1>1 DEF GovernorInv, GovernorTypeOK, ClocksRead, Outside
<1> QED
  BY <1>6, <1>8, <1>9, <1>11, <1>12 DEF GovernorInv

LEMMA ReadStatusKeeps ==
    ASSUME GovernorAssumption, GovernorInv, ReadStatus
    PROVE  GovernorInv'
<1>1. /\ clock' = clock /\ today' = today /\ turn' = turn
      /\ gov' = [p \in Provider |-> Refreshed(gov[p], clock)]
  BY DEF ReadStatus
<1>2. ASSUME NEW p \in Provider
      PROVE  gov'[p] \in State /\ gov'[p].active = gov[p].active /\ SameCircuit(gov[p], gov'[p])
  <2>1. gov[p] \in State /\ clock \in Nat /\ today \in Nat
    BY DEF GovernorInv, GovernorTypeOK
  <2>2. gov'[p] = Refreshed(gov[p], clock)
    BY <1>1
  <2> QED
    BY <2>1, <2>2, RefreshedState
<1>3. GovernorTypeOK'
  <2>1. gov' \in [Provider -> State]
    BY <1>1, <1>2
  <2> QED
    BY <1>1, <2>1 DEF GovernorInv, GovernorTypeOK
<1>4. \A q : InFlight(q)' = InFlight(q)
  BY <1>1 DEF InFlight
<1>5. ActiveIsInFlight' /\ CircuitMatchesFailures'
  BY <1>2, <1>4 DEF GovernorInv, ActiveIsInFlight, CircuitMatchesFailures, SameCircuit
<1>6. CircuitKeepsOut' /\ ClocksRead'
  BY <1>1, <1>2, <1>4 DEF GovernorInv, CircuitKeepsOut, ClocksRead, SameCircuit
<1> QED
  BY <1>3, <1>5, <1>6 DEF GovernorInv

LEMMA TimeKeeps ==
    ASSUME GovernorInv, Tick \/ NewDay \/ UNCHANGED governorVars
    PROVE  GovernorInv'
<1>1. /\ gov' = gov /\ turn' = turn
      /\ clock' \in {clock, clock + 1} /\ today' \in {today, today + 1}
  BY DEF Tick, NewDay, governorVars
<1>2. GovernorTypeOK'
  BY <1>1 DEF GovernorInv, GovernorTypeOK
<1>3. \A q : InFlight(q)' = InFlight(q)
  BY <1>1 DEF InFlight
<1>4. ActiveIsInFlight' /\ CircuitMatchesFailures' /\ CircuitKeepsOut'
  BY <1>1, <1>3 DEF GovernorInv, ActiveIsInFlight, CircuitMatchesFailures, CircuitKeepsOut
<1>5. ClocksRead'
  <2>1. clock \in Nat /\ \A c \in Caller : turn[c].now \in Nat
    BY DEF GovernorInv, GovernorTypeOK, Turn
  <2> QED
    BY <1>1, <2>1 DEF GovernorInv, ClocksRead
<1> QED
  BY <1>2, <1>4, <1>5 DEF GovernorInv

LEMMA GovernorInductive ==
    ASSUME GovernorAssumption, GovernorInv, [GovernorNext]_governorVars
    PROVE  GovernorInv'
BY EnterKeeps, RefuseKeeps, AdmitKeeps, RecordOutcomeKeeps, LeaveKeeps, ReadStatusKeeps, TimeKeeps
   DEF GovernorNext

-----------------------------------------------------------------------------
(* The service: each of its steps is one of the governor's or none.          *)

\* A call has tried exactly the providers before the one it is at.
Tried ==
    \A c \in Caller :
        /\ call[c].at # "idle" => call[c].packet \in Packet
        /\ call[c].next <= Len(Chain) + 1
        /\ call[c].at \in {"governed", "asking", "heard"} => call[c].next <= Len(Chain)
        /\ call[c].failed = {Chain[i] : i \in 1..(call[c].next - 1)}

ServiceInv == ServiceTypeOK /\ Tried /\ FallbackHidesNoCloud

\* Mapping each step of the service to the governor.
LEMMA ServiceStep ==
    ASSUME ServiceAssumption, ServiceInv, [Next]_vars
    PROVE  [GovernorNext]_governorVars
<1>1. ASSUME NEW c \in Caller, EnterGovernor(c)
      PROVE  GovernorNext
  <2>1. call[c].next \in 1..Len(Chain) /\ Len(Chain) \in Nat
    BY <1>1 DEF EnterGovernor, ServiceInv, ServiceTypeOK, Call, ServiceAssumption
  <2>2. Current(c) \in Provider
    BY <2>1 DEF Current, ServiceAssumption
  <2> QED
    BY <1>1, <2>2 DEF EnterGovernor, GovernorNext
<1>2. ASSUME NEW c \in Caller, Hear(c)
      PROVE  GovernorNext
  <2>1. PICK heard \in Answers(Current(c)) : RecordOutcome(c, Outcome(heard))
    BY <1>2 DEF Hear
  <2>2. Outcome(heard) \in {"success", "busy", "failure"}
    BY DEF Outcome, Answers, LocalAnswers, VertexAnswers, Validated
  <2> QED
    BY <2>1, <2>2 DEF GovernorNext
<1>3. ASSUME NEW c \in Caller, CallStep(c)
      PROVE  [GovernorNext]_governorVars
  BY <1>1, <1>2, <1>3
     DEF CallStep, SkipCloud, Ask, RefusedByGovernor, Accept, Discard, FallBack, Return, GovernorNext
<1>4. ASSUME NEW c \in Caller, NEW k \in Packet, NEW cloud \in BOOLEAN, Begin(c, k, cloud)
      PROVE  UNCHANGED governorVars
  BY <1>4 DEF Begin
<1>5. CASE (Tick \/ NewDay \/ ReadStatus) /\ UNCHANGED serviceVars
  BY <1>5 DEF GovernorNext
<1>6. CASE UNCHANGED vars
  BY <1>6 DEF vars
<1> QED
  BY <1>3, <1>4, <1>5, <1>6 DEF Next

LEMMA ServiceInitial ==
    ASSUME GovernorAssumption, ServiceAssumption, Init
    PROVE  GovernorInv /\ ServiceInv
<1>1. GovernorInv
  BY GovernorInitial DEF Init
<1>2. ServiceTypeOK
  BY <1>1 DEF Init, ServiceTypeOK, GovernorInv, Brief, NoBrief, Call, NoCall, ServiceAssumption
<1>3. Tried
  <2>1. Len(Chain) \in Nat
    BY DEF ServiceAssumption
  <2> QED
    BY <2>1 DEF Init, Tried, NoCall
<1>4. FallbackHidesNoCloud
  BY DEF Init, FallbackHidesNoCloud, NoBrief
<1> QED
  BY <1>1, <1>2, <1>3, <1>4 DEF ServiceInv

\* GoOn adds the provider just tried to those that failed.
LEMMA GoOnKeeps ==
    ASSUME ServiceAssumption, ServiceInv, NEW c \in Caller,
           call[c].next <= Len(Chain), call[c].at # "idle", GoOn(c)
    PROVE  call' \in [Caller -> Call] /\ Tried'
<1>1. call \in [Caller -> Call] /\ call[c] \in Call
  BY DEF ServiceInv, ServiceTypeOK
<1>2. Len(Chain) \in Nat /\ call[c].next \in 1..Len(Chain) /\ Current(c) \in Provider
  BY <1>1 DEF ServiceAssumption, Call, Current
<1>3. call' = [call EXCEPT ![c].at = "choosing", ![c].next = @ + 1,
                           ![c].failed = @ \cup {Current(c)}, ![c].heard = "none"]
  BY DEF GoOn
<1>4. call' \in [Caller -> Call]
  <2>1. call[c].failed \cup {Current(c)} \in SUBSET Provider /\ call[c].next + 1 \in Nat \ {0}
    BY <1>1, <1>2 DEF Call
  <2> QED
    BY <1>1, <1>3, <2>1 DEF Call
<1>5. /\ call'[c].at = "choosing" /\ call'[c].packet = call[c].packet
      /\ call'[c].next = call[c].next + 1
      /\ call'[c].failed = call[c].failed \cup {Current(c)}
      /\ \A d \in Caller \ {c} : call'[d] = call[d]
  BY <1>1, <1>3 DEF Call
<1>6. call'[c].failed = {Chain[i] : i \in 1..(call'[c].next - 1)}
  <2>1. call[c].failed = {Chain[i] : i \in 1..(call[c].next - 1)}
    BY DEF ServiceInv, Tried
  <2>2. 1..(call'[c].next - 1) = 1..(call[c].next - 1) \cup {call[c].next}
    BY <1>2, <1>5
  <2> QED
    BY <1>5, <2>1, <2>2 DEF Current
<1> QED
  BY <1>2, <1>4, <1>5, <1>6 DEF ServiceInv, Tried

\* What a step of the call of thread c must keep: the rest is the governor's.
ServiceKept ==
    /\ cache' \in [Packet -> Brief] /\ calls' \in 0..MaxCalls
    /\ call' \in [Caller -> Call] /\ Tried'
    /\ FallbackHidesNoCloud'

LEMMA BeginKeeps ==
    ASSUME ServiceAssumption, ServiceInv, clock \in Nat,
           NEW c \in Caller, NEW k \in Packet, NEW cloud \in BOOLEAN, Begin(c, k, cloud)
    PROVE  ServiceKept
<1>1. /\ cache' = cache /\ calls < MaxCalls /\ calls' = calls + 1
      /\ call' = [call EXCEPT ![c] =
                    IF Fresh(k) THEN [NoCall EXCEPT !.at = "answered", !.packet = k]
                    ELSE [NoCall EXCEPT !.at = "choosing", !.packet = k, !.now = clock, !.cloud = cloud]]
  BY DEF Begin
<1>2. calls' \in 0..MaxCalls /\ Len(Chain) \in Nat
  BY <1>1 DEF ServiceInv, ServiceTypeOK, ServiceAssumption
<1>3. PICK new : /\ call' = [call EXCEPT ![c] = new]
                 /\ new \in {[NoCall EXCEPT !.at = "answered", !.packet = k],
                             [NoCall EXCEPT !.at = "choosing", !.packet = k, !.now = clock,
                                            !.cloud = cloud]}
  BY <1>1
<1>4. new \in Call /\ new.packet = k /\ new.next = 1 /\ new.failed = {}
      /\ new.at \in {"answered", "choosing"}
  <2> DEFINE answered == [NoCall EXCEPT !.at = "answered", !.packet = k]
             choosing == [NoCall EXCEPT !.at = "choosing", !.packet = k, !.now = clock, !.cloud = cloud]
  <2>0. NoCall \in Call /\ NoCall.next = 1 /\ NoCall.failed = {}
    BY DEF NoCall, Call
  <2>1. answered \in Call /\ answered.packet = k /\ answered.next = 1 /\ answered.failed = {}
        /\ answered.at = "answered"
    BY <2>0 DEF Call
  <2>2. choosing \in Call /\ choosing.packet = k /\ choosing.next = 1 /\ choosing.failed = {}
        /\ choosing.at = "choosing"
    BY <2>0 DEF Call
  <2>3. new \in {answered, choosing}
    BY <1>3
  <2> HIDE DEF answered, choosing
  <2> QED
    BY <2>1, <2>2, <2>3
<1>5. call' \in [Caller -> Call] /\ call'[c] = new /\ \A d \in Caller \ {c} : call'[d] = call[d]
  BY <1>3, <1>4 DEF ServiceInv, ServiceTypeOK
<1>6. Tried'
  BY <1>2, <1>4, <1>5 DEF ServiceInv, Tried
<1> QED
  BY <1>1, <1>2, <1>5, <1>6 DEF ServiceInv, ServiceTypeOK, ServiceKept, FallbackHidesNoCloud

\* A call comes to at, and neither its provider nor those that failed change.
LEMMA MovesOn ==
    ASSUME ServiceAssumption, ServiceInv, NEW c \in Caller, NEW new \in Call,
           call[c].at # "idle",
           call' = [call EXCEPT ![c] = new],
           new.packet = call[c].packet, new.next = call[c].next, new.failed = call[c].failed,
           new.at \in {"governed", "asking", "heard"} => call[c].next <= Len(Chain)
    PROVE  call' \in [Caller -> Call] /\ Tried'
<1>1. call' \in [Caller -> Call] /\ call'[c] = new /\ \A d \in Caller \ {c} : call'[d] = call[d]
  BY DEF ServiceInv, ServiceTypeOK
<1> QED
  BY <1>1 DEF ServiceInv, Tried

\* A brief that is stored is an accepted wording, or one for which the cloud was tried
\* if there is one beside the local provider.
LEMMA StoreKeeps ==
    ASSUME ServiceAssumption, ServiceInv, NEW c \in Caller, call[c].at # "idle",
           NEW mode \in {"llm", "deterministic_fallback"}, Store(c, mode),
           mode = "deterministic_fallback" /\ {Local, Vertex} \subseteq Range(Chain)
             => Vertex \in call[c].failed /\ call[c].cloud
    PROVE  cache' \in [Packet -> Brief] /\ FallbackHidesNoCloud'
<1>1. call[c] \in Call /\ call[c].packet \in Packet
  BY DEF ServiceInv, ServiceTypeOK, Tried
<1> DEFINE brief == [mode |-> mode, at |-> call[c].now,
                     tried |-> Vertex \in call[c].failed /\ call[c].cloud]
<1>2. brief \in Brief
  BY <1>1 DEF Brief, Call
<1>3. cache' = [cache EXCEPT ![call[c].packet] = brief]
  BY DEF Store
<1>4. brief.mode = "deterministic_fallback" /\ {Local, Vertex} \subseteq Range(Chain) => brief.tried
  OBVIOUS
<1> HIDE DEF brief
<1> QED
  BY <1>1, <1>2, <1>3, <1>4 DEF ServiceInv, ServiceTypeOK, FallbackHidesNoCloud

LEMMA FallBackKeeps ==
    ASSUME ServiceAssumption, ServiceInv, NEW c \in Caller, FallBack(c)
    PROVE  ServiceKept
<1>1. call[c].at = "choosing" /\ call[c].next > Len(Chain) /\ calls' = calls
      /\ call' = [call EXCEPT ![c].at = "answered"]
  BY DEF FallBack
<1>2. call[c] \in Call /\ [call[c] EXCEPT !.at = "answered"] \in Call
  BY DEF ServiceInv, ServiceTypeOK, Call
<1>3. call' \in [Caller -> Call] /\ Tried'
  <2> DEFINE new == [call[c] EXCEPT !.at = "answered"]
  <2>1. /\ new \in Call /\ call' = [call EXCEPT ![c] = new]
        /\ new.packet = call[c].packet /\ new.next = call[c].next
        /\ new.failed = call[c].failed /\ new.at = "answered"
    BY <1>1, <1>2 DEF Call
  <2> HIDE DEF new
  <2> QED
    BY <1>1, <2>1, MovesOn
<1>4. cache' \in [Packet -> Brief] /\ FallbackHidesNoCloud'
  <2>1. CASE CachesFallback(c)
    <3>1. Store(c, "deterministic_fallback")
      BY <2>1 DEF FallBack
    <3>2. Range(Chain) = call[c].failed
      <4>1. Len(Chain) \in Nat /\ DOMAIN Chain = 1..Len(Chain)
        BY DEF ServiceAssumption
      <4>2. call[c].next = Len(Chain) + 1
        BY <1>1, <1>2, <4>1 DEF ServiceInv, Tried, Call
      <4>3. call[c].failed = {Chain[i] : i \in 1..Len(Chain)}
        BY <4>1, <4>2 DEF ServiceInv, Tried
      <4> QED
        BY <4>1, <4>3 DEF Range
    <3>3. {Local, Vertex} \subseteq Range(Chain) => Vertex \in call[c].failed /\ call[c].cloud
      BY <2>1, <3>2 DEF CachesFallback
    <3> QED
      BY <1>1, <3>1, <3>3, StoreKeeps
  <2>2. CASE ~CachesFallback(c)
    BY <2>2 DEF FallBack, ServiceInv, ServiceTypeOK, FallbackHidesNoCloud
  <2> QED
    BY <2>1, <2>2
<1> QED
  BY <1>1, <1>3, <1>4 DEF ServiceKept, ServiceInv, ServiceTypeOK

LEMMA AcceptKeeps ==
    ASSUME ServiceAssumption, ServiceInv, NEW c \in Caller, Accept(c)
    PROVE  ServiceKept
<1>1. call[c].at = "heard" /\ calls' = calls /\ Store(c, "llm")
      /\ call' = [call EXCEPT ![c].at = "answered"]
  BY DEF Accept
<1>2. call[c] \in Call /\ [call[c] EXCEPT !.at = "answered"] \in Call
  BY DEF ServiceInv, ServiceTypeOK, Call
<1>3. call' \in [Caller -> Call] /\ Tried'
  <2> DEFINE new == [call[c] EXCEPT !.at = "answered"]
  <2>1. /\ new \in Call /\ call' = [call EXCEPT ![c] = new]
        /\ new.packet = call[c].packet /\ new.next = call[c].next
        /\ new.failed = call[c].failed /\ new.at = "answered"
    BY <1>1, <1>2 DEF Call
  <2> HIDE DEF new
  <2> QED
    BY <1>1, <2>1, MovesOn
<1>4. cache' \in [Packet -> Brief] /\ FallbackHidesNoCloud'
  BY <1>1, StoreKeeps
<1> QED
  BY <1>1, <1>3, <1>4 DEF ServiceKept, ServiceInv, ServiceTypeOK

\* The steps that leave the cache alone.
LEMMA OtherStepsKeep ==
    ASSUME ServiceAssumption, ServiceInv, NEW c \in Caller,
           \/ SkipCloud(c) \/ EnterGovernor(c) \/ Ask(c) \/ Hear(c) \/ Discard(c) \/ Return(c)
           \/ \E reason \in Range(Reasons) : RefusedByGovernor(c, reason)
    PROVE  ServiceKept
<1>1. cache' = cache /\ calls' = calls /\ call[c].at # "idle"
  BY DEF SkipCloud, EnterGovernor, Ask, Hear, Discard, Return, RefusedByGovernor
<1>2. call \in [Caller -> Call] /\ call[c] \in Call /\ Len(Chain) \in Nat
  BY DEF ServiceInv, ServiceTypeOK, ServiceAssumption
<1>3. call[c].at \in {"governed", "asking", "heard"} => call[c].next <= Len(Chain)
  BY DEF ServiceInv, Tried
<1>4. ASSUME NEW at \in {"governed", "asking", "deferred"},
             call' = [call EXCEPT ![c].at = at],
             at # "deferred" => call[c].next <= Len(Chain)
      PROVE  call' \in [Caller -> Call] /\ Tried'
  <2> DEFINE new == [call[c] EXCEPT !.at = at]
  <2>1. /\ new \in Call /\ call' = [call EXCEPT ![c] = new] /\ new.at = at
        /\ new.packet = call[c].packet /\ new.next = call[c].next
        /\ new.failed = call[c].failed
    BY <1>2, <1>4 DEF Call
  <2> HIDE DEF new
  <2> QED
    BY <1>1, <1>4, <2>1, MovesOn
<1>5. ASSUME GoOn(c), call[c].next <= Len(Chain)
      PROVE  call' \in [Caller -> Call] /\ Tried'
  BY <1>1, <1>5, GoOnKeeps
<1>6. call' \in [Caller -> Call] /\ Tried'
  <2>1. CASE SkipCloud(c)
    BY <1>5, <2>1 DEF SkipCloud
  <2>2. CASE EnterGovernor(c)
    BY <1>4, <2>2 DEF EnterGovernor
  <2>3. CASE Ask(c)
    BY <1>3, <1>4, <2>3 DEF Ask
  <2>4. CASE Hear(c)
    <3>1. PICK heard \in Answers(Current(c)) :
            call' = [call EXCEPT ![c].at = "heard", ![c].heard = heard]
      BY <2>4 DEF Hear
    <3>2. call[c].at = "asking"
      BY <2>4 DEF Hear
    <3> DEFINE new == [call[c] EXCEPT !.at = "heard", !.heard = heard]
    <3>3. heard \in {"valid", "invalid", "busy", "failure"}
      BY DEF Answers, LocalAnswers, VertexAnswers, Validated
    <3>4. /\ new \in Call /\ call' = [call EXCEPT ![c] = new]
          /\ new.packet = call[c].packet /\ new.next = call[c].next
          /\ new.failed = call[c].failed
      BY <1>2, <3>1, <3>3 DEF Call
    <3> HIDE DEF new
    <3> QED
      BY <1>3, <3>2, <3>4, MovesOn
  <2>5. CASE Discard(c)
    BY <1>3, <1>4, <1>5, <2>5 DEF Discard
  <2>6. CASE Return(c)
    <3>1. call' = [call EXCEPT ![c] = NoCall]
      BY <2>6 DEF Return
    <3>2. NoCall \in Call /\ NoCall.at = "idle" /\ NoCall.next = 1 /\ NoCall.failed = {}
      BY DEF NoCall, Call
    <3>3. call' \in [Caller -> Call] /\ call'[c] = NoCall /\ \A d \in Caller \ {c} : call'[d] = call[d]
      BY <1>2, <3>1, <3>2
    <3> QED
      BY <1>2, <3>2, <3>3 DEF ServiceInv, Tried
  <2>7. ASSUME NEW reason \in Range(Reasons), RefusedByGovernor(c, reason)
        PROVE  call' \in [Caller -> Call] /\ Tried'
    BY <1>3, <1>4, <1>5, <2>7 DEF RefusedByGovernor
  <2> QED
    BY <2>1, <2>2, <2>3, <2>4, <2>5, <2>6, <2>7
<1> QED
  BY <1>1, <1>6 DEF ServiceKept, ServiceInv, ServiceTypeOK, FallbackHidesNoCloud

LEMMA ServiceInductive ==
    ASSUME GovernorAssumption, ServiceAssumption, GovernorInv, ServiceInv, [Next]_vars
    PROVE  GovernorInv' /\ ServiceInv'
<1>1. GovernorInv'
  BY ServiceStep, GovernorInductive
<1>2. ServiceKept
  <2>1. ASSUME NEW c \in Caller, NEW k \in Packet, NEW cloud \in BOOLEAN, Begin(c, k, cloud)
        PROVE  ServiceKept
    BY <2>1, BeginKeeps DEF GovernorInv, GovernorTypeOK
  <2>2. ASSUME NEW c \in Caller, CallStep(c)
        PROVE  ServiceKept
    BY <2>2, OtherStepsKeep, AcceptKeeps, FallBackKeeps DEF CallStep
  <2>3. CASE UNCHANGED serviceVars
    BY <2>3 DEF serviceVars, ServiceKept, ServiceInv, ServiceTypeOK, Tried, FallbackHidesNoCloud
  <2> QED
    BY <2>1, <2>2, <2>3 DEF Next, vars
<1> QED
  BY <1>1, <1>2 DEF ServiceKept, ServiceInv, ServiceTypeOK, GovernorInv

-----------------------------------------------------------------------------
(* The theorems.                                                             *)

\* The inductive invariant of the service and its governor holds in every state.
THEOREM Invariant == Spec => [](GovernorInv /\ ServiceInv)
<1>1. Init => GovernorInv /\ ServiceInv
  BY ServiceInitial, GovernorAssumption, ServiceAssumption
<1>2. GovernorInv /\ ServiceInv /\ [Next]_vars => (GovernorInv /\ ServiceInv)'
  BY ServiceInductive, GovernorAssumption, ServiceAssumption
<1> QED
  BY <1>1, <1>2, PTL DEF Spec

\* Service and governor are well typed (service.py:340-415, governance.py:28-153).
THEOREM TypeCorrect == Spec => []ServiceTypeOK
<1>1. ServiceInv => ServiceTypeOK
  BY DEF ServiceInv
<1> QED
  BY <1>1, Invariant, PTL

\* The places a provider counts as taken are those of the threads inside it, however
\* calls end (governance.py:118-153).
THEOREM PlacesCounted == Spec => []ActiveIsInFlight
<1>1. GovernorInv => ActiveIsInFlight
  BY DEF GovernorInv
<1> QED
  BY <1>1, Invariant, PTL

\* A circuit is open exactly when the failures in a row reached the threshold
\* (governance.py:134-146).
THEOREM CircuitMatched == Spec => []CircuitMatchesFailures
<1>1. GovernorInv => CircuitMatchesFailures
  BY DEF GovernorInv
<1> QED
  BY <1>1, Invariant, PTL

\* No call is let in while the circuit is open, whenever it read the clock
\* (governance.py:93-103).
THEOREM CircuitHolds == Spec => []CircuitKeepsOut
<1>1. GovernorInv => CircuitKeepsOut
  BY DEF GovernorInv
<1> QED
  BY <1>1, Invariant, PTL

\* A deterministic brief is cached only when the cloud beside the local provider was
\* tried (service.py:407-413).
THEOREM CloudNotHidden == Spec => []FallbackHidesNoCloud
<1>1. ServiceInv => FallbackHidesNoCloud
  BY DEF ServiceInv
<1> QED
  BY <1>1, Invariant, PTL

\* The service runs on the governor as its module specifies it: each step of a call is
\* a step of run() or leaves the governor alone (service.py:353-391).
THEOREM ServiceImplementsGovernor == Spec => GovernorSpec
<1>1. Init => GovernorInit
  BY DEF Init
<1>2. ServiceInv /\ [Next]_vars => [GovernorNext]_governorVars
  BY ServiceStep, ServiceAssumption
<1> QED
  BY <1>1, <1>2, Invariant, PTL DEF Spec, GovernorSpec
=============================================================================
