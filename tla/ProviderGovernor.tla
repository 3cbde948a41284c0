-------------------------- MODULE ProviderGovernor --------------------------
(* services/narration/governance.py, ProviderGovernor: the fail-fast limits  *)
(* in front of every provider of one process. A thread reads the clock,      *)
(* takes the lock, is refused or admitted, calls the provider without the    *)
(* lock, records the outcome under the lock and gives its place back in a    *)
(* second critical section (the finally). Statistics are left out.           *)
EXTENDS Integers, Sequences, SequencesExt, FiniteSets

CONSTANTS
    Caller,             \* threads that narrate
    Provider,           \* providers with a policy
    Threshold,          \* circuit_failure_threshold
    Cooldown,           \* circuit_cooldown_seconds, in ticks
    Minute,             \* sixty seconds, in ticks
    MaxRpm,             \* max_requests_per_minute
    MaxConcurrency,     \* max_concurrency
    DailyRequests,      \* daily_request_limit
    DailyTokens,        \* daily_estimated_token_limit
    TokensPerCall,      \* estimated_input_tokens + max_output_tokens
    NoProvider,
    MaxClock, MaxDay    \* bounds of the model: ticks and changes of date

ASSUME GovernorAssumption ==
    /\ IsFiniteSet(Caller)
    /\ NoProvider \notin Provider
    /\ {Threshold, Cooldown, Minute} \subseteq Nat \ {0}
    /\ {MaxRpm, MaxConcurrency, DailyRequests, DailyTokens} \subseteq Nat
    /\ {TokensPerCall, MaxClock, MaxDay} \subseteq Nat

VARIABLES
    clock,      \* time.monotonic
    today,      \* the UTC date
    gov,        \* gov[p]: the _ProviderState of p
    turn        \* turn[c]: where thread c is in run()

governorVars == <<clock, today, gov, turn>>

State == [window: Seq(Nat), active: Nat, date: Nat, requests: Nat, tokens: Nat,
          failures: Nat, openUntil: Nat, openedAt: Nat]

Turn == [at: {"out", "entered", "inside", "leaving"},
         provider: Provider \cup {NoProvider}, now: Nat]

Outside == [at |-> "out", provider |-> NoProvider, now |-> 0]

GovernorInit ==
    /\ clock = 1
    /\ today = 1
    /\ gov = [p \in Provider |->
                [window |-> <<>>, active |-> 0, date |-> 0, requests |-> 0, tokens |-> 0,
                 failures |-> 0, openUntil |-> 0, openedAt |-> 0]]
    /\ turn = [c \in Caller |-> Outside]

-----------------------------------------------------------------------------
(* What the critical sections do to the state s of one provider.             *)

\* The state after _reset_day_if_needed and after the minute's old requests
\* were popped, seen by a thread that read the clock at now.
Refreshed(s, now) ==
    LET fresh == IF s.date = today THEN s
                 ELSE [s EXCEPT !.date = today, !.requests = 0, !.tokens = 0]
        old(i) == now - s.window[i] >= Minute
        first == {i \in 1..Len(s.window) : \A j \in 1..i : old(j)}
    IN  [fresh EXCEPT !.window = SubSeq(@, Cardinality(first) + 1, Len(@))]

Reasons == <<"circuit_open", "concurrency_exhausted", "rate_limit_exhausted",
             "daily_request_budget_exhausted", "daily_token_budget_exhausted">>

\* Mutant: the circuit is taken for closed one tick before its cooldown ends.
AppliesEarly(reason, s, now) ==
    CASE reason = "circuit_open"                   -> s.openUntil > now + 1
      [] reason = "concurrency_exhausted"          -> s.active >= MaxConcurrency
      [] reason = "rate_limit_exhausted"           -> Len(s.window) >= MaxRpm
      [] reason = "daily_request_budget_exhausted" -> s.requests >= DailyRequests
      [] reason = "daily_token_budget_exhausted"   -> s.tokens + TokensPerCall > DailyTokens

Applies(reason, s, now) ==
    CASE reason = "circuit_open"                   -> s.openUntil > now
      [] reason = "concurrency_exhausted"          -> s.active >= MaxConcurrency
      [] reason = "rate_limit_exhausted"           -> Len(s.window) >= MaxRpm
      [] reason = "daily_request_budget_exhausted" -> s.requests >= DailyRequests
      [] reason = "daily_token_budget_exhausted"   -> s.tokens + TokensPerCall > DailyTokens

\* The elif chain names the first reason that applies.
Blocked(s, now) == \E i \in DOMAIN Reasons : Applies(Reasons[i], s, now)

BlockReason(s, now) ==
    Reasons[CHOOSE i \in DOMAIN Reasons :
                /\ Applies(Reasons[i], s, now)
                /\ \A j \in 1..(i - 1) : ~Applies(Reasons[j], s, now)]

Admitted(s, now) ==
    [s EXCEPT !.active = @ + 1, !.window = Append(@, now),
              !.requests = @ + 1, !.tokens = @ + TokensPerCall]

\* A failure that reaches the threshold opens the circuit, or opens it longer.
\* openedAt remembers when: it belongs to the model, not to the code.
Failed(s) ==
    IF s.failures + 1 >= Threshold
    THEN [s EXCEPT !.failures = @ + 1, !.openUntil = clock + Cooldown, !.openedAt = clock]
    ELSE [s EXCEPT !.failures = @ + 1]

\* Mutant: a success closes the circuit and keeps the count of failures.
SucceededUncounted(s) == [s EXCEPT !.openUntil = 0]

\* A success closes the circuit, even one of a call that began before it opened.
Succeeded(s) == [s EXCEPT !.failures = 0, !.openUntil = 0]

\* Mutant: a busy answer gives its place back before the finally does.
FoundBusyReleased(s) == [s EXCEPT !.active = @ - 1]

\* A busy answer is not a failure: only statistics change.
FoundBusy(s) == s

Released(s) == [s EXCEPT !.active = IF @ = 0 THEN 0 ELSE @ - 1]

-----------------------------------------------------------------------------
(* The steps of run().                                                       *)

\* now = time.monotonic(), before the lock is waited for.
Enter(c, p) ==
    /\ turn[c].at = "out"
    /\ turn' = [turn EXCEPT ![c] = [at |-> "entered", provider |-> p, now |-> clock]]
    /\ UNCHANGED <<clock, today, gov>>

\* The lock is taken: the thread is refused, and the refreshed state stays.
Refuse(c, reason) ==
    LET p == turn[c].provider
        s == Refreshed(gov[p], turn[c].now)
    IN  /\ turn[c].at = "entered"
        /\ Blocked(s, turn[c].now)
        /\ reason = BlockReason(s, turn[c].now)
        /\ gov' = [gov EXCEPT ![p] = s]
        /\ turn' = [turn EXCEPT ![c] = Outside]
        /\ UNCHANGED <<clock, today>>

Admit(c) ==
    LET p == turn[c].provider
        s == Refreshed(gov[p], turn[c].now)
    IN  /\ turn[c].at = "entered"
        /\ ~Blocked(s, turn[c].now)
        /\ gov' = [gov EXCEPT ![p] = Admitted(s, turn[c].now)]
        /\ turn' = [turn EXCEPT ![c].at = "inside"]
        /\ UNCHANGED <<clock, today>>

\* The call has ended; the except or else block records how.
RecordOutcome(c, outcome) ==
    LET p == turn[c].provider
        s == gov[p]
    IN  /\ turn[c].at = "inside"
        /\ gov' = [gov EXCEPT ![p] = CASE outcome = "success" -> Succeeded(s)
                                       [] outcome = "busy"    -> FoundBusy(s)
                                       [] outcome = "failure" -> Failed(s)]
        /\ turn' = [turn EXCEPT ![c].at = "leaving"]
        /\ UNCHANGED <<clock, today>>

\* The finally block.
Leave(c) ==
    /\ turn[c].at = "leaving"
    /\ gov' = [gov EXCEPT ![turn[c].provider] = Released(@)]
    /\ turn' = [turn EXCEPT ![c] = Outside]
    /\ UNCHANGED <<clock, today>>

\* status() refreshes every provider's state too.
ReadStatus ==
    /\ gov' = [p \in Provider |-> Refreshed(gov[p], clock)]
    /\ UNCHANGED <<clock, today, turn>>

Tick ==
    /\ clock < MaxClock
    /\ clock' = clock + 1
    /\ UNCHANGED <<today, gov, turn>>

NewDay ==
    /\ today < MaxDay
    /\ today' = today + 1
    /\ UNCHANGED <<clock, gov, turn>>

GovernorNext ==
    \/ \E c \in Caller : \/ \E p \in Provider : Enter(c, p)
                         \/ \E reason \in Range(Reasons) : Refuse(c, reason)
                         \/ Admit(c)
                         \/ \E outcome \in {"success", "busy", "failure"} : RecordOutcome(c, outcome)
                         \/ Leave(c)
    \/ ReadStatus
    \/ Tick
    \/ NewDay

GovernorSpec == GovernorInit /\ [][GovernorNext]_governorVars

-----------------------------------------------------------------------------
InFlight(p) == {c \in Caller : turn[c].at \in {"inside", "leaving"} /\ turn[c].provider = p}

GovernorTypeOK ==
    /\ clock \in Nat
    /\ today \in Nat
    /\ gov \in [Provider -> State]
    /\ turn \in [Caller -> Turn]
    /\ \A c \in Caller : turn[c].at # "out" => turn[c].provider \in Provider

\* active_requests is the number of threads between the admission and the
\* finally: no way out of a call, busy, failed or refused, leaves a place taken
\* or gives one back twice, so the limit on concurrency is neither lost nor
\* starved (governance.py:118-153).
ActiveIsInFlight == \A p \in Provider : gov[p].active = Cardinality(InFlight(p))

\* The circuit has an end if and only if the failures in a row have reached the
\* threshold: a success forgets both, a busy answer neither, and a failure after
\* the cooldown opens it again at once (governance.py:134-146).
CircuitMatchesFailures ==
    \A p \in Provider : gov[p].openUntil > 0 <=> gov[p].failures >= Threshold

\* Nobody is let in while the circuit is open, not even a thread that read the
\* clock before it opened and waited for the lock: a call in flight was admitted
\* at or before the opening, or after the cooldown (governance.py:93-103).
CircuitKeepsOut ==
    \A p \in Provider : \A c \in InFlight(p) :
        gov[p].openUntil > 0 => \/ turn[c].now <= gov[p].openedAt
                                \/ turn[c].now >= gov[p].openUntil
=============================================================================
