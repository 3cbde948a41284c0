-------------------------- MODULE GuardedDependency --------------------------
(* services/reliability: the circuit breaker inside the bulkhead, as the     *)
(* Neo4j adapter calls its driver and the external advisor its provider      *)
(* (adapters/neo4j/adapter.py:60, services/advisory/provider.py:60). The     *)
(* breaker has no lock: the threads of the API run its statements in any     *)
(* interleaving. The dependency is external.                                 *)
EXTENDS Integers, FiniteSets

CONSTANTS
    Thread,             \* threads of the API
    Width,              \* max_concurrency of the bulkhead
    FailureThreshold,   \* failure_threshold
    ResetTimeout,       \* reset_timeout_seconds, in ticks
    MaxTicks,           \* bound: the clock
    MaxFailed           \* bound: failures of the dependency

ASSUME GuardAssumption ==
    /\ Width \in Nat /\ Width >= 1
    /\ FailureThreshold \in Nat /\ FailureThreshold >= 1
    /\ ResetTimeout \in Nat /\ ResetTimeout >= 1
    /\ MaxTicks \in Nat /\ MaxFailed \in Nat

VARIABLES
    ticks,              \* the breaker's clock
    breaker,            \* its state, failure_count and opened_at
    thread,             \* thread[t]: the statement thread t is at
    failed              \* failures of the dependency so far

guardVars == <<ticks, breaker, thread, failed>>

\* opened_at is None.
Unset == -1

Breaker == [state: {"closed", "open", "half_open"}, failures: Nat, openedAt: {Unset} \cup 0..MaxTicks]

Statement == {"outside", "refresh", "opened at", "elapsed", "half open", "check", "operation",
              "count", "judge", "open", "stamp", "clear", "close"}

GuardInit ==
    /\ ticks = 0
    /\ breaker = [state |-> "closed", failures |-> 0, openedAt |-> Unset]
    /\ thread = [t \in Thread |-> "outside"]
    /\ failed = 0

-----------------------------------------------------------------------------
Goes(t, at, next) == thread[t] = at /\ thread' = [thread EXCEPT ![t] = next]

\* Bulkhead.call: a slot of the semaphore. A thread that waited too long for one is
\* rejected and has done nothing. Whatever ends the call gives the slot back.
Acquire(t) ==
    /\ Cardinality({u \in Thread : thread[u] # "outside"}) < Width
    /\ Goes(t, "outside", "refresh")
    /\ UNCHANGED <<ticks, breaker, failed>>

\* _refresh, whose condition reads the state, then opened_at, then the clock and
\* opened_at again: if that is None by now, the subtraction raises.
Refresh(t) ==
    /\ \/ Goes(t, "refresh", IF breaker.state = "open" THEN "opened at" ELSE "check")
       \/ Goes(t, "opened at", IF breaker.openedAt # Unset THEN "elapsed" ELSE "check")
       \/ Goes(t, "elapsed", IF breaker.openedAt = Unset THEN "outside"
                             ELSE IF ticks - breaker.openedAt >= ResetTimeout THEN "half open"
                             ELSE "check")
    /\ UNCHANGED <<ticks, breaker, failed>>

HalfOpen(t) ==
    /\ Goes(t, "half open", "check")
    /\ breaker' = [breaker EXCEPT !.state = "half_open"]
    /\ UNCHANGED <<ticks, failed>>

\* CircuitBreakerOpen, or the operation.
Check(t) ==
    /\ Goes(t, "check", IF breaker.state = "open" THEN "outside" ELSE "operation")
    /\ UNCHANGED <<ticks, breaker, failed>>

\* The operation raises. CPython does not switch threads inside an increment.
OperationFails(t) ==
    /\ failed < MaxFailed
    /\ failed' = failed + 1
    /\ Goes(t, "operation", "count")
    /\ UNCHANGED <<ticks, breaker>>

CountFailure(t) ==
    /\ Goes(t, "count", "judge")
    /\ breaker' = [breaker EXCEPT !.failures = @ + 1]
    /\ UNCHANGED <<ticks, failed>>

JudgeFailure(t) ==
    /\ Goes(t, "judge", IF breaker.state = "half_open" \/ breaker.failures >= FailureThreshold
                        THEN "open" ELSE "outside")
    /\ UNCHANGED <<ticks, breaker, failed>>

\* Mutant: opened_at is set before the state.
OpenBreakerStamped(t) ==
    /\ \/ Goes(t, "open", "stamp") /\ breaker' = [breaker EXCEPT !.openedAt = ticks]
       \/ Goes(t, "stamp", "outside") /\ breaker' = [breaker EXCEPT !.state = "open"]
    /\ UNCHANGED <<ticks, failed>>

\* The state is set before opened_at.
OpenBreaker(t) ==
    /\ \/ Goes(t, "open", "stamp") /\ breaker' = [breaker EXCEPT !.state = "open"]
       \/ Goes(t, "stamp", "outside") /\ breaker' = [breaker EXCEPT !.openedAt = ticks]
    /\ UNCHANGED <<ticks, failed>>

\* The operation returns, and the three assignments after it.
OperationSucceeds(t) ==
    /\ \/ Goes(t, "operation", "clear") /\ breaker' = [breaker EXCEPT !.failures = 0]
       \/ Goes(t, "clear", "close") /\ breaker' = [breaker EXCEPT !.openedAt = Unset]
       \/ Goes(t, "close", "outside") /\ breaker' = [breaker EXCEPT !.state = "closed"]
    /\ UNCHANGED <<ticks, failed>>

TimePasses ==
    /\ ticks < MaxTicks /\ ticks' = ticks + 1
    /\ UNCHANGED <<breaker, thread, failed>>

GuardNext ==
    \/ \E t \in Thread :
          \/ Acquire(t) \/ Refresh(t) \/ HalfOpen(t) \/ Check(t)
          \/ OperationFails(t) \/ CountFailure(t) \/ JudgeFailure(t) \/ OpenBreaker(t)
          \/ OperationSucceeds(t)
    \/ TimePasses

-----------------------------------------------------------------------------
GuardTypeOK ==
    /\ ticks \in 0..MaxTicks
    /\ breaker \in Breaker
    /\ thread \in [Thread -> Statement]
    /\ failed \in 0..MaxFailed

\* A breaker that is open without a time it was opened at never lets a call through
\* again. It is only found so while a thread is about to set the one or the other:
\* late successes and failures, in any interleaving, do not close the dependency
\* for good, because the failure sets the state before the time and the success the
\* time before the state (circuit_breaker.py:31-48).
OpenBreakerRecovers ==
    breaker.state = "open" /\ breaker.openedAt = Unset =>
        \E t \in Thread : thread[t] \in {"stamp", "close"}
=============================================================================
