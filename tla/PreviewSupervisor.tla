--------------------------- MODULE PreviewSupervisor ---------------------------
(***************************************************************************)
(* The wake/sleep controller of the public preview                         *)
(* (infra/macmini/fabops_preview_idle_supervisor.py): HTTP handler threads *)
(* and a monitor read and set one flag under a lock; a thread per request  *)
(* starts or stops the containers, one at a time, under another lock.      *)
(*                                                                         *)
(* A block under the first lock is a step; so is a docker command, which   *)
(* may fail after part of it.  Threads that wait for the operation lock    *)
(* are counted: they have no state, and get it in any order.  Times are    *)
(* kept as ages, in ticks of at least fifteen seconds, up to the longest   *)
(* one that is compared.  The containers do not stop by themselves: they   *)
(* are restarted.                                                          *)
(***************************************************************************)
EXTENDS Naturals, Sequences, FiniteSets

CONSTANTS
    IdleTicks,       \* FABOPS_PREVIEW_IDLE_SECONDS
    MinUpTicks,      \* FABOPS_PREVIEW_MIN_UP_SECONDS
    WakeAgainTicks,  \* the thirty seconds of _sleep
    MaxRequests,     \* bound on HTTP requests and changes of the disabled file
    MaxFailures,     \* bound on docker commands that fail
    MaxCrashes       \* bound on crashes of the supervisor

ASSUME SupervisorAssumption ==
    /\ IdleTicks \in Nat \ {0} /\ MinUpTicks \in Nat /\ WakeAgainTicks \in Nat
    /\ WakeAgainTicks <= IdleTicks
    /\ MaxRequests \in Nat
    /\ MaxFailures \in Nat
    /\ MaxCrashes \in Nat

VARIABLES
    flag,         \* _state, or "down" between two processes
    activityAge,  \* since _last_activity
    wakeAge,      \* since _last_wake
    up,           \* running containers
    disabled,     \* the file that forbids wakes exists
    asking,       \* handlers in activity, about to call request_wake
    deciding,     \* the monitor is about to call request_sleep
    waiting,      \* number of threads waiting for the operation lock
    operation,    \* the thread that holds it, and the group its next command is for
    blind,        \* history: the process could not ask docker when it started
    requests, failures, crashes

flags == <<flag, activityAge, wakeAge>>
threads == <<asking, deciding, waiting, operation>>
bounds == <<requests, failures, crashes>>
vars == <<flags, up, disabled, threads, blind, bounds>>
-----------------------------------------------------------------------------
(* Containers; "api" stands for the API and the workers. *)

Service == {"postgres", "redpanda", "api", "web"}

StartOrder == <<{"postgres", "redpanda"}, {"api"}, {"web"}>>

StopOrder == <<{"web"}, {"api"}, {"redpanda"}, {"postgres"}>>

\* A container and what it needs below it.
Closed(running) ==
    /\ "api" \in running => {"postgres", "redpanda"} \subseteq running
    /\ "web" \in running => "api" \in running

Wakeable == {"sleeping", "partial", "error"}

Flag == Wakeable \cup {"running", "starting", "stopping", "down"}

NoOperation == [kind |-> "none", step |-> 1]

TypeOK ==
    /\ flag \in Flag
    /\ activityAge \in 0..IdleTicks
    /\ wakeAge \in 0..MinUpTicks
    /\ up \subseteq Service
    /\ disabled \in BOOLEAN
    /\ asking \in Nat
    /\ deciding \in BOOLEAN
    /\ waiting \in [{"wake", "sleep"} -> Nat]
    /\ operation \in [kind : {"none", "wake", "sleep", "again"}, step : 1..5]
    /\ blind \in BOOLEAN
    /\ requests \in 0..MaxRequests
    /\ failures \in 0..MaxFailures
    /\ crashes \in 0..MaxCrashes

\* Before the first process the containers may have been left at any stage of a
\* start or a stop, and the state file may be of any age.
Init ==
    /\ flag = "down"
    /\ activityAge \in 0..IdleTicks
    /\ wakeAge \in 0..MinUpTicks
    /\ up \in {running \in SUBSET Service : Closed(running)}
    /\ disabled = FALSE
    /\ asking = 0
    /\ deciding = FALSE
    /\ waiting = [kind \in {"wake", "sleep"} |-> 0]
    /\ operation = NoOperation
    /\ blind = FALSE
    /\ requests = 0
    /\ failures = 0
    /\ crashes = 0
-----------------------------------------------------------------------------
(* The flag. *)

Older(age, limit) == IF age < limit THEN age + 1 ELSE age

CountRequest ==
    /\ flag /= "down"
    /\ requests < MaxRequests
    /\ requests' = requests + 1
    /\ UNCHANGED <<failures, crashes>>

Fails == failures < MaxFailures /\ failures' = failures + 1 /\ UNCHANGED <<requests, crashes>>

\* The body of request_wake, under the lock, and the start of its thread.
Wake ==
    IF flag = "starting" \/ disabled
    THEN UNCHANGED <<flags, waiting>>
    ELSE /\ flag' = "starting"
         /\ activityAge' = 0
         /\ waiting' = [waiting EXCEPT !["wake"] = @ + 1]
         /\ UNCHANGED wakeAge

\* The same of request_sleep.
Sleep ==
    IF flag \in {"sleeping", "stopping"}
    THEN UNCHANGED <<flags, waiting>>
    ELSE /\ flag' = "stopping"
         /\ waiting' = [waiting EXCEPT !["sleep"] = @ + 1]
         /\ UNCHANGED <<activityAge, wakeAge>>

\* ACTION: activity, up to the end of its lock.  Whether wakes are forbidden is seen
\* later.
Activity ==
    /\ CountRequest
    /\ activityAge' = 0
    /\ asking' = IF flag \in Wakeable THEN asking + 1 ELSE asking
    /\ UNCHANGED <<flag, wakeAge, up, disabled, deciding, waiting, operation, blind>>

\* ACTION: request_wake, called by activity if the file does not exist, which
\* request_wake asks again.
RequestWake ==
    /\ asking > 0
    /\ asking' = asking - 1
    /\ Wake
    /\ UNCHANGED <<up, disabled, deciding, operation, blind, bounds>>

\* ACTION: POST /sleep.
PostSleep ==
    /\ CountRequest
    /\ Sleep
    /\ UNCHANGED <<up, disabled, asking, deciding, operation, blind>>

\* ACTION: someone creates or removes the file that forbids wakes.
Maintenance ==
    /\ CountRequest
    /\ disabled' = ~disabled
    /\ UNCHANGED <<flags, up, threads, blind>>

\* ACTION: monitor_once finds the stack idle.
Decide ==
    /\ flag = "running" /\ ~deciding
    /\ wakeAge >= MinUpTicks
    /\ activityAge >= IdleTicks
    /\ deciding' = TRUE
    /\ UNCHANGED <<flags, up, disabled, asking, waiting, operation, blind, bounds>>

\* ACTION: and requests sleep, whatever happened since.
MonitorSleep ==
    /\ deciding
    /\ deciding' = FALSE
    /\ Sleep
    /\ UNCHANGED <<up, disabled, asking, operation, blind, bounds>>
-----------------------------------------------------------------------------
(* The operations. *)

Ends == operation' = NoOperation

\* What a docker command that fails or is cut short may leave.
HalfDone ==
    CASE operation.kind = "wake" /\ operation.step <= Len(StartOrder) ->
             {up \cup some : some \in SUBSET StartOrder[operation.step]}
      [] operation.kind = "sleep" /\ operation.step <= Len(StopOrder) ->
             {up \ some : some \in SUBSET StopOrder[operation.step]}
      [] OTHER -> {up}

\* ACTION: a waiting thread takes the operation lock.
BeginOperation(kind) ==
    /\ operation = NoOperation
    /\ waiting[kind] > 0
    /\ waiting' = [waiting EXCEPT ![kind] = @ - 1]
    /\ operation' = [kind |-> kind, step |-> 1]
    /\ UNCHANGED <<flags, up, disabled, asking, deciding, blind, bounds>>

\* ACTION: the next group of containers is started and becomes ready.
StartGroup ==
    /\ operation.kind = "wake" /\ operation.step <= Len(StartOrder)
    /\ up' = up \cup StartOrder[operation.step]
    /\ operation' = [operation EXCEPT !.step = @ + 1]
    /\ UNCHANGED <<flags, disabled, asking, deciding, waiting, blind, bounds>>

\* ACTION: docker fails, or the group does not become ready in time.
StartFails ==
    /\ operation.kind = "wake" /\ operation.step <= Len(StartOrder)
    /\ Fails
    /\ up' \in HalfDone
    /\ flag' = "error"
    /\ Ends
    /\ UNCHANGED <<activityAge, wakeAge, disabled, asking, deciding, waiting, blind>>

\* Fault: a wake leaves a flag alone that was changed since it was requested.
WakeDoneIfStarting ==
    /\ operation.kind = "wake" /\ operation.step > Len(StartOrder)
    /\ flag' = IF flag = "starting" THEN "running" ELSE flag
    /\ activityAge' = 0 /\ wakeAge' = 0
    /\ Ends
    /\ UNCHANGED <<up, disabled, asking, deciding, waiting, blind, bounds>>

\* ACTION: the end of _wake.
WakeDone ==
    /\ operation.kind = "wake" /\ operation.step > Len(StartOrder)
    /\ flag' = "running"
    /\ activityAge' = 0 /\ wakeAge' = 0
    /\ Ends
    /\ UNCHANGED <<up, disabled, asking, deciding, waiting, blind, bounds>>

\* ACTION: the next group is stopped.
StopGroup ==
    /\ operation.kind = "sleep" /\ operation.step <= Len(StopOrder)
    /\ up' = up \ StopOrder[operation.step]
    /\ operation' = [operation EXCEPT !.step = @ + 1]
    /\ UNCHANGED <<flags, disabled, asking, deciding, waiting, blind, bounds>>

\* Fault: the result of a stop is not checked.
StopFailsUnchecked ==
    /\ operation.kind = "sleep" /\ operation.step <= Len(StopOrder)
    /\ Fails
    /\ up' \in HalfDone
    /\ operation' = [operation EXCEPT !.step = @ + 1]
    /\ UNCHANGED <<flags, disabled, asking, deciding, waiting, blind>>

\* ACTION: docker fails.
StopFails ==
    /\ operation.kind = "sleep" /\ operation.step <= Len(StopOrder)
    /\ Fails
    /\ up' \in HalfDone
    /\ flag' = "error"
    /\ Ends
    /\ UNCHANGED <<activityAge, wakeAge, disabled, asking, deciding, waiting, blind>>

\* ACTION: the end of _sleep, which wakes again after an activity not long ago.
SleepDone ==
    /\ operation.kind = "sleep" /\ operation.step > Len(StopOrder)
    /\ flag' = "sleeping"
    /\ operation' = IF activityAge < WakeAgainTicks /\ ~disabled
                    THEN [kind |-> "again", step |-> 1] ELSE NoOperation
    /\ blind' = FALSE
    /\ UNCHANGED <<activityAge, wakeAge, up, disabled, asking, deciding, waiting, bounds>>

\* ACTION: request_wake, called by _sleep with the operation lock still held.
WakeAgain ==
    /\ operation.kind = "again"
    /\ Wake
    /\ Ends
    /\ UNCHANGED <<up, disabled, asking, deciding, blind, bounds>>
-----------------------------------------------------------------------------
(* The process. *)

\* ACTION: a new process judges the containers: ready, if all are running and
\* healthy.  The activity it loads was written up to fifteen seconds before the last.
Boot ==
    /\ flag = "down"
    /\ flag' \in CASE up = Service -> {"running", "partial"}
                   [] up = {} -> {"sleeping"}
                   [] OTHER -> {"partial"}
    /\ activityAge' \in {activityAge, Older(activityAge, IdleTicks)}
    /\ blind' = FALSE
    /\ UNCHANGED <<wakeAge, up, disabled, threads, bounds>>

\* ACTION: docker does not answer it.
BootBlind ==
    /\ flag = "down"
    /\ Fails
    /\ flag' = "sleeping"
    /\ blind' = TRUE
    /\ UNCHANGED <<activityAge, wakeAge, up, disabled, threads>>

\* ACTION: the process ends, and its threads and their commands with it; launchd
\* keeps it alive.
Crash ==
    /\ flag /= "down"
    /\ crashes < MaxCrashes
    /\ crashes' = crashes + 1
    /\ flag' = "down"
    /\ asking' = 0
    /\ deciding' = FALSE
    /\ waiting' = [kind \in {"wake", "sleep"} |-> 0]
    /\ up' \in HalfDone
    /\ Ends
    /\ UNCHANGED <<activityAge, wakeAge, disabled, blind, requests, failures>>

\* ACTION: time passes.
Tick ==
    /\ activityAge' = Older(activityAge, IdleTicks)
    /\ wakeAge' = Older(wakeAge, MinUpTicks)
    /\ UNCHANGED <<flag, up, disabled, threads, blind, bounds>>

Operate ==
    \/ BeginOperation("wake") \/ BeginOperation("sleep")
    \/ StartGroup \/ StartFails \/ WakeDone
    \/ StopGroup \/ StopFails \/ SleepDone \/ WakeAgain

Next ==
    \/ Activity \/ PostSleep \/ Maintenance
    \/ RequestWake \/ Decide \/ MonitorSleep
    \/ Operate
    \/ Boot \/ BootBlind \/ Crash
    \/ Tick

Spec == Init /\ [][Next]_vars

\* Threads run, docker commands end (a wait for readiness is limited), launchd
\* restarts the process, time passes; nobody has to ask for anything.
FairSpec ==
    /\ Spec
    /\ WF_vars(RequestWake) /\ WF_vars(Decide) /\ WF_vars(MonitorSleep)
    /\ WF_vars(Operate)
    /\ WF_vars(Boot)
    /\ WF_vars(Tick)
-----------------------------------------------------------------------------
(* Properties. *)

\* No visitor reaches a page without its API, and no API is up without its data
\* stores, whatever starts and stops fail half way or queue behind each other
\* (lines 153 and 163).
IngressOnTop == Closed(up)

Under(kind) == operation.kind = kind \/ waiting[kind] > 0

\* The flag tells the truth of the containers unless an operation that will change
\* them, and the flag with them, is queued or under way: in whatever order threads
\* get their lock, commands fail and late decisions arrive.
FlagIsTrue ==
    /\ flag = "running" /\ ~Under("sleep") => up = Service
    /\ flag = "sleeping" /\ ~Under("wake") => blind \/ up = {}
    /\ flag = "starting" => Under("wake")
    /\ flag = "stopping" => Under("sleep")

\* Who was told "starting" gets a running stack or an error to wake it from, though
\* the flag may say something else in between.
WakesEnd == flag = "starting" ~> flag \in {"running", "error", "down"}
=============================================================================
