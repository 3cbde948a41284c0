-------------------------- MODULE NarrationGateway --------------------------
(* services/narration/gateway.py: the private gateway in front of LM Studio. *)
(* A request waits for a slot, checks that no generation is active, makes    *)
(* sure the model is loaded, sleeps, checks again and dispatches its own     *)
(* generation in a thread. The wait for that thread may end first: the slot  *)
(* is given back while the generation goes on. LM Studio and the person who  *)
(* uses it are external.                                                     *)
EXTENDS Integers, FiniteSets

CONSTANTS
    Request,        \* requests under way; an ended one may be used again
    User,           \* the interactive generation
    Slots           \* FABOPS_GATEWAY_MAX_CONCURRENCY

ASSUME GatewayAssumption ==
    /\ IsFiniteSet(Request) /\ User \notin Request
    /\ Slots \in Nat \ {0}

VARIABLES
    free,           \* the value of the semaphore
    req,            \* req[r]: where request r is in chat_completions
    running,        \* generations LM Studio is working on
    loaded,         \* is the configured model loaded
    unseen          \* history: requests that sent their generation while another was
                    \* running, which their second check did not see

gatewayVars == <<free, req, running, loaded, unseen>>

\* What chat_completions answers: 200, 401 and 422, 413, 429, 502, 504.
Status == {"ok", "refused", "tooLarge", "busy", "error", "timeout"}

RequestState ==
    [at: {"idle", "waiting", "holding", "checked", "loading", "sleeping", "sending", "upstream", "done"},
     status: Status \cup {"none"}]

Idle == [at |-> "idle", status |-> "none"]

\* Requests that hold a slot: from acquire to the finally.
Holding == {r \in Request :
              req[r].at \in {"holding", "checked", "loading", "sleeping", "sending", "upstream"}}

GatewayInit ==
    /\ free = Slots
    /\ req = [r \in Request |-> Idle]
    /\ running = {}
    /\ loaded \in BOOLEAN
    /\ unseen = {}

-----------------------------------------------------------------------------
\* _interactive_inference_busy. lsof or `lms ps` may fail, which reads as not
\* busy, and lsof also sees connections that generate nothing, such as the
\* health check's own.
BusyProbe(answer) == answer \in BOOLEAN

To(r, at) == req' = [req EXCEPT ![r].at = at]

\* The finally gives the slot back with every answer.
Answer(r, status) ==
    /\ req' = [req EXCEPT ![r] = [at |-> "done", status |-> status]]
    /\ free' = free + 1

\* _authorize and the fixed model; then the wait for a slot begins.
Arrive(r) ==
    /\ req[r].at = "idle" /\ r \notin running
    /\ \/ To(r, "waiting")
       \/ req' = [req EXCEPT ![r].at = "done", ![r].status = "refused"]
    /\ UNCHANGED <<free, running, loaded, unseen>>

AcquireSlot(r) ==
    /\ req[r].at = "waiting" /\ free > 0
    /\ free' = free - 1
    /\ To(r, "holding")
    /\ UNCHANGED <<running, loaded, unseen>>

\* wait_for(acquire) runs out: no slot is held, none is given back.
SlotTimeout(r) ==
    /\ req[r].at = "waiting"
    /\ req' = [req EXCEPT ![r].at = "done", ![r].status = "busy"]
    /\ UNCHANGED <<free, running, loaded, unseen>>

FirstCheck(r) ==
    /\ req[r].at = "holding"
    /\ \E busy \in BOOLEAN : BusyProbe(busy) /\ IF busy THEN Answer(r, "busy")
                                                ELSE To(r, "checked") /\ UNCHANGED free
    /\ UNCHANGED <<running, loaded, unseen>>

\* _ensure_model: the model is found loaded, or it is not found (a failed
\* `lms ps` reads so too) and another busy check decides whether to load it.
EnsureModel(r) ==
    /\ req[r].at = "checked"
    /\ \/ loaded /\ To(r, "sleeping") /\ UNCHANGED free
       \/ \E busy \in BOOLEAN : BusyProbe(busy) /\ IF busy THEN Answer(r, "busy")
                                                   ELSE To(r, "loading") /\ UNCHANGED free
    /\ UNCHANGED <<running, loaded, unseen>>

\* `lms load` ends: with the model there, or with a RuntimeError or a timeout.
LoadEnds(r) ==
    /\ req[r].at = "loading"
    /\ \/ loaded' = TRUE /\ To(r, "sleeping") /\ UNCHANGED free
       \/ Answer(r, "error") /\ UNCHANGED loaded
    /\ UNCHANGED <<running, unseen>>

\* Mutant: what the second check finds is not looked at.
SecondCheckIgnored(r) ==
    /\ req[r].at = "sleeping"
    /\ \E busy \in BOOLEAN :
          unseen' = IF running # {} /\ ~busy THEN unseen \cup {r} ELSE unseen \ {r}
    /\ To(r, "sending")
    /\ UNCHANGED <<free, running, loaded>>

SecondCheck(r) ==
    /\ req[r].at = "sleeping"
    /\ \E busy \in BOOLEAN :
          /\ BusyProbe(busy)
          /\ IF busy THEN Answer(r, "busy") /\ UNCHANGED unseen
             ELSE /\ To(r, "sending")
                  /\ unseen' = IF running # {} THEN unseen \cup {r} ELSE unseen \ {r}
                  /\ UNCHANGED free
    /\ UNCHANGED <<running, loaded>>

\* The request is too large, or its thread begins the generation.
Dispatch(r) ==
    /\ req[r].at = "sending"
    /\ \/ Answer(r, "tooLarge") /\ UNCHANGED running
       \/ To(r, "upstream") /\ running' = running \cup {r} /\ UNCHANGED free
    /\ UNCHANGED <<loaded, unseen>>

\* LM Studio answers, or rejects with 409/429 or another error, or the socket
\* times out: the connection is gone and with it the generation.
UpstreamEnds(r) ==
    /\ req[r].at = "upstream"
    /\ \E status \in {"ok", "busy", "error", "timeout"} :
          req' = [req EXCEPT ![r] = [at |-> "done", status |-> status]]
    /\ free' = free + 1
    /\ running' = running \ {r}
    /\ UNCHANGED <<loaded, unseen>>

\* Mutant: the slot is kept until the thread that is left behind ends.
GiveUpHolding(r) ==
    /\ req[r].at = "upstream"
    /\ req' = [req EXCEPT ![r] = [at |-> "done", status |-> "timeout"]]
    /\ UNCHANGED <<free, running, loaded, unseen>>

\* wait_for gives up at timeout + 1; the thread and its generation go on.
GiveUp(r) ==
    /\ req[r].at = "upstream"
    /\ Answer(r, "timeout")
    /\ UNCHANGED <<running, loaded, unseen>>

\* The client has read the answer, or is gone.
Collected(r) ==
    /\ req[r].at = "done"
    /\ req' = [req EXCEPT ![r] = Idle]
    /\ UNCHANGED <<free, running, loaded, unseen>>

-----------------------------------------------------------------------------
\* External: a generation whose request is over ends at last; the person starts
\* and ends a generation of their own, and unloads the model or lets it expire.
GenerationEnds(g) ==
    /\ g \in running
    /\ g \in Request => req[g].at # "upstream"
    /\ running' = running \ {g}
    /\ UNCHANGED <<free, req, loaded, unseen>>

UserGenerates ==
    /\ User \notin running
    /\ running' = running \cup {User}
    /\ loaded' \in {loaded, TRUE}
    /\ UNCHANGED <<free, req, unseen>>

ModelUnloads ==
    /\ loaded /\ running = {}
    /\ loaded' = FALSE
    /\ UNCHANGED <<free, req, running, unseen>>

GatewayStep(r) ==
    \/ AcquireSlot(r) \/ SlotTimeout(r) \/ FirstCheck(r) \/ EnsureModel(r) \/ LoadEnds(r)
    \/ SecondCheck(r) \/ Dispatch(r) \/ UpstreamEnds(r) \/ GiveUp(r)

LMStudio ==
    \/ \E g \in Request \cup {User} : GenerationEnds(g)
    \/ UserGenerates
    \/ ModelUnloads

GatewayNext ==
    \/ \E r \in Request : Arrive(r) \/ GatewayStep(r) \/ Collected(r)
    \/ LMStudio

GatewaySpec == GatewayInit /\ [][GatewayNext]_gatewayVars

-----------------------------------------------------------------------------
GatewayTypeOK ==
    /\ free \in 0..Slots
    /\ req \in [Request -> RequestState]
    /\ running \subseteq Request \cup {User}
    /\ loaded \in BOOLEAN
    /\ unseen \subseteq Request

\* Every answer gives back exactly the slot its request took, and a request that
\* got none gives none back: the semaphore neither shrinks, which would end the
\* local model's use for good, nor grows past its limit (gateway.py:274-312).
SlotsAreReturned == free + Cardinality(Holding) = Slots

\* Of the generations the gateway has the model work on, those left behind by a
\* request that has timed out and given its slot back included, no more run at once
\* than it has slots, but for the ones sent where the second check did not see another
\* that was running (gateway.py:178-180, 274-312).
GenerationsFitSlots == Cardinality((running \cap Request) \ unseen) <= Slots
=============================================================================
