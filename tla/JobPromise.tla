------------------------------ MODULE JobPromise ------------------------------
(***************************************************************************)
(* What the inference queue promises whoever enqueues an assessment, with  *)
(* no clock, lease, worker or attempt in sight: a request is open until it *)
(* is answered or lapses; at most one request per key is open; an answer   *)
(* was published before the request is called answered; and an answered or *)
(* lapsed request is never touched again.                                  *)
(***************************************************************************)
CONSTANTS Request, Key, NoKey

VARIABLES
    state,      \* of every request
    key,        \* the dedupe key it was submitted with
    published   \* requests whose answer has been published

promiseVars == <<state, key, published>>

RequestState == {"absent", "open", "answered", "lapsed"}

PromiseTypeOK ==
    /\ state \in [Request -> RequestState]
    /\ key \in [Request -> Key \cup {NoKey}]
    /\ published \subseteq Request

PromiseInit ==
    /\ state = [r \in Request |-> "absent"]
    /\ key = [r \in Request |-> NoKey]
    /\ published = {}

\* A new request opens; an open one of the same key keeps others out.
Submit(r, k) ==
    /\ state[r] = "absent"
    /\ \A q \in Request : ~(state[q] = "open" /\ key[q] = k)
    /\ state' = [state EXCEPT ![r] = "open"]
    /\ key' = [key EXCEPT ![r] = k]
    /\ UNCHANGED published

\* The answer to an open request is published, once.
Publish(r) ==
    /\ state[r] = "open"
    /\ r \notin published
    /\ published' = published \cup {r}
    /\ UNCHANGED <<state, key>>

\* A published answer closes its request.
Answer(r) ==
    /\ state[r] = "open"
    /\ r \in published
    /\ state' = [state EXCEPT ![r] = "answered"]
    /\ UNCHANGED <<key, published>>

\* Requests that grew too old lapse, any number of them together.
Lapse(aged) ==
    /\ aged /= {}
    /\ \A r \in aged : state[r] = "open"
    /\ state' = [r \in Request |-> IF r \in aged THEN "lapsed" ELSE state[r]]
    /\ UNCHANGED <<key, published>>

PromiseNext ==
    \/ \E r \in Request, k \in Key : Submit(r, k)
    \/ \E r \in Request : Publish(r) \/ Answer(r)
    \/ \E aged \in SUBSET Request : Lapse(aged)

PromiseSpec == PromiseInit /\ [][PromiseNext]_promiseVars
=============================================================================
