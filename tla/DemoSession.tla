----------------------------- MODULE DemoSession -----------------------------
(* services/narration/demo.py: DemoSessionPolicy, the budget of the public   *)
(* AI demo. A token carries its own expiry on the wall clock; the counts of  *)
(* its session and of its client live in memory, in windows of the monotonic *)
(* clock. A request verifies the token first and counts under the lock later.*)
EXTENDS Integers, FiniteSets

CONSTANTS
    Session,            \* sid of an issued token
    Client,             \* client addresses
    Handler,            \* requests being served at once
    Ttl,                \* ttl_seconds, in ticks
    Hour,               \* 3600 seconds, in ticks
    PerSession,         \* max_generations_per_session
    PerClient,          \* max_generations_per_ip_hour
    NoSession, NoClient,
    MaxInstant, MaxRestarts     \* bounds of the model

ASSUME DemoAssumption ==
    /\ NoSession \notin Session /\ NoClient \notin Client
    /\ {Ttl, Hour, PerSession, PerClient} \subseteq Nat \ {0}
    /\ {MaxInstant, MaxRestarts} \subseteq Nat

VARIABLES
    instant,        \* time.time and time.monotonic, which advance together
    expires,        \* expires[s]: exp of the token of s, 0 before it is issued
    sessions,       \* _session_counts: where the window began, and its count
    clients,        \* _ip_counts
    handler,        \* handler[h]: the request h is serving
    restarts,       \* restarts of the process
    spent           \* spent[s]: generations accepted before its token expired

demoVars == <<instant, expires, sessions, clients, handler, restarts, spent>>

Window == [from: Nat, count: Nat]
Unused == [from |-> 0, count |-> 0]

Handling == [at: {"idle", "verified", "timed"}, session: Session \cup {NoSession},
             client: Client \cup {NoClient}, now: Nat]
Resting == [at |-> "idle", session |-> NoSession, client |-> NoClient, now |-> 0]

DemoInit ==
    /\ instant = 1
    /\ expires = [s \in Session |-> 0]
    /\ sessions = [s \in Session |-> Unused]
    /\ clients = [a \in Client |-> Unused]
    /\ handler = [h \in Handler |-> Resting]
    /\ restarts = 0
    /\ spent = [s \in Session |-> 0]

Issue(s) ==
    /\ expires[s] = 0
    /\ expires' = [expires EXCEPT ![s] = instant + Ttl]
    /\ UNCHANGED <<instant, sessions, clients, handler, restarts, spent>>

\* _verify, without the lock. A refused token or intent changes only statistics.
Verify(h, s, a) ==
    /\ handler[h].at = "idle"
    /\ expires[s] > instant
    /\ handler' = [handler EXCEPT ![h] =
                     [Resting EXCEPT !.at = "verified", !.session = s, !.client = a]]
    /\ UNCHANGED <<instant, expires, sessions, clients, restarts, spent>>

\* now = time.monotonic(), before the lock is waited for.
ReadClock(h) ==
    /\ handler[h].at = "verified"
    /\ handler' = [handler EXCEPT ![h].at = "timed", ![h].now = instant]
    /\ UNCHANGED <<instant, expires, sessions, clients, restarts, spent>>

\* Mutant: a window is over one tick before its length.
OpenEarly(w, now, length) ==
    IF w.count = 0 \/ now - w.from >= length - 1 THEN [from |-> now, count |-> 0] ELSE w

\* The window that counts at now: a new one when there is none or its time is over.
Open(w, now, length) ==
    IF w.count = 0 \/ now - w.from >= length THEN [from |-> now, count |-> 0] ELSE w

OneMore(w) == [w EXCEPT !.count = @ + 1]

\* The locked part of consume: both limits, then both counts.
Consume(h) ==
    LET s == handler[h].session
        a == handler[h].client
        window == Open(sessions[s], handler[h].now, Ttl)
        hourly == Open(clients[a], handler[h].now, Hour)
        accepted == window.count < PerSession /\ hourly.count < PerClient
    IN  /\ handler[h].at = "timed"
        /\ handler' = [handler EXCEPT ![h] = Resting]
        /\ IF accepted
           THEN /\ sessions' = [sessions EXCEPT ![s] = OneMore(window)]
                /\ clients' = [clients EXCEPT ![a] = OneMore(hourly)]
                /\ spent' = [spent EXCEPT ![s] = @ + IF instant < expires[s] THEN 1 ELSE 0]
           ELSE UNCHANGED <<sessions, clients, spent>>
        /\ UNCHANGED <<instant, expires, restarts>>

Passes ==
    /\ instant < MaxInstant
    /\ instant' = instant + 1
    /\ UNCHANGED <<expires, sessions, clients, handler, restarts, spent>>

\* The process restarts: the secret, and with it the tokens, stay valid.
Restart ==
    /\ restarts < MaxRestarts
    /\ restarts' = restarts + 1
    /\ sessions' = [s \in Session |-> Unused]
    /\ clients' = [a \in Client |-> Unused]
    /\ handler' = [h \in Handler |-> Resting]
    /\ UNCHANGED <<instant, expires, spent>>

DemoNext ==
    \/ \E s \in Session : Issue(s)
    \/ \E h \in Handler : \/ \E s \in Session, a \in Client : Verify(h, s, a)
                          \/ ReadClock(h)
                          \/ Consume(h)
    \/ Passes
    \/ Restart

DemoSpec == DemoInit /\ [][DemoNext]_demoVars

-----------------------------------------------------------------------------
DemoTypeOK ==
    /\ instant \in Nat
    /\ expires \in [Session -> Nat]
    /\ sessions \in [Session -> Window]
    /\ clients \in [Client -> Window]
    /\ handler \in [Handler -> Handling]
    /\ restarts \in 0..MaxRestarts
    /\ spent \in [Session -> Nat]
    /\ \A h \in Handler : handler[h].at # "idle" =>
          handler[h].session \in Session /\ handler[h].client \in Client

\* A token buys its limit of generations once per life of the process: the
\* window of its session cannot begin again before the token expires, whichever
\* requests wait between the verification and the lock (demo.py:91-121).
TokenBuysItsLimit == \A s \in Session : spent[s] <= PerSession * (restarts + 1)
=============================================================================
