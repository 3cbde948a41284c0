-------------------------- MODULE NarrationService --------------------------
(* services/narration/service.py: NarrationService.generate and              *)
(* cached_or_deterministic, called by the threads of one process, over the   *)
(* governor. A call tries the providers in order and answers with the first  *)
(* accepted wording, or with the deterministic brief. What the gateway of    *)
(* the local provider does with a request is in NarrationGateway; here it is *)
(* one of the answers that module allows, or the client's timeout.           *)
EXTENDS ProviderGovernor

CONSTANTS
    Local, Vertex,          \* "local-qwen" and "vertex-ai-gemini"
    Chain,                  \* the configured providers, in order
    Packet,                 \* cache keys: packet, audience and intent
    NoPacket,
    CacheTtl,               \* cache_ttl_seconds, in ticks
    MaxCalls                \* bound: calls of generate

ASSUME ServiceAssumption ==
    /\ Chain \in Seq(Provider)
    /\ Local \in Provider /\ Vertex \in Provider /\ Local # Vertex
    /\ NoPacket \notin Packet
    /\ {CacheTtl, MaxCalls} \subseteq Nat

VARIABLES
    cache,          \* cache[k]: the brief of packet k and the instant its call began
    call,           \* call[c]: the call of generate that thread c is in
    calls           \* calls of generate so far

serviceVars == <<cache, call, calls>>
vars == <<governorVars, serviceVars>>

\* tried belongs to the model: was the cloud asked, or refused by its limits,
\* when the brief was written.
Brief == [mode: {"none", "llm", "deterministic_fallback"}, at: Nat, tried: BOOLEAN]
NoBrief == [mode |-> "none", at |-> 0, tried |-> FALSE]

\* deferred: LocalNarrationBusyError was raised; answered: a brief was returned.
Call ==
    [at: {"idle", "choosing", "governed", "asking", "heard", "answered", "deferred"},
     packet: Packet \cup {NoPacket}, now: Nat, next: Nat \ {0}, cloud: BOOLEAN,
     failed: SUBSET Provider,
     heard: {"none", "valid", "invalid", "busy", "failure"}]

NoCall == [at |-> "idle", packet |-> NoPacket, now |-> 0, next |-> 1, cloud |-> FALSE,
           failed |-> {}, heard |-> "none"]

Init ==
    /\ GovernorInit
    /\ cache = [k \in Packet |-> NoBrief]
    /\ call = [c \in Caller |-> NoCall]
    /\ calls = 0

-----------------------------------------------------------------------------
Fresh(k) == cache[k].mode # "none" /\ clock - cache[k].at <= CacheTtl

\* allow_cloud_fallback is cloud and defer_on_local_busy its opposite: the API's
\* calls allow the cloud and never defer; the inference worker's allow it once
\* the job has waited long enough, and defer until then.
Begin(c, k, cloud) ==
    /\ call[c].at = "idle" /\ calls < MaxCalls
    /\ calls' = calls + 1
    /\ call' = [call EXCEPT ![c] =
                  IF Fresh(k) THEN [NoCall EXCEPT !.at = "answered", !.packet = k]
                  ELSE [NoCall EXCEPT !.at = "choosing", !.packet = k, !.now = clock,
                                      !.cloud = cloud]]
    /\ UNCHANGED <<governorVars, cache>>

Current(c) == Chain[call[c].next]

\* The provider failed, was busy, was refused or was skipped: the next one.
GoOn(c) == call' = [call EXCEPT ![c].at = "choosing", ![c].next = @ + 1,
                                ![c].failed = @ \cup {Current(c)},
                                ![c].heard = "none"]

\* Line 354: Vertex is passed over while the cloud is not allowed.
SkipCloud(c) ==
    /\ call[c].at = "choosing" /\ call[c].next <= Len(Chain)
    /\ Current(c) = Vertex /\ ~call[c].cloud
    /\ GoOn(c)
    /\ UNCHANGED <<governorVars, cache, calls>>

EnterGovernor(c) ==
    /\ call[c].at = "choosing" /\ call[c].next <= Len(Chain)
    /\ Current(c) # Vertex \/ call[c].cloud
    /\ Enter(c, Current(c))
    /\ call' = [call EXCEPT ![c].at = "governed"]
    /\ UNCHANGED <<cache, calls>>

\* ProviderBlockedError: a deferring caller is told to come back, unless a daily
\* budget is the reason.
Defers(c, reason) ==
    /\ ~call[c].cloud /\ Current(c) = Local
    /\ reason \in {"concurrency_exhausted", "rate_limit_exhausted", "circuit_open"}

\* Mutant: a refused call turns to the same provider again.
RefusedAgain(c, reason) ==
    /\ call[c].at = "governed"
    /\ Refuse(c, reason)
    /\ call' = [call EXCEPT ![c].at = IF Defers(c, reason) THEN "deferred" ELSE "choosing"]
    /\ UNCHANGED <<cache, calls>>

RefusedByGovernor(c, reason) ==
    /\ call[c].at = "governed"
    /\ Refuse(c, reason)
    /\ IF Defers(c, reason) THEN call' = [call EXCEPT ![c].at = "deferred"] ELSE GoOn(c)
    /\ UNCHANGED <<cache, calls>>

\* The provider is called without the lock.
Ask(c) ==
    /\ call[c].at = "governed"
    /\ Admit(c)
    /\ call' = [call EXCEPT ![c].at = "asking"]
    /\ UNCHANGED <<cache, calls>>

\* _validate, which runs when the governor is done, accepts an answer or not.
Validated == {"valid", "invalid"}

\* generate_json raises on an error status, a timeout and an answer that is cut
\* off or not JSON; a 409 or 429 of the local provider is busy.
VertexAnswers == Validated \cup {"failure"}
LocalAnswers == Validated \cup {"failure", "busy"}
Answers(p) == IF p = Local THEN LocalAnswers ELSE VertexAnswers

\* What the governor is told: an answer that _validate will refuse is a success.
Outcome(heard) == IF heard \in Validated THEN "success" ELSE heard

Hear(c) ==
    /\ call[c].at = "asking"
    /\ \E heard \in Answers(Current(c)) :
          /\ RecordOutcome(c, Outcome(heard))
          /\ call' = [call EXCEPT ![c].at = "heard", ![c].heard = heard]
    /\ UNCHANGED <<cache, calls>>

\* The governor's finally, then what generate does with what it heard. The entry
\* written is dated with the clock the call read when it began.
Store(c, mode) ==
    cache' = [cache EXCEPT ![call[c].packet] =
                [mode |-> mode, at |-> call[c].now, tried |-> Vertex \in call[c].failed /\ call[c].cloud]]

Accept(c) ==
    /\ call[c].at = "heard" /\ call[c].heard = "valid"
    /\ Leave(c)
    /\ Store(c, "llm")
    /\ call' = [call EXCEPT ![c].at = "answered"]
    /\ UNCHANGED <<calls>>

\* ProviderBusyError of the local provider defers; anything else goes on.
Discard(c) ==
    /\ call[c].at = "heard" /\ call[c].heard # "valid"
    /\ Leave(c)
    /\ IF call[c].heard = "busy" /\ Current(c) = Local /\ ~call[c].cloud
       THEN call' = [call EXCEPT ![c].at = "deferred"]
       ELSE GoOn(c)
    /\ UNCHANGED <<cache, calls>>

\* Mutant: every fallback is cached.
CachesEveryFallback(c) == call[c].at = "choosing"

\* Lines 407-413: a fallback for which the cloud was not allowed and the local
\* provider failed is not cached.
CachesFallback(c) == call[c].cloud \/ Local \notin call[c].failed

FallBack(c) ==
    /\ call[c].at = "choosing" /\ call[c].next > Len(Chain)
    /\ IF CachesFallback(c) THEN Store(c, "deterministic_fallback") ELSE UNCHANGED cache
    /\ call' = [call EXCEPT ![c].at = "answered"]
    /\ UNCHANGED <<governorVars, calls>>

Return(c) ==
    /\ call[c].at \in {"answered", "deferred"}
    /\ call' = [call EXCEPT ![c] = NoCall]
    /\ UNCHANGED <<governorVars, cache, calls>>

-----------------------------------------------------------------------------
\* The steps of a call that its own thread takes.
CallStep(c) ==
    \/ SkipCloud(c) \/ EnterGovernor(c) \/ Ask(c)
    \/ \E reason \in Range(Reasons) : RefusedByGovernor(c, reason)
    \/ Hear(c) \/ Accept(c) \/ Discard(c) \/ FallBack(c) \/ Return(c)

Next ==
    \/ \E c \in Caller : \/ \E k \in Packet, cloud \in BOOLEAN : Begin(c, k, cloud)
                         \/ CallStep(c)
    \/ (Tick \/ NewDay \/ ReadStatus) /\ UNCHANGED serviceVars

Spec == Init /\ [][Next]_vars

\* Threads run, and a call of a provider has a timeout.
FairSpec == Spec /\ \A c \in Caller : WF_vars(CallStep(c))

-----------------------------------------------------------------------------
ServiceTypeOK ==
    /\ GovernorTypeOK
    /\ cache \in [Packet -> Brief]
    /\ call \in [Caller -> Call]
    /\ calls \in 0..MaxCalls

\* A cached deterministic brief never stands in the way of a cloud that nobody
\* asked: with the local provider configured, a fallback in the cache means that
\* the cloud was tried (service.py:407-413).
FallbackHidesNoCloud ==
    \A k \in Packet :
        cache[k].mode = "deterministic_fallback" /\ {Local, Vertex} \subseteq Range(Chain)
            => cache[k].tried

\* Every call ends with a brief or with a deferral, whatever the providers
\* answer and the governor refuses (service.py:353-415, governance.py:95-153).
EveryCallEnds == \A c \in Caller : call[c].at # "idle" ~> call[c].at = "idle"
=============================================================================
