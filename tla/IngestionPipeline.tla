--------------------------- MODULE IngestionPipeline ---------------------------
(***************************************************************************)
(* Ingestion: systems/stream_worker/main.py consuming the topic through    *)
(* adapters/redpanda/adapter.py, services/ingestion/service.py in one      *)
(* transaction of adapters/postgres/repository.py per event, and the       *)
(* detector (services/detection/service.py) as its projector.              *)
(*                                                                         *)
(* What other transactions can see of one in progress is kept: the lock on *)
(* its event id and on its case, and the log sequence it has drawn, which  *)
(* a rollback does not give back.  The detector's memory is a value of its *)
(* process: no rollback touches it, a crash empties it.  It is a function  *)
(* of the events consumed, and is kept as their sequence; the events are   *)
(* those of one lot.                                                       *)
(***************************************************************************)
EXTENDS Naturals, Sequences, FiniteSets

CONSTANTS
    Event,         \* event ids
    Incident,      \* the events that materialise the lot's case
    Invalid,       \* those the envelope's schema refuses
    Undecodable,   \* those that are no JSON
    Consumer,      \* consuming processes, each a consumer group of its own
    Replaying,     \* the stream workers among them, which replay the log at start
    Integrated,    \* those that build the integration runtime, which consumes at start
    NoEvent,
    MaxAttempts,   \* RedpandaConfig.max_attempts
    MaxPublished,  \* bound on the messages published
    MaxErrors,     \* bound on the attempts that fail
    MaxCrashes     \* bound on the crashes of consumers

ASSUME PipelineAssumption ==
    /\ Incident \subseteq Event /\ Invalid \subseteq Event /\ Undecodable \subseteq Event
    /\ Replaying \subseteq Consumer /\ Integrated \subseteq Consumer
    /\ NoEvent \notin Event
    /\ MaxAttempts \in Nat \ {0}
    /\ MaxPublished \in Nat
    /\ MaxErrors \in Nat
    /\ MaxCrashes \in Nat

VARIABLES
    topic,       \* fabops.events.v1, one partition
    reserved,    \* fabops_event_reservations, committed
    log,         \* fabops_event_log by sequence; NoEvent where none was committed
    outbox,      \* fabops_outbox: the events announced
    quarantine,  \* events in fabops_quarantine
    dlq,         \* events in fabops.events.dlq.v1
    case,        \* the case document: the events its evidence comes from
    opened,      \* number of case.detected audit records
    checkpoint,  \* fabops_consumer_checkpoint of "detection"
    committed,   \* per consumer: the offset of its group
    consumer,    \* per consumer: its process
    errors,      \* attempts failed (bounded by MaxErrors)
    crashes      \* crashes (bounded by MaxCrashes)

database == <<reserved, log, outbox, case, opened, checkpoint>>
bounds == <<errors, crashes>>
vars == <<topic, database, quarantine, dlq, committed, consumer, bounds>>
-----------------------------------------------------------------------------
(* Processes. *)

\* "poll": between messages.  "reserve" to "commit": in the transaction, before
\* that step.  "offset", "dead": handled, failed.  "replay": reading the log.
\* "down": not running, or no longer consuming.
InTransaction == {"reserve", "append", "project", "commit"}

PC == InTransaction \cup {"poll", "offset", "dead", "replay", "down"}

Process ==
    [pc : PC, position : Nat, attempts : 0..MaxAttempts, sequence : Nat,
     building : BOOLEAN,   \* in the subscription of build_integration_runtime
     memory : Seq(Event), todo : Seq(Event \cup {NoEvent})]

NoCase == <<>>

TypeOK ==
    /\ topic \in Seq(Event)
    /\ reserved \subseteq Event
    /\ log \in Seq(Event \cup {NoEvent})
    /\ outbox \in Seq(Event)
    /\ quarantine \subseteq Event
    /\ dlq \subseteq Event
    /\ case \in Seq(Event)
    /\ opened \in Nat
    /\ checkpoint \in Nat
    /\ committed \in [Consumer -> Nat]
    /\ consumer \in [Consumer -> Process]
    /\ errors \in 0..MaxErrors
    /\ crashes \in 0..MaxCrashes

Init ==
    /\ topic = <<>>
    /\ reserved = {}
    /\ log = <<>>
    /\ outbox = <<>>
    /\ quarantine = {}
    /\ dlq = {}
    /\ case = NoCase
    /\ opened = 0
    /\ checkpoint = 0
    /\ committed = [c \in Consumer |-> 0]
    /\ consumer = [c \in Consumer |->
          [pc |-> "down", position |-> 0, attempts |-> 0, sequence |-> 0, building |-> FALSE,
           memory |-> <<>>, todo |-> <<>>]]
    /\ errors = 0
    /\ crashes = 0

\* The message c is at.
Current(c) == topic[consumer[c].position + 1]

Becomes(c, process) == consumer' = [consumer EXCEPT ![c] = process]

Moves(c, from, to) ==
    /\ consumer[c].pc = from
    /\ Becomes(c, [consumer[c] EXCEPT !.pc = to])

Logged == {log[s] : s \in DOMAIN log} \ {NoEvent}

\* Events that need no further work.
Handled == Logged \cup quarantine \cup dlq

\* c holds the lock of e's reservation; c holds the lock of the case.
HoldsEvent(c, e) == consumer[c].pc \in {"append", "project", "commit"} /\ Current(c) = e

HoldsCase(c) == consumer[c].pc = "commit" /\ Current(c) \in Incident
-----------------------------------------------------------------------------
(* The transport. *)

\* ACTION: a producer publishes an event, also one published before.
Publish(e) ==
    /\ Len(topic) < MaxPublished
    /\ topic' = Append(topic, e)
    /\ UNCHANGED <<database, quarantine, dlq, committed, consumer, bounds>>

\* ACTION: a message is polled and decoded.
Poll(c) ==
    /\ consumer[c].position < Len(topic)
    /\ Current(c) \notin Undecodable
    /\ consumer[c].pc = "poll"
    /\ Becomes(c, [consumer[c] EXCEPT !.pc = "reserve", !.attempts = 0])
    /\ UNCHANGED <<topic, database, quarantine, dlq, committed, bounds>>

\* ACTION: a message that does not decode goes to the dead letters.
PollUndecodable(c) ==
    /\ consumer[c].position < Len(topic)
    /\ Current(c) \in Undecodable
    /\ Moves(c, "poll", "offset")
    /\ dlq' = dlq \cup {Current(c)}
    /\ UNCHANGED <<topic, database, quarantine, committed, bounds>>

\* ACTION: the offset of a handled message is committed.
CommitOffset(c) ==
    /\ consumer[c].pc = "offset"
    /\ Becomes(c, [consumer[c] EXCEPT !.pc = "poll", !.position = @ + 1])
    /\ committed' = [committed EXCEPT ![c] = consumer[c].position + 1]
    /\ UNCHANGED <<topic, database, quarantine, dlq, bounds>>

\* Fault: the failed message is only skipped.
SkipFailed(c) ==
    /\ consumer[c].pc = "dead"
    /\ Becomes(c, [consumer[c] EXCEPT !.pc = "poll", !.position = @ + 1])
    /\ UNCHANGED <<topic, database, quarantine, dlq, committed, bounds>>

\* ACTION: a message whose every attempt failed is published to the dead letters;
\* its offset is not committed, the next success commits past it.
DeadLetter(c) ==
    /\ consumer[c].pc = "dead"
    /\ dlq' = dlq \cup {Current(c)}
    /\ Becomes(c, [consumer[c] EXCEPT !.pc = "poll", !.position = @ + 1])
    /\ UNCHANGED <<topic, database, quarantine, committed, bounds>>
-----------------------------------------------------------------------------
(* The transaction. *)

\* ACTION: an event the schema refuses is quarantined.
Quarantine(c) ==
    /\ Moves(c, "reserve", "offset")
    /\ Current(c) \in Invalid
    /\ quarantine' = quarantine \cup {Current(c)}
    /\ UNCHANGED <<topic, database, dlq, committed, bounds>>

\* Fault: nothing is waited for.
FreeAlways(c) == consumer[c].pc = "reserve"

\* Waits while another transaction has inserted the same id.
Free(c) == \A d \in Consumer \ {c} : ~HoldsEvent(d, Current(c))

\* ACTION: reserve_event_id found the id: duplicate_noop.
ReserveDuplicate(c) ==
    /\ Moves(c, "reserve", "offset")
    /\ Current(c) \notin Invalid
    /\ Free(c)
    /\ Current(c) \in reserved
    /\ UNCHANGED <<topic, database, quarantine, dlq, committed, bounds>>

\* ACTION: reserve_event_id inserts the id.
Reserve(c) ==
    /\ Moves(c, "reserve", "append")
    /\ Current(c) \notin Invalid
    /\ Free(c)
    /\ Current(c) \notin reserved
    /\ UNCHANGED <<topic, database, quarantine, dlq, committed, bounds>>

\* ACTION: append_event draws a sequence; the row is not visible yet.  The id is
\* UNIQUE in the log too, which is never needed (OncePerEvent).
AppendEvent(c) ==
    /\ consumer[c].pc = "append"
    /\ log' = Append(log, NoEvent)
    /\ Becomes(c, [consumer[c] EXCEPT !.pc = "project", !.sequence = Len(log) + 1])
    /\ UNCHANGED <<topic, reserved, outbox, case, opened, checkpoint,
                   quarantine, dlq, committed, bounds>>

\* ACTION: the detector consumes the event and, for an incident, upserts the
\* case, which waits for a transaction that holds it.
Project(c) ==
    /\ consumer[c].pc = "project"
    /\ Current(c) \in Incident => \A d \in Consumer \ {c} : ~HoldsCase(d)
    /\ Becomes(c, [consumer[c] EXCEPT !.pc = "commit", !.memory = Append(@, Current(c))])
    /\ UNCHANGED <<topic, database, quarantine, dlq, committed, bounds>>

\* What the transaction wrote becomes visible: the reservation and the row, the
\* case, the number of its creation records, the checkpoint and the outbox.
Writes(c, document, records, point, entries) ==
    /\ reserved' = reserved \cup {Current(c)}
    /\ log' = [log EXCEPT ![consumer[c].sequence] = Current(c)]
    /\ case' = document
    /\ opened' = records
    /\ checkpoint' = point
    /\ outbox' = entries

CaseWritten(c) == IF Current(c) \in Incident THEN consumer[c].memory ELSE case

Creations(c) == IF Current(c) \in Incident /\ case = NoCase THEN opened + 1 ELSE opened

\* Fault: only events that touch a case are announced.
VisibleUnannounced(c) ==
    Writes(c, CaseWritten(c), Creations(c), consumer[c].sequence,
           IF Current(c) \in Incident THEN Append(outbox, Current(c)) ELSE outbox)

\* Fault: a case that exists is left as it is.
VisibleCreated(c) ==
    Writes(c, IF case = NoCase THEN CaseWritten(c) ELSE case, Creations(c),
           consumer[c].sequence, Append(outbox, Current(c)))

Visible(c) ==
    Writes(c, CaseWritten(c), Creations(c), consumer[c].sequence, Append(outbox, Current(c)))

\* ACTION: set_checkpoint and append_outbox, then the commit.  The checkpoint's
\* row is the last the transaction locks.
Commit(c) ==
    /\ Moves(c, "commit", "offset")
    /\ Visible(c)
    /\ UNCHANGED <<topic, quarantine, dlq, committed, bounds>>

\* What the transport does after a failed attempt.
AttemptFailed(c) ==
    /\ errors < MaxErrors
    /\ errors' = errors + 1
    /\ Becomes(c, [consumer[c] EXCEPT
          !.attempts = @ + 1,
          !.pc = IF consumer[c].attempts + 1 < MaxAttempts THEN "reserve" ELSE "dead"])

\* ACTION: a step of the transaction raises and it is rolled back.
Rollback(c) ==
    /\ consumer[c].pc \in InTransaction
    /\ AttemptFailed(c)
    /\ UNCHANGED <<topic, database, quarantine, dlq, committed, crashes>>

\* ACTION: the commit takes effect but its acknowledgement is lost.
CommitUnacknowledged(c) ==
    /\ consumer[c].pc = "commit"
    /\ Visible(c)
    /\ AttemptFailed(c)
    /\ UNCHANGED <<topic, quarantine, dlq, committed, crashes>>
-----------------------------------------------------------------------------
(* Processes start and end. *)

\* ACTION: the process ends, by a signal, a crash or an error of the transport.
Crash(c) ==
    /\ consumer[c].pc /= "down"
    /\ crashes < MaxCrashes
    /\ crashes' = crashes + 1
    /\ Becomes(c, [consumer[c] EXCEPT !.pc = "down", !.memory = <<>>, !.todo = <<>>])
    /\ UNCHANGED <<topic, database, quarantine, dlq, committed, errors>>

\* Fault: the group starts at the end of the topic.
StartAtEnd(c) ==
    /\ consumer[c].pc = "down"
    /\ Becomes(c, [consumer[c] EXCEPT
          !.pc = "replay", !.position = Len(topic),
          !.todo = IF c \in Replaying THEN log ELSE <<>>])
    /\ UNCHANGED <<topic, database, quarantine, dlq, committed, bounds>>

\* ACTION: a process starts at its group's offset.  One that builds the integration
\* runtime consumes at once; the stream worker reads the log first.
Start(c) ==
    /\ consumer[c].pc = "down"
    /\ Becomes(c, [consumer[c] EXCEPT
          !.pc = IF c \in Integrated THEN "poll" ELSE "replay",
          !.building = c \in Integrated,
          !.position = committed[c],
          !.todo = IF c \in Replaying \ Integrated THEN log ELSE <<>>])
    /\ UNCHANGED <<topic, database, quarantine, dlq, committed, bounds>>

Idle(c) == consumer[c].pc = "poll" /\ consumer[c].building

\* ACTION: no message came for idle_timeout_seconds, or max_messages did: the
\* subscription closes, and the stream worker reads the log into the same
\* detector before it subscribes again.
Resubscribe(c) ==
    /\ Idle(c)
    /\ c \in Replaying
    /\ Becomes(c, [consumer[c] EXCEPT
          !.pc = "replay", !.building = FALSE, !.position = committed[c], !.todo = log])
    /\ UNCHANGED <<topic, database, quarantine, dlq, committed, bounds>>

\* ACTION: the same of an API, which consumes again when it is restarted.
Unsubscribe(c) ==
    /\ Idle(c)
    /\ c \notin Replaying
    /\ Becomes(c, [consumer[c] EXCEPT !.pc = "down", !.memory = <<>>])
    /\ UNCHANGED <<topic, database, quarantine, dlq, committed, bounds>>

\* ACTION: the next event of the log goes to the detector, which writes the case
\* it materialises, in a transaction of its own.
ReplayNext(c) ==
    LET e == Head(consumer[c].todo)
        memory == IF e = NoEvent THEN consumer[c].memory ELSE Append(consumer[c].memory, e)
    IN
    /\ consumer[c].pc = "replay"
    /\ consumer[c].todo /= <<>>
    /\ e \in Incident => \A d \in Consumer : ~HoldsCase(d)
    /\ Becomes(c, [consumer[c] EXCEPT !.todo = Tail(@), !.memory = memory])
    /\ case' = IF e \in Incident THEN memory ELSE case
    /\ UNCHANGED <<topic, reserved, log, outbox, opened, checkpoint,
                   quarantine, dlq, committed, bounds>>

\* ACTION: the log is replayed.
Replayed(c) ==
    /\ consumer[c].todo = <<>>
    /\ Moves(c, "replay", "poll")
    /\ UNCHANGED <<topic, database, quarantine, dlq, committed, bounds>>

Step(c) ==
    \/ Poll(c) \/ PollUndecodable(c) \/ CommitOffset(c) \/ DeadLetter(c)
    \/ Quarantine(c) \/ ReserveDuplicate(c) \/ Reserve(c)
    \/ AppendEvent(c) \/ Project(c) \/ Commit(c)
    \/ Start(c) \/ Resubscribe(c) \/ Unsubscribe(c)
    \/ ReplayNext(c) \/ Replayed(c)

Fault(c) == Rollback(c) \/ CommitUnacknowledged(c) \/ Crash(c)

Next ==
    \/ \E e \in Event : Publish(e)
    \/ \E c \in Consumer : Step(c) \/ Fault(c)

Spec == Init /\ [][Next]_vars

\* The loop of a running process goes on, and its container restarts one that
\* ended (restart: unless-stopped); nothing has to be published or to fail.
FairSpec == Spec /\ \A c \in Consumer : WF_vars(Step(c))
-----------------------------------------------------------------------------
(* Properties: any number of consumers, duplicates, errors and crashes. *)

\* An event has one row, one outbox entry and one reservation, and the case one
\* audit record, whatever was delivered again, retried or committed unnoticed.
OncePerEvent ==
    /\ \A s, t \in DOMAIN log : log[s] = log[t] /\ log[s] /= NoEvent => s = t
    /\ \A i, j \in DOMAIN outbox : outbox[i] = outbox[j] => i = j
    /\ reserved = Logged
    /\ opened = IF case = NoCase THEN 0 ELSE 1

\* The offset of a group passes no message that is not in the log, in quarantine
\* or among the dead letters: a crash after it loses nothing.
NothingIsSkipped ==
    \A c \in Consumer : \A i \in 1..committed[c] : topic[i] \in Handled

Ledger == INSTANCE EventLedger WITH
    accepted <- Logged, announced <- outbox, openings <- opened,
    aside <- quarantine \cup dlq

\* Transactions, redeliveries and replays implement the ledger.
KeepsLedger == Ledger!LedgerSpec

\* Every message is handled in the end.
MessagesAreHandled ==
    \A e \in Event : (\E i \in DOMAIN topic : topic[i] = e) ~> e \in Handled
-----------------------------------------------------------------------------
(* Properties of the preview's stream worker, alone and in postgres-only mode. *)

\* The events of the rows, without those of no committed transaction.
EventsOf(rows) ==
    LET upto[n \in 0..Len(rows)] ==
            IF n = 0 THEN <<>>
            ELSE IF rows[n] = NoEvent THEN upto[n - 1] ELSE Append(upto[n - 1], rows[n])
    IN  upto[Len(rows)]

Accepted == EventsOf(log)

\* As long as no attempt failed, the detector's memory is the log, up to the event
\* being committed: the replay of a restarted worker recovers it exactly.
DetectorFollowsLog ==
    errors = 0 =>
        \A c \in Consumer :
            LET memory == consumer[c].memory IN
            CASE consumer[c].pc \in {"down", "replay"} -> TRUE
              [] consumer[c].pc = "commit" -> memory = Append(Accepted, Current(c))
              [] OTHER -> memory = Accepted

\* And while the worker is up, the case's evidence is the log up to its last
\* incident, though a replay, if only for a while, takes it back.
CaseFollowsLog ==
    errors = 0 /\ (\A c \in Consumer : consumer[c].pc \notin {"down", "replay"}) =>
        \/ \A i \in DOMAIN Accepted : Accepted[i] \notin Incident /\ case = NoCase
        \/ \E i \in DOMAIN Accepted :
              /\ Accepted[i] \in Incident
              /\ case = SubSeq(Accepted, 1, i)
              /\ \A j \in i+1 .. Len(Accepted) : Accepted[j] \notin Incident

\* The detection checkpoint is the sequence of the last row, and has never gone
\* back.
CheckpointIsLastRow ==
    /\ checkpoint = 0 => Accepted = <<>>
    /\ checkpoint > 0 => log[checkpoint] /= NoEvent
    /\ \A s \in DOMAIN log : log[s] /= NoEvent => s <= checkpoint
\* What the read side shows after any restart is made of the log alone: the
\* detector's memory, the case and the checkpoint (stream_worker/main.py:30-40,
\* detection/service.py:134-156, ingestion/service.py:92).
ReadSideFollowsLog == DetectorFollowsLog /\ CaseFollowsLog /\ CheckpointIsLastRow
=============================================================================
