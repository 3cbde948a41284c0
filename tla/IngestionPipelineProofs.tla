------------------------ MODULE IngestionPipelineProofs ------------------------
(***************************************************************************)
(* Theorems of IngestionPipeline, for any number of events, messages and   *)
(* consumers and any bounds on errors and crashes.                         *)
(***************************************************************************)
EXTENDS IngestionPipeline, SequenceTheorems, WellFoundedInduction, TLAPS

Holding == {"append", "project", "commit"}

\* A process between a poll and the next is at a message.
AtMessage == InTransaction \cup {"offset", "dead"}

Places ==
    \A c \in Consumer :
        /\ committed[c] <= Len(topic)
        /\ consumer[c].pc /= "down" => consumer[c].position <= Len(topic)
        /\ consumer[c].pc \in AtMessage => consumer[c].position < Len(topic)
        /\ consumer[c].pc \in InTransaction => consumer[c].attempts < MaxAttempts

\* An id is reserved by one open transaction at most, and by none once committed.
Locks ==
    \A c \in Consumer : consumer[c].pc \in Holding =>
        /\ Current(c) \notin reserved
        /\ \A d \in Consumer : d /= c /\ consumer[d].pc \in Holding => Current(c) /= Current(d)

\* A transaction has a row of its own, still invisible.
Rows ==
    \A c \in Consumer : consumer[c].pc \in {"project", "commit"} =>
        /\ consumer[c].sequence \in DOMAIN log
        /\ log[consumer[c].sequence] = NoEvent
        /\ \A d \in Consumer : d /= c /\ consumer[d].pc \in {"project", "commit"}
              => consumer[c].sequence /= consumer[d].sequence

\* What is announced was reserved; an incident in the log, or on its way to a
\* replaying detector, has its case.
Records ==
    /\ OncePerEvent
    /\ \A i \in DOMAIN outbox : outbox[i] \in reserved
    /\ \A e \in Logged \cap Incident : case /= NoCase
    /\ \A c \in Consumer :
          /\ consumer[c].pc = "commit" => consumer[c].memory /= <<>>
          /\ \A i \in DOMAIN consumer[c].todo : consumer[c].todo[i] \in Logged \cup {NoEvent}

IInv == TypeOK /\ Places /\ Locks /\ Rows /\ Records
-----------------------------------------------------------------------------
(* Steps of a process, and what they change of it. *)

\* A process at a message is at an event.
LEMMA CurrentEvent ==
    ASSUME TypeOK, Places, NEW c \in Consumer, consumer[c].pc \in AtMessage
    PROVE  Current(c) \in Event /\ consumer[c].position + 1 \in DOMAIN topic
<1>1. consumer[c].position \in Nat /\ Len(topic) \in Nat /\ consumer[c].position < Len(topic)
  BY DEF TypeOK, Process, Places
<1>2. topic \in Seq(Event)
  BY DEF TypeOK
<1> QED
  BY <1>1, <1>2 DEF Current

\* Every step of c leaves it a process, and the others as they are.
LEMMA ProcessStep ==
    ASSUME TypeOK, Places, NEW c \in Consumer, Step(c) \/ Fault(c)
    PROVE  \E p \in Process : Becomes(c, p)
<1> USE DEF TypeOK, Process
<1>1. /\ \A s \in {"poll", "reserve", "append", "project", "commit", "offset", "dead", "replay", "down"} : s \in PC
      /\ 0 \in 0..MaxAttempts
      /\ consumer[c] \in Process
      /\ consumer[c].position + 1 \in Nat
  BY PipelineAssumption DEF PC, InTransaction
<1>0. \A to \in PC : \A from : Moves(c, from, to) => \E p \in Process : Becomes(c, p)
  BY <1>1 DEF Moves
<1>2. CASE Poll(c)
  BY <1>1, <1>2 DEF Poll
<1>3. CASE PollUndecodable(c)
  BY <1>0, <1>1, <1>3 DEF PollUndecodable
<1>4. CASE CommitOffset(c)
  BY <1>1, <1>4 DEF CommitOffset
<1>5. CASE DeadLetter(c)
  BY <1>1, <1>5 DEF DeadLetter
<1>6. CASE Quarantine(c)
  BY <1>0, <1>1, <1>6 DEF Quarantine
<1>7. CASE ReserveDuplicate(c)
  BY <1>0, <1>1, <1>7 DEF ReserveDuplicate
<1>8. CASE Reserve(c)
  BY <1>0, <1>1, <1>8 DEF Reserve
<1>9. CASE AppendEvent(c)
  <2>1. Len(log) + 1 \in Nat
    OBVIOUS
  <2> QED
    BY <1>1, <1>9, <2>1 DEF AppendEvent
<1>10. CASE Project(c)
  <2>1. Current(c) \in Event
    BY <1>10, CurrentEvent DEF Project, AtMessage, InTransaction
  <2>2. Append(consumer[c].memory, Current(c)) \in Seq(Event)
    BY <2>1
  <2> QED
    BY <1>1, <1>10, <2>2 DEF Project
<1>11. CASE Commit(c)
  BY <1>0, <1>1, <1>11 DEF Commit
<1>12. CASE Start(c)
  <2> DEFINE at == IF c \in Integrated THEN "poll" ELSE "replay"
             todo == IF c \in Replaying \ Integrated THEN log ELSE <<>>
  <2>1. /\ todo \in Seq(Event \cup {NoEvent}) /\ committed[c] \in Nat
        /\ at \in PC /\ (c \in Integrated) \in BOOLEAN
    BY <1>1
  <2>2. Becomes(c, [consumer[c] EXCEPT !.pc = at, !.building = c \in Integrated,
                                       !.position = committed[c], !.todo = todo])
    BY <1>12 DEF Start
  <2> HIDE DEF todo, at
  <2> QED
    BY <1>1, <2>1, <2>2
<1>17. CASE Resubscribe(c)
  BY <1>1, <1>17 DEF Resubscribe
<1>18. CASE Unsubscribe(c)
  <2>1. <<>> \in Seq(Event)
    OBVIOUS
  <2> QED
    BY <1>1, <1>18, <2>1 DEF Unsubscribe
<1>13. CASE ReplayNext(c)
  <2> DEFINE e == Head(consumer[c].todo)
             memory == IF e = NoEvent THEN consumer[c].memory ELSE Append(consumer[c].memory, e)
  <2>1. consumer[c].todo \in Seq(Event \cup {NoEvent}) /\ consumer[c].todo /= <<>>
    BY <1>13 DEF ReplayNext
  <2>2. e \in Event \cup {NoEvent} /\ Tail(consumer[c].todo) \in Seq(Event \cup {NoEvent})
    BY <2>1
  <2>3. memory \in Seq(Event)
    BY <2>2
  <2>4. Becomes(c, [consumer[c] EXCEPT !.todo = Tail(@), !.memory = memory])
    BY <1>13 DEF ReplayNext
  <2> HIDE DEF memory
  <2> QED
    BY <1>1, <2>2, <2>3, <2>4
<1>14. CASE Replayed(c)
  BY <1>0, <1>1, <1>14 DEF Replayed
<1>15. CASE AttemptFailed(c) /\ consumer[c].pc \in InTransaction
  <2>1. consumer[c].attempts + 1 \in 0..MaxAttempts
    BY <1>15, PipelineAssumption DEF Places
  <2> QED
    BY <1>1, <1>15, <2>1 DEF AttemptFailed
<1>16. CASE Crash(c)
  <2>1. <<>> \in Seq(Event) /\ <<>> \in Seq(Event \cup {NoEvent})
    OBVIOUS
  <2> QED
    BY <1>1, <1>16, <2>1 DEF Crash
<1> QED
  BY <1>2, <1>3, <1>4, <1>5, <1>6, <1>7, <1>8, <1>9, <1>10, <1>11, <1>12, <1>13, <1>14,
     <1>15, <1>16, <1>17, <1>18 DEF Step, Fault, Rollback, CommitUnacknowledged, InTransaction

\* Where a process that starts, or ends its first subscription, goes.
LEMMA Subscription ==
    ASSUME NEW c \in Consumer, NEW p, consumer[c] \in Process, \A q : Becomes(c, q) => p = q,
           Start(c) \/ Resubscribe(c) \/ Unsubscribe(c)
    PROVE  /\ \/ p.pc \in {"poll", "replay"} /\ p.position = committed[c]
              \/ p.pc = "down"
           /\ p.todo \in {consumer[c].todo, <<>>, log}
<1> USE DEF Process
<1>1. CASE Start(c)
  <2> DEFINE at == IF c \in Integrated THEN "poll" ELSE "replay"
             todo == IF c \in Replaying \ Integrated THEN log ELSE <<>>
  <2>1. /\ todo \in {<<>>, log} /\ at \in {"poll", "replay"}
        /\ p = [consumer[c] EXCEPT !.pc = at, !.building = c \in Integrated,
                                   !.position = committed[c], !.todo = todo]
    BY <1>1 DEF Start
  <2> HIDE DEF todo, at
  <2>2. p.pc = at /\ p.position = committed[c] /\ p.todo = todo
    BY <2>1
  <2> QED
    BY <2>1, <2>2
<1>2. CASE Resubscribe(c)
  BY <1>2 DEF Resubscribe
<1>3. CASE Unsubscribe(c)
  BY <1>3 DEF Unsubscribe
<1> QED
  BY <1>1, <1>2, <1>3
-----------------------------------------------------------------------------
(* Type correctness. *)

\* What a step of c does to the shared state: nothing, a row is drawn, a
\* transaction becomes visible, or a replay writes the case.
LEMMA DatabaseStep ==
    ASSUME NEW c \in Consumer, Step(c) \/ Fault(c)
    PROVE  /\ topic' = topic
           /\ \/ UNCHANGED database
              \/ AppendEvent(c)
              \/ consumer[c].pc = "commit" /\ Visible(c)
              \/ ReplayNext(c)
BY DEF Step, Fault, Poll, PollUndecodable, CommitOffset, DeadLetter, Quarantine, ReserveDuplicate,
       Reserve, AppendEvent, Project, Commit, Moves, Start, Resubscribe, Unsubscribe,
       ReplayNext, Replayed, Rollback,
       CommitUnacknowledged, Crash

\* What becomes visible is of the database's types.
LEMMA VisibleType ==
    ASSUME TypeOK, Places, Rows, NEW c \in Consumer, consumer[c].pc = "commit", Visible(c)
    PROVE  /\ Current(c) \in Event
           /\ reserved' \subseteq Event /\ log' \in Seq(Event \cup {NoEvent})
           /\ outbox' \in Seq(Event) /\ case' \in Seq(Event)
           /\ opened' \in Nat /\ checkpoint' \in Nat
<1>1. Current(c) \in Event
  BY CurrentEvent DEF AtMessage, InTransaction
<1>2. /\ consumer[c].memory \in Seq(Event) /\ consumer[c].sequence \in Nat
      /\ consumer[c].sequence \in DOMAIN log
  BY DEF TypeOK, Process, Rows
<1>3. CaseWritten(c) \in Seq(Event) /\ Creations(c) \in Nat
  BY <1>2 DEF CaseWritten, Creations, TypeOK
<1>4. Append(outbox, Current(c)) \in Seq(Event)
  BY <1>1 DEF TypeOK
<1>5. [log EXCEPT ![consumer[c].sequence] = Current(c)] \in Seq(Event \cup {NoEvent})
  BY <1>1, <1>2 DEF TypeOK
<1> QED
  BY <1>1, <1>2, <1>3, <1>4, <1>5 DEF Visible, Writes, TypeOK

LEMMA TypeStep == IInv /\ [Next]_vars => TypeOK'
<1> SUFFICES ASSUME IInv, [Next]_vars PROVE TypeOK'
  OBVIOUS
<1> USE DEF IInv
<1>1. CASE UNCHANGED vars
  BY <1>1 DEF TypeOK, vars, database, bounds
<1>2. ASSUME NEW e \in Event, Publish(e) PROVE TypeOK'
  <2>1. Append(topic, e) \in Seq(Event)
    BY DEF TypeOK
  <2> QED
    BY <1>2, <2>1 DEF Publish, TypeOK, database, bounds
<1>3. ASSUME NEW c \in Consumer, Step(c) \/ Fault(c) PROVE TypeOK'
  <2>1. PICK p \in Process : Becomes(c, p)
    BY <1>3, ProcessStep
  <2>2. consumer' \in [Consumer -> Process]
    BY <2>1 DEF Becomes, TypeOK
  <2>3. /\ reserved' \subseteq Event /\ log' \in Seq(Event \cup {NoEvent})
        /\ outbox' \in Seq(Event) /\ case' \in Seq(Event)
        /\ opened' \in Nat /\ checkpoint' \in Nat
    <3>1. CASE UNCHANGED database
      BY <3>1 DEF database, TypeOK
    <3>2. CASE AppendEvent(c)
      <4>1. Append(log, NoEvent) \in Seq(Event \cup {NoEvent})
        BY DEF TypeOK
      <4> QED
        BY <3>2, <4>1 DEF AppendEvent, TypeOK
    <3>3. CASE consumer[c].pc = "commit" /\ Visible(c)
      BY <3>3, VisibleType
    <3>4. CASE ReplayNext(c)
      <4> DEFINE e == Head(consumer[c].todo)
                 memory == IF e = NoEvent THEN consumer[c].memory ELSE Append(consumer[c].memory, e)
      <4>1. consumer[c].todo \in Seq(Event \cup {NoEvent}) /\ consumer[c].todo /= <<>>
            /\ consumer[c].memory \in Seq(Event)
        BY <3>4 DEF ReplayNext, TypeOK, Process
      <4>2. e \in Event \cup {NoEvent}
        BY <4>1
      <4>3. memory \in Seq(Event)
        BY <4>1, <4>2
      <4> HIDE DEF memory
      <4>4. case' = IF e \in Incident THEN memory ELSE case
        BY <3>4 DEF ReplayNext, memory
      <4> QED
        BY <3>4, <4>3, <4>4 DEF ReplayNext, TypeOK
    <3> QED
      BY <1>3, <3>1, <3>2, <3>3, <3>4, DatabaseStep
  <2>4. quarantine' \subseteq Event /\ dlq' \subseteq Event
    <3>1. consumer[c].pc \in AtMessage => Current(c) \in Event
      BY CurrentEvent
    <3>2. CASE PollUndecodable(c)
      <4>1. Current(c) \in Event
        BY <3>2, PipelineAssumption DEF PollUndecodable
      <4> QED
        BY <3>2, <4>1 DEF PollUndecodable, TypeOK
    <3> QED
      BY <1>3, <3>1, <3>2
         DEF Step, Fault, Poll, CommitOffset, DeadLetter, Quarantine, ReserveDuplicate,
             Reserve, AppendEvent, Project, Commit, Moves, Start, Resubscribe, Unsubscribe,
             ReplayNext, Replayed, Rollback,
             CommitUnacknowledged, Crash, TypeOK, AtMessage, InTransaction
  <2>5. committed' \in [Consumer -> Nat]
    <3>1. consumer[c].position + 1 \in Nat
      BY DEF TypeOK, Process
    <3> QED
      BY <1>3, <3>1
         DEF Step, Fault, Poll, PollUndecodable, CommitOffset, DeadLetter, Quarantine, ReserveDuplicate,
             Reserve, AppendEvent, Project, Commit, Start, Resubscribe, Unsubscribe,
             ReplayNext, Replayed, Rollback,
             CommitUnacknowledged, Crash, TypeOK
  <2>6. errors' \in 0..MaxErrors /\ crashes' \in 0..MaxCrashes
    BY <1>3, PipelineAssumption
       DEF Step, Fault, Poll, PollUndecodable, CommitOffset, DeadLetter, Quarantine, ReserveDuplicate,
           Reserve, AppendEvent, Project, Commit, Start, Resubscribe, Unsubscribe,
           ReplayNext, Replayed, Rollback,
           CommitUnacknowledged, AttemptFailed, Crash, TypeOK, bounds
  <2>7. topic' \in Seq(Event)
    BY <1>3, DatabaseStep DEF TypeOK
  <2> QED
    BY <2>2, <2>3, <2>4, <2>5, <2>6, <2>7 DEF TypeOK
<1> QED
  BY <1>1, <1>2, <1>3 DEF Next
-----------------------------------------------------------------------------
(* Messages, offsets and attempts. *)

LEMMA PlacesStep == IInv /\ [Next]_vars => Places'
<1> SUFFICES ASSUME IInv, [Next]_vars PROVE Places'
  OBVIOUS
<1> USE DEF IInv
<1>0. Len(topic) \in Nat /\ consumer \in [Consumer -> Process] /\ committed \in [Consumer -> Nat]
  BY DEF TypeOK
<1>1. CASE UNCHANGED vars
  BY <1>1 DEF Places, vars
<1>2. ASSUME NEW e \in Event, Publish(e) PROVE Places'
  <2>1. Len(topic') = Len(topic) + 1
    BY <1>2 DEF Publish, TypeOK
  <2> QED
    BY <1>0, <1>2, <2>1 DEF Publish, Places, Process
<1>3. ASSUME NEW c \in Consumer, Step(c) \/ Fault(c) PROVE Places'
  <2>1. PICK p \in Process : Becomes(c, p)
    BY <1>3, ProcessStep
  <2>2. /\ consumer'[c] = p /\ topic' = topic
        /\ \A d \in Consumer : d /= c => consumer'[d] = consumer[d]
    BY <1>0, <1>3, <2>1, DatabaseStep DEF Becomes
  <2>3. /\ \A d \in Consumer : d /= c => committed'[d] = committed[d]
        /\ \/ committed'[c] = committed[c]
           \/ consumer[c].pc = "offset" /\ committed'[c] = consumer[c].position + 1
    BY <1>0, <1>3
       DEF Step, Fault, Poll, PollUndecodable, CommitOffset, DeadLetter, Quarantine, ReserveDuplicate,
           Reserve, AppendEvent, Project, Commit, Start, Resubscribe, Unsubscribe,
           ReplayNext, Replayed, Rollback,
           CommitUnacknowledged, Crash
  <2>4. committed'[c] <= Len(topic)
    BY <1>0, <2>3 DEF Places, AtMessage, Process
  <2>5. /\ p.pc /= "down" => p.position <= Len(topic)
        /\ p.pc \in AtMessage => p.position < Len(topic)
        /\ p.pc \in InTransaction => p.attempts < MaxAttempts
    <3> USE DEF Process, AtMessage, InTransaction
    <3>1. /\ consumer[c] \in Process /\ p = consumer'[c]
          /\ committed[c] <= Len(topic) /\ committed[c] \in Nat
          /\ consumer[c].pc /= "down" => consumer[c].position <= Len(topic)
          /\ consumer[c].pc \in AtMessage => consumer[c].position < Len(topic)
          /\ consumer[c].pc \in InTransaction => consumer[c].attempts < MaxAttempts
      BY <1>0, <2>2 DEF Places
    <3>2. \A q : Becomes(c, q) => p = q
      BY <1>0, <2>2 DEF Becomes
    <3> HIDE DEF IInv
    <3>3. CASE Poll(c)
      <4>1. p.pc = "reserve" /\ p.position = consumer[c].position /\ p.attempts = 0
        BY <3>1, <3>2, <3>3 DEF Poll
      <4> QED
        BY <1>0, <3>1, <3>3, <4>1, PipelineAssumption DEF Poll
    <3>4. CASE PollUndecodable(c)
      BY <1>0, <3>1, <3>2, <3>4 DEF PollUndecodable, Moves
    <3>5. CASE CommitOffset(c) \/ DeadLetter(c)
      <4>1. p.pc = "poll" /\ p.position = consumer[c].position + 1
        BY <3>1, <3>2, <3>5 DEF CommitOffset, DeadLetter
      <4>2. consumer[c].pc \in {"offset", "dead"} /\ consumer[c].position \in Nat
        BY <3>1, <3>5 DEF CommitOffset, DeadLetter
      <4> QED
        BY <1>0, <3>1, <4>1, <4>2
    <3>6. CASE Quarantine(c) \/ ReserveDuplicate(c) \/ Reserve(c) \/ Commit(c)
      BY <1>0, <3>1, <3>2, <3>6 DEF Quarantine, ReserveDuplicate, Reserve, Commit, Moves
    <3>7. CASE AppendEvent(c) \/ Project(c)
      BY <1>0, <3>1, <3>2, <3>7 DEF AppendEvent, Project
    <3>8. CASE Start(c) \/ Resubscribe(c) \/ Unsubscribe(c)
      <4>1. (p.pc \in {"poll", "replay"} /\ p.position = committed[c]) \/ p.pc = "down"
        BY <3>1, <3>2, <3>8, Subscription
      <4> QED
        BY <3>1, <4>1
    <3>9. CASE ReplayNext(c) \/ Replayed(c)
      BY <1>0, <3>1, <3>2, <3>9 DEF ReplayNext, Replayed, Moves
    <3>10. CASE Rollback(c) \/ CommitUnacknowledged(c)
      BY <1>0, <3>1, <3>2, <3>10, PipelineAssumption DEF Rollback, CommitUnacknowledged, AttemptFailed
    <3>11. CASE Crash(c)
      BY <1>0, <3>1, <3>2, <3>11 DEF Crash
    <3> QED
      BY <1>3, <3>3, <3>4, <3>5, <3>6, <3>7, <3>8, <3>9, <3>10, <3>11 DEF Step, Fault
  <2> QED
    BY <2>2, <2>3, <2>4, <2>5 DEF Places
<1> QED
  BY <1>1, <1>2, <1>3 DEF Next
-----------------------------------------------------------------------------
(* Locks and rows. *)

\* How a step of c changes its process: how it comes to hold a reservation and a
\* row, what it remembers at its commit, and what it has left to replay.
LEMMA Effect ==
    ASSUME IInv, NEW c \in Consumer, Step(c) \/ Fault(c)
    PROVE  /\ \A d \in Consumer : d /= c => consumer'[d] = consumer[d]
           /\ consumer'[c].pc \in Holding =>
                 /\ consumer'[c].position = consumer[c].position
                 /\ \/ Reserve(c)
                    \/ consumer[c].pc \in Holding /\ UNCHANGED reserved
           /\ consumer'[c].pc \in {"project", "commit"} =>
                 \/ AppendEvent(c) /\ consumer'[c].sequence = Len(log) + 1
                 \/ /\ consumer[c].pc = "project" /\ UNCHANGED log
                    /\ consumer'[c].sequence = consumer[c].sequence
           /\ consumer'[c].pc = "commit" =>
                 /\ Current(c) \in Event
                 /\ consumer'[c].memory = Append(consumer[c].memory, Current(c))
           /\ \/ consumer'[c].todo \in {consumer[c].todo, <<>>, log}
              \/ ReplayNext(c) /\ consumer'[c].todo = Tail(consumer[c].todo)
<1> USE DEF IInv
<1>1. PICK p \in Process : Becomes(c, p)
  BY ProcessStep
<1>2. /\ consumer'[c] = p /\ consumer[c] \in Process
      /\ \A d \in Consumer : d /= c => consumer'[d] = consumer[d]
      /\ \A q : Becomes(c, q) => p = q
  BY <1>1 DEF Becomes, TypeOK
<1>3. consumer[c].pc = "project" => Current(c) \in Event
  BY CurrentEvent DEF AtMessage, InTransaction
<1> HIDE DEF IInv
<1> USE DEF Holding, Process
<1>4. CASE Poll(c) \/ PollUndecodable(c) \/ CommitOffset(c) \/ DeadLetter(c)
  BY <1>2, <1>4 DEF Poll, PollUndecodable, CommitOffset, DeadLetter, Moves
<1>5. CASE Quarantine(c) \/ ReserveDuplicate(c) \/ Commit(c)
  BY <1>2, <1>5 DEF Quarantine, ReserveDuplicate, Commit, Moves
<1>6. CASE Reserve(c)
  BY <1>2, <1>6 DEF Reserve, Moves
<1>7. CASE AppendEvent(c)
  BY <1>2, <1>7 DEF AppendEvent
<1>8. CASE Project(c)
  BY <1>2, <1>3, <1>8 DEF Project, database
<1>9. CASE Start(c) \/ Resubscribe(c) \/ Unsubscribe(c)
  BY <1>2, <1>9, Subscription
<1>10. CASE ReplayNext(c)
  BY <1>2, <1>10 DEF ReplayNext
<1>11. CASE Replayed(c)
  BY <1>2, <1>11 DEF Replayed, Moves
<1>12. CASE Rollback(c) \/ CommitUnacknowledged(c)
  BY <1>2, <1>12 DEF Rollback, CommitUnacknowledged, AttemptFailed
<1>13. CASE Crash(c)
  BY <1>2, <1>13 DEF Crash
<1> QED
  BY <1>4, <1>5, <1>6, <1>7, <1>8, <1>9, <1>10, <1>11, <1>12, <1>13 DEF Step, Fault

\* Where a process stays, so does its message.
LEMMA SameCurrent ==
    ASSUME TypeOK, Places, NEW d \in Consumer, consumer[d].pc \in AtMessage,
           consumer'[d].position = consumer[d].position,
           \/ topic' = topic
           \/ \E e \in Event : topic' = Append(topic, e)
    PROVE  Current(d)' = Current(d)
<1>1. consumer[d].position + 1 \in 1..Len(topic)
  BY CurrentEvent DEF TypeOK
<1>2. topic \in Seq(Event)
  BY DEF TypeOK
<1> QED
  BY <1>1, <1>2 DEF Current

\* Publishing changes no lock, no row and no record.
LEMMA PublishKeeps ==
    ASSUME IInv, NEW e \in Event, Publish(e)
    PROVE  Locks' /\ Rows' /\ Records'
<1>1. /\ topic' = Append(topic, e)
      /\ UNCHANGED <<consumer, reserved, log, outbox, case, opened>>
  BY DEF Publish, database
<1>2. \A d \in Consumer : consumer[d].pc \in AtMessage => Current(d)' = Current(d)
  BY <1>1, SameCurrent DEF IInv
<1> QED
  BY <1>1, <1>2 DEF IInv, Locks, Rows, Records, OncePerEvent, Logged, Holding, AtMessage, InTransaction

LEMMA LocksStep == IInv /\ [Next]_vars => Locks'
<1> SUFFICES ASSUME IInv, [Next]_vars PROVE Locks'
  OBVIOUS
<1>1. CASE UNCHANGED vars
  BY <1>1 DEF IInv, Locks, Current, vars, database
<1>2. ASSUME NEW e \in Event, Publish(e) PROVE Locks'
  BY <1>2, PublishKeeps
<1>3. ASSUME NEW c \in Consumer, Step(c) \/ Fault(c) PROVE Locks'
  <2>1. /\ \A d \in Consumer : d /= c => consumer'[d] = consumer[d]
        /\ consumer'[c].pc \in Holding =>
              /\ consumer'[c].position = consumer[c].position
              /\ \/ Reserve(c)
                 \/ consumer[c].pc \in Holding /\ UNCHANGED reserved
    BY <1>3, Effect
  <2>2. topic' = topic
    BY <1>3, DatabaseStep
  <2>3. \A d \in Consumer : d /= c => Current(d)' = Current(d)
    BY <2>1, <2>2 DEF Current
  <2>4. consumer'[c].pc \in Holding => Current(c)' = Current(c)
    BY <2>1, <2>2 DEF Current
  <2>5. \/ UNCHANGED reserved
        \/ consumer[c].pc = "commit" /\ reserved' = reserved \cup {Current(c)}
    BY <1>3, DatabaseStep DEF database, AppendEvent, ReplayNext, Visible, Writes
  <2>6. ASSUME NEW d \in Consumer, d /= c, consumer[d].pc \in Holding
        PROVE  Current(d) \notin reserved'
    BY <2>5, <2>6 DEF IInv, Locks, Holding
  <2>7. CASE Reserve(c)
    <3>1. Current(c) \notin reserved /\ UNCHANGED reserved
      BY <2>7 DEF Reserve, database
    <3>2. \A d \in Consumer : d /= c /\ consumer[d].pc \in Holding => Current(d) /= Current(c)
      BY <2>7 DEF Reserve, Free, HoldsEvent, Holding
    <3> QED
      BY <2>1, <2>3, <2>4, <3>1, <3>2 DEF IInv, Locks
  <2>8. CASE ~Reserve(c)
    <3>1. consumer'[c].pc \in Holding => consumer[c].pc \in Holding /\ UNCHANGED reserved
      BY <2>1, <2>8
    <3>2. ASSUME NEW d \in Consumer, consumer'[d].pc \in Holding
          PROVE  Current(d)' \notin reserved'
      BY <2>1, <2>3, <2>4, <2>6, <3>1, <3>2 DEF IInv, Locks
    <3>3. ASSUME NEW d \in Consumer, NEW x \in Consumer, d /= x,
                 consumer'[d].pc \in Holding, consumer'[x].pc \in Holding
          PROVE  Current(d)' /= Current(x)'
      BY <2>1, <2>3, <2>4, <3>1, <3>3 DEF IInv, Locks
    <3> QED
      BY <3>2, <3>3 DEF Locks
  <2> QED
    BY <2>7, <2>8
<1> QED
  BY <1>1, <1>2, <1>3 DEF Next

LEMMA RowsStep == IInv /\ [Next]_vars => Rows'
<1> SUFFICES ASSUME IInv, [Next]_vars PROVE Rows'
  OBVIOUS
<1>0. log \in Seq(Event \cup {NoEvent})
  BY DEF IInv, TypeOK
<1>1. CASE UNCHANGED vars
  BY <1>1 DEF IInv, Rows, vars, database
<1>2. ASSUME NEW e \in Event, Publish(e) PROVE Rows'
  BY <1>2, PublishKeeps
<1>3. ASSUME NEW c \in Consumer, Step(c) \/ Fault(c) PROVE Rows'
  <2> DEFINE Open(d) == consumer[d].pc \in {"project", "commit"}
  <2>1. /\ \A d \in Consumer : d /= c => consumer'[d] = consumer[d]
        /\ Open(c)' =>
              \/ AppendEvent(c) /\ consumer'[c].sequence = Len(log) + 1
              \/ /\ consumer[c].pc = "project" /\ UNCHANGED log
                 /\ consumer'[c].sequence = consumer[c].sequence
    BY <1>3, Effect
  <2>2. \/ UNCHANGED log
        \/ AppendEvent(c)
        \/ consumer[c].pc = "commit" /\ log' = [log EXCEPT ![consumer[c].sequence] = Current(c)]
    BY <1>3, DatabaseStep DEF database, ReplayNext, Visible, Writes
  <2>3. CASE AppendEvent(c)
    <3>1. /\ Len(log) + 1 \in DOMAIN log' /\ log'[Len(log) + 1] = NoEvent
          /\ \A i \in DOMAIN log : i \in DOMAIN log' /\ log'[i] = log[i] /\ i /= Len(log) + 1
      BY <1>0, <2>3 DEF AppendEvent
    <3>2. consumer[c].pc = "append"
      BY <2>3 DEF AppendEvent
    <3> QED
      BY <2>1, <3>1, <3>2 DEF IInv, Rows
  <2>4. CASE UNCHANGED log /\ ~AppendEvent(c)
    BY <2>1, <2>4 DEF IInv, Rows
  <2>5. CASE consumer[c].pc = "commit" /\ log' = [log EXCEPT ![consumer[c].sequence] = Current(c)]
    <3>1. ~Open(c)' \/ UNCHANGED log
      BY <2>1, <2>5 DEF AppendEvent
    <3>2. DOMAIN log' = DOMAIN log
      BY <2>5
    <3> QED
      BY <2>1, <2>5, <3>1, <3>2 DEF IInv, Rows, AppendEvent
  <2> QED
    BY <2>2, <2>3, <2>4, <2>5
<1> QED
  BY <1>1, <1>2, <1>3 DEF Next
-----------------------------------------------------------------------------
(* Records. *)

\* A committed event was not in the log, and nothing else leaves or enters it.
LEMMA VisibleRecords ==
    ASSUME IInv, NEW c \in Consumer, consumer[c].pc = "commit", Visible(c)
    PROVE  /\ Current(c) \in Event /\ Current(c) \notin Logged
           /\ DOMAIN log' = DOMAIN log
           /\ \A s \in DOMAIN log :
                 log'[s] = IF s = consumer[c].sequence THEN Current(c) ELSE log[s]
           /\ Logged' = Logged \cup {Current(c)}
<1>1. /\ consumer[c].sequence \in DOMAIN log
      /\ log[consumer[c].sequence] = NoEvent
      /\ log' = [log EXCEPT ![consumer[c].sequence] = Current(c)]
  BY DEF IInv, Rows, Visible, Writes
<1>2. Current(c) \notin Logged
  BY DEF IInv, Locks, Holding, Records, OncePerEvent
<1>3. Current(c) \in Event /\ Current(c) /= NoEvent
  BY VisibleType, PipelineAssumption DEF IInv
<1> QED
  BY <1>1, <1>2, <1>3 DEF Logged

LEMMA RecordsStep == IInv /\ [Next]_vars => Records'
<1> SUFFICES ASSUME IInv, [Next]_vars PROVE Records'
  OBVIOUS
<1>0. /\ log \in Seq(Event \cup {NoEvent}) /\ outbox \in Seq(Event)
      /\ reserved = Logged /\ NoEvent \notin Incident
  BY PipelineAssumption DEF IInv, TypeOK, Records, OncePerEvent
<1>1. CASE UNCHANGED vars
  BY <1>1 DEF IInv, Records, OncePerEvent, Logged, vars, database
<1>2. ASSUME NEW e \in Event, Publish(e) PROVE Records'
  BY <1>2, PublishKeeps
<1>3. ASSUME NEW c \in Consumer, Step(c) \/ Fault(c) PROVE Records'
  <2>1. /\ \A d \in Consumer : d /= c => consumer'[d] = consumer[d]
        /\ consumer'[c].pc = "commit" =>
              /\ Current(c) \in Event
              /\ consumer'[c].memory = Append(consumer[c].memory, Current(c))
        /\ \/ consumer'[c].todo \in {consumer[c].todo, <<>>, log}
           \/ ReplayNext(c) /\ consumer'[c].todo = Tail(consumer[c].todo)
    BY <1>3, Effect
  <2>2. /\ consumer[c].todo \in Seq(Event \cup {NoEvent}) /\ consumer[c].memory \in Seq(Event)
        /\ \A i \in DOMAIN consumer[c].todo : consumer[c].todo[i] \in Logged \cup {NoEvent}
    BY DEF IInv, TypeOK, Process, Records
  <2>3. \A i \in DOMAIN consumer'[c].todo : consumer'[c].todo[i] \in Logged \cup {NoEvent}
    <3>1. CASE consumer'[c].todo \in {consumer[c].todo, <<>>}
      BY <2>2, <3>1
    <3>2. CASE consumer'[c].todo = log
      BY <1>0, <3>2 DEF Logged
    <3>3. CASE ReplayNext(c) /\ consumer'[c].todo = Tail(consumer[c].todo)
      BY <2>2, <3>3 DEF ReplayNext
    <3> QED
      BY <2>1, <3>1, <3>2, <3>3
  <2>4. consumer'[c].pc = "commit" => consumer'[c].memory /= <<>>
    BY <2>1, <2>2
  <2>5. Logged \subseteq Logged'
        => \A d \in Consumer :
              /\ consumer'[d].pc = "commit" => consumer'[d].memory /= <<>>
              /\ \A i \in DOMAIN consumer'[d].todo : consumer'[d].todo[i] \in Logged' \cup {NoEvent}
    BY <2>1, <2>3, <2>4 DEF IInv, Records
  <2>6. CASE UNCHANGED database
    BY <2>5, <2>6 DEF IInv, Records, OncePerEvent, Logged, database
  <2>7. CASE AppendEvent(c)
    <3>1. /\ log' = Append(log, NoEvent)
          /\ UNCHANGED <<reserved, outbox, case, opened>>
      BY <2>7 DEF AppendEvent
    <3>2. /\ DOMAIN log' = DOMAIN log \cup {Len(log) + 1}
          /\ log'[Len(log) + 1] = NoEvent
          /\ \A s \in DOMAIN log : log'[s] = log[s]
      BY <1>0, <3>1
    <3>3. Logged' = Logged
      BY <3>2 DEF Logged
    <3> QED
      BY <2>5, <3>1, <3>2, <3>3 DEF IInv, Records, OncePerEvent
  <2>8. CASE consumer[c].pc = "commit" /\ Visible(c)
    <3>1. /\ Current(c) \in Event /\ Current(c) \notin Logged
          /\ DOMAIN log' = DOMAIN log
          /\ \A s \in DOMAIN log :
                log'[s] = IF s = consumer[c].sequence THEN Current(c) ELSE log[s]
          /\ Logged' = Logged \cup {Current(c)}
      BY <2>8, VisibleRecords
    <3>2. /\ reserved' = reserved \cup {Current(c)}
          /\ outbox' = Append(outbox, Current(c))
          /\ case' = IF Current(c) \in Incident THEN consumer[c].memory ELSE case
          /\ opened' = IF Current(c) \in Incident /\ case = NoCase THEN opened + 1 ELSE opened
      BY <2>8 DEF Visible, Writes, CaseWritten, Creations
    <3>3. /\ \A s, t \in DOMAIN log : log[s] = log[t] /\ log[s] /= NoEvent => s = t
          /\ \A i, j \in DOMAIN outbox : outbox[i] = outbox[j] => i = j
          /\ \A i \in DOMAIN outbox : outbox[i] \in reserved
          /\ opened = IF case = NoCase THEN 0 ELSE 1
          /\ \A e \in Logged \cap Incident : case /= NoCase
          /\ consumer[c].memory /= <<>>
      BY <2>8 DEF IInv, Records, OncePerEvent
    <3>4. \A s, t \in DOMAIN log' : log'[s] = log'[t] /\ log'[s] /= NoEvent => s = t
      BY <3>1, <3>3 DEF Logged
    <3>5. /\ \A i, j \in DOMAIN outbox' : outbox'[i] = outbox'[j] => i = j
          /\ \A i \in DOMAIN outbox' : outbox'[i] \in reserved'
      <4>1. /\ DOMAIN outbox' = DOMAIN outbox \cup {Len(outbox) + 1}
            /\ outbox'[Len(outbox) + 1] = Current(c)
            /\ \A i \in DOMAIN outbox : outbox'[i] = outbox[i]
        BY <1>0, <3>1, <3>2
      <4> QED
        BY <1>0, <3>1, <3>2, <3>3, <4>1
    <3>6. /\ reserved' = Logged'
          /\ opened' = IF case' = NoCase THEN 0 ELSE 1
          /\ \A e \in Logged' \cap Incident : case' /= NoCase
      BY <1>0, <3>1, <3>2, <3>3 DEF NoCase
    <3> QED
      BY <2>5, <3>1, <3>4, <3>5, <3>6 DEF Records, OncePerEvent, NoCase
  <2>9. CASE ReplayNext(c)
    <3> DEFINE e == Head(consumer[c].todo)
    <3>1. UNCHANGED <<log, reserved, outbox, opened>>
      BY <2>9 DEF ReplayNext
    <3>2. e \in Logged \cup {NoEvent}
      BY <2>2, <2>9 DEF ReplayNext
    <3>3. CASE e \in Incident
      <4>1. e \in Event /\ e /= NoEvent /\ case /= NoCase
        BY <1>0, <3>2, <3>3, PipelineAssumption DEF IInv, Records
      <4>2. case' = Append(consumer[c].memory, e)
        BY <2>9, <3>3, <4>1 DEF ReplayNext
      <4>3. case' /= NoCase
        BY <2>2, <4>1, <4>2 DEF NoCase
      <4> QED
        BY <2>5, <3>1, <4>1, <4>3 DEF IInv, Records, OncePerEvent, Logged, NoCase
    <3>4. CASE e \notin Incident
      <4>1. case' = case
        BY <2>9, <3>4 DEF ReplayNext
      <4> QED
        BY <2>5, <3>1, <4>1 DEF IInv, Records, OncePerEvent, Logged
    <3> QED
      BY <3>3, <3>4
  <2> QED
    BY <1>3, <2>6, <2>7, <2>8, <2>9, DatabaseStep
<1> QED
  BY <1>1, <1>2, <1>3 DEF Next

LEMMA Start0 == Init => IInv
BY PipelineAssumption
   DEF Init, IInv, TypeOK, Process, PC, InTransaction, AtMessage, Holding, Places, Locks, Rows,
       Records, OncePerEvent, Logged, NoCase

LEMMA Invariant == Spec => []IInv
<1>1. IInv /\ [Next]_vars => IInv'
  BY TypeStep, PlacesStep, LocksStep, RowsStep, RecordsStep DEF IInv
<1> QED
  BY Start0, <1>1, PTL DEF Spec

\* The types of the pipeline's state.
THEOREM TypeCorrect == Spec => []TypeOK
<1>1. IInv => TypeOK
  BY DEF IInv
<1> QED
  BY Invariant, <1>1, PTL

\* Whatever is delivered twice, retried, committed without an answer or
\* replayed, by any number of consumers: an event has one row, one announcement
\* and one reservation, and the case one record of its creation.
THEOREM OnceCorrect == Spec => []OncePerEvent
<1>1. IInv => OncePerEvent
  BY DEF IInv, Records
<1> QED
  BY Invariant, <1>1, PTL
-----------------------------------------------------------------------------
(* Nothing is skipped. *)

\* Everything before a process's position was handled, and before the offset it
\* starts from; so was the message whose offset it is about to commit.
Progress ==
    \A c \in Consumer :
        /\ \A i \in 1..committed[c] : topic[i] \in Handled
        /\ consumer[c].pc /= "down" => \A i \in 1..consumer[c].position : topic[i] \in Handled
        /\ consumer[c].pc = "offset" => Current(c) \in Handled

\* What was handled stays so.
LEMMA HandledStays == IInv /\ [Next]_vars => Handled \subseteq Handled'
<1> SUFFICES ASSUME IInv, [Next]_vars PROVE Handled \subseteq Handled'
  OBVIOUS
<1>1. reserved = Logged /\ reserved' = Logged'
  BY RecordsStep DEF IInv, Records, OncePerEvent
<1>2. CASE UNCHANGED vars
  BY <1>2 DEF vars, database, Handled, Logged
<1>3. ASSUME NEW e \in Event, Publish(e) PROVE Handled \subseteq Handled'
  BY <1>3 DEF Publish, database, Handled, Logged
<1>4. ASSUME NEW c \in Consumer, Step(c) \/ Fault(c) PROVE Handled \subseteq Handled'
  <2>1. reserved \subseteq reserved'
    BY <1>4, DatabaseStep DEF database, AppendEvent, ReplayNext, Visible, Writes
  <2>2. quarantine \subseteq quarantine' /\ dlq \subseteq dlq'
    BY <1>4
       DEF Step, Fault, Poll, PollUndecodable, CommitOffset, DeadLetter, Quarantine, ReserveDuplicate,
           Reserve, AppendEvent, Project, Commit, Start, Resubscribe, Unsubscribe,
           ReplayNext, Replayed, Rollback,
           CommitUnacknowledged, Crash
  <2> QED
    BY <1>1, <2>1, <2>2 DEF Handled
<1> QED
  BY <1>2, <1>3, <1>4 DEF Next

\* How a process comes past a message.
LEMMA Advance ==
    ASSUME IInv, Progress, NEW c \in Consumer, Step(c) \/ Fault(c)
    PROVE  /\ consumer'[c].pc /= "down" =>
                 \/ consumer'[c].position = consumer[c].position /\ consumer[c].pc /= "down"
                 \/ consumer'[c].position = committed[c]
                 \/ /\ consumer[c].pc \in {"offset", "dead"}
                    /\ consumer'[c].position = consumer[c].position + 1
                    /\ Current(c) \in Handled'
           /\ consumer'[c].pc = "offset" =>
                 /\ consumer'[c].position = consumer[c].position
                 /\ Current(c) \in Handled'
                 /\ consumer[c].pc \in AtMessage \cup {"poll"}
                 /\ consumer[c].position < Len(topic)
           /\ \/ committed' = committed
              \/ /\ consumer[c].pc = "offset"
                 /\ committed' = [committed EXCEPT ![c] = consumer[c].position + 1]
<1>1. PICK p \in Process : Becomes(c, p)
  BY ProcessStep DEF IInv
<1>2. /\ consumer'[c] = p /\ consumer[c] \in Process
      /\ \A q : Becomes(c, q) => p = q
  BY <1>1 DEF IInv, Becomes, TypeOK
<1>3. /\ reserved' = Logged' /\ reserved = Logged
      /\ Handled \subseteq Handled'
      /\ consumer[c].pc = "offset" => Current(c) \in Handled
      /\ consumer[c].pc \in AtMessage => consumer[c].position < Len(topic)
  <2>1. Next
    BY DEF Next
  <2> QED
    BY <2>1, RecordsStep, HandledStays DEF IInv, Records, OncePerEvent, Progress, Places
<1> USE DEF Process
<1>4. CASE Poll(c) \/ AppendEvent(c) \/ Project(c) \/ Reserve(c)
  BY <1>2, <1>4 DEF Poll, AppendEvent, Project, Reserve, Moves
<1>5. CASE PollUndecodable(c)
  BY <1>2, <1>5 DEF PollUndecodable, Moves, Handled
<1>6. CASE CommitOffset(c)
  BY <1>2, <1>3, <1>6 DEF CommitOffset
<1>7. CASE DeadLetter(c)
  BY <1>2, <1>7 DEF DeadLetter, Handled
<1>8. CASE Quarantine(c)
  BY <1>2, <1>3, <1>8 DEF Quarantine, Moves, Handled, AtMessage, InTransaction
<1>9. CASE ReserveDuplicate(c)
  BY <1>2, <1>3, <1>9 DEF ReserveDuplicate, Moves, Handled, AtMessage, InTransaction
<1>10. CASE Commit(c)
  <2>1. Current(c) \in reserved'
    BY <1>10 DEF Commit, Visible, Writes
  <2> QED
    BY <1>2, <1>3, <1>10, <2>1 DEF Commit, Moves, Handled, AtMessage, InTransaction
<1>11. CASE Start(c) \/ Resubscribe(c) \/ Unsubscribe(c)
  <2>1. /\ (p.pc \in {"poll", "replay"} /\ p.position = committed[c]) \/ p.pc = "down"
        /\ UNCHANGED committed
    BY <1>2, <1>11, Subscription DEF Start, Resubscribe, Unsubscribe
  <2> QED
    BY <1>2, <2>1
<1>12. CASE ReplayNext(c)
  <2> DEFINE e == Head(consumer[c].todo)
             memory == IF e = NoEvent THEN consumer[c].memory ELSE Append(consumer[c].memory, e)
  <2>1. /\ consumer[c].pc = "replay" /\ UNCHANGED committed
        /\ p = [consumer[c] EXCEPT !.todo = Tail(@), !.memory = memory]
    BY <1>2, <1>12 DEF ReplayNext
  <2> HIDE DEF memory
  <2>2. p.pc = "replay" /\ p.position = consumer[c].position
    BY <1>2, <2>1
  <2> QED
    BY <1>2, <2>1, <2>2
<1>15. CASE Replayed(c)
  BY <1>2, <1>15 DEF Replayed, Moves
<1>13. CASE Rollback(c) \/ CommitUnacknowledged(c)
  BY <1>2, <1>13 DEF Rollback, CommitUnacknowledged, AttemptFailed, InTransaction
<1>14. CASE Crash(c)
  BY <1>2, <1>14 DEF Crash
<1> QED
  BY <1>4, <1>5, <1>6, <1>7, <1>8, <1>9, <1>10, <1>11, <1>12, <1>13, <1>14, <1>15 DEF Step, Fault

LEMMA ProgressStep == IInv /\ Progress /\ [Next]_vars => Progress'
<1> SUFFICES ASSUME IInv, Progress, [Next]_vars PROVE Progress'
  OBVIOUS
<1>0. /\ Handled \subseteq Handled'
      /\ topic \in Seq(Event) /\ Len(topic) \in Nat
      /\ consumer \in [Consumer -> Process] /\ committed \in [Consumer -> Nat]
      /\ \A c \in Consumer : committed[c] \in Nat /\ consumer[c].position \in Nat
      /\ \A c \in Consumer :
            /\ committed[c] <= Len(topic)
            /\ consumer[c].pc /= "down" => consumer[c].position <= Len(topic)
            /\ consumer[c].pc = "offset" => consumer[c].position < Len(topic)
  BY HandledStays DEF IInv, TypeOK, Process, Places, AtMessage
<1>1. CASE UNCHANGED vars
  BY <1>0, <1>1 DEF Progress, Current, vars
<1>2. ASSUME NEW e \in Event, Publish(e) PROVE Progress'
  <2>1. /\ UNCHANGED <<committed, consumer>>
        /\ \A i \in 1..Len(topic) : topic'[i] = topic[i]
    BY <1>0, <1>2 DEF Publish
  <2>2. \A d \in Consumer : consumer[d].pc = "offset" => Current(d)' = Current(d)
    BY <1>0, <2>1 DEF Current
  <2> QED
    BY <1>0, <2>1, <2>2 DEF Progress
<1>3. ASSUME NEW c \in Consumer, Step(c) \/ Fault(c) PROVE Progress'
  <2>1. /\ topic' = topic
        /\ \A d \in Consumer : d /= c => consumer'[d] = consumer[d]
    BY <1>3, DatabaseStep, Effect
  <2>2. \A d \in Consumer : consumer'[d].position = consumer[d].position => Current(d)' = Current(d)
    BY <2>1 DEF Current
  <2> DEFINE A == \/ consumer'[c].position = consumer[c].position /\ consumer[c].pc /= "down"
                  \/ consumer'[c].position = committed[c]
             B == /\ consumer[c].pc \in {"offset", "dead"}
                  /\ consumer'[c].position = consumer[c].position + 1
                  /\ Current(c) \in Handled'
             O == /\ consumer'[c].position = consumer[c].position
                  /\ Current(c) \in Handled'
             K == \/ committed' = committed
                  \/ /\ consumer[c].pc = "offset"
                     /\ committed' = [committed EXCEPT ![c] = consumer[c].position + 1]
  <2>3. /\ consumer'[c].pc /= "down" => A \/ B
        /\ consumer'[c].pc = "offset" => O
        /\ K
    BY <1>3, Advance
  <2>4. \A d \in Consumer : \A i \in 1..committed'[d] : topic[i] \in Handled'
    <3>1. CASE committed' = committed
      BY <1>0, <3>1 DEF Progress
    <3>2. CASE consumer[c].pc = "offset" /\ committed' = [committed EXCEPT ![c] = consumer[c].position + 1]
      <4>1. \A i \in 1..consumer[c].position : topic[i] \in Handled'
        BY <1>0, <3>2 DEF Progress
      <4>2. topic[consumer[c].position + 1] \in Handled'
        BY <1>0, <3>2 DEF Progress, Current
      <4>3. \A i \in 1..(consumer[c].position + 1) :
                i \in 1..consumer[c].position \/ i = consumer[c].position + 1
        BY <1>0
      <4>4. \A d \in Consumer : d /= c => committed'[d] = committed[d]
        BY <1>0, <3>2
      <4>5. committed'[c] = consumer[c].position + 1
        BY <1>0, <3>2
      <4> QED
        BY <1>0, <4>1, <4>2, <4>3, <4>4, <4>5 DEF Progress
    <3> QED
      BY <2>3, <3>1, <3>2
  <2>5. consumer'[c].pc /= "down" => \A i \in 1..consumer'[c].position : topic[i] \in Handled'
    <3>1. CASE A
      BY <1>0, <3>1 DEF Progress
    <3>2. CASE B
      <4>1. \A i \in 1..consumer[c].position : topic[i] \in Handled'
        BY <1>0, <3>2 DEF Progress
      <4>2. topic[consumer[c].position + 1] \in Handled'
        BY <3>2 DEF Current
      <4>3. \A i \in 1..(consumer[c].position + 1) :
                i \in 1..consumer[c].position \/ i = consumer[c].position + 1
        BY <1>0
      <4> QED
        BY <3>2, <4>1, <4>2, <4>3
    <3> QED
      BY <2>3, <3>1, <3>2
  <2> HIDE DEF A, B, O, K
  <2>6. consumer'[c].pc = "offset" => Current(c)' \in Handled'
    BY <2>2, <2>3 DEF O
  <2>7. ASSUME NEW d \in Consumer, d /= c
        PROVE  /\ consumer'[d].pc /= "down" => \A i \in 1..consumer'[d].position : topic[i] \in Handled'
               /\ consumer'[d].pc = "offset" => Current(d)' \in Handled'
    BY <1>0, <2>1, <2>2, <2>7 DEF Progress
  <2> QED
    BY <2>1, <2>4, <2>5, <2>6, <2>7 DEF Progress
<1> QED
  BY <1>1, <1>2, <1>3 DEF Next

\* A group's offset only passes messages that are in the log, in quarantine or
\* dead-lettered: whenever a consumer stops, nothing is lost by its restart.
THEOREM SkipCorrect == Spec => []NothingIsSkipped
<1>1. Init => Progress
  BY DEF Init, Progress
<1>2. IInv /\ Progress /\ [Next]_vars => Progress'
  BY ProgressStep
<1>3. Progress => NothingIsSkipped
  BY DEF Progress, NothingIsSkipped
<1> QED
  BY <1>1, <1>2, <1>3, Invariant, PTL DEF Spec
-----------------------------------------------------------------------------
(* Refinement. *)

\* Every step is a step of the ledger or leaves it alone.
LEMMA LedgerStep == IInv /\ [Next]_vars => [Ledger!LedgerNext]_(Ledger!ledgerVars)
<1> SUFFICES ASSUME IInv, [Next]_vars
             PROVE  Ledger!LedgerNext \/ UNCHANGED Ledger!ledgerVars
  OBVIOUS
<1> USE DEF Ledger!LedgerNext, Ledger!ledgerVars, Ledger!Accept, Ledger!SetAside
<1>1. CASE UNCHANGED vars
  BY <1>1 DEF vars, database, Logged
<1>2. ASSUME NEW e \in Event, Publish(e) PROVE UNCHANGED Ledger!ledgerVars
  BY <1>2 DEF Publish, database, Logged
<1>3. ASSUME NEW c \in Consumer, Step(c) \/ Fault(c)
      PROVE  Ledger!LedgerNext \/ UNCHANGED Ledger!ledgerVars
  <2> DEFINE aside == quarantine \cup dlq
  <2>1. CASE consumer[c].pc = "commit" /\ Visible(c)
    <3>1. /\ Current(c) \in Event /\ Current(c) \notin Logged
          /\ Logged' = Logged \cup {Current(c)}
      BY <2>1, VisibleRecords
    <3>2. /\ outbox' = Append(outbox, Current(c))
          /\ opened' \in {opened, 1}
      BY <2>1 DEF Visible, Writes, Creations, IInv, Records, OncePerEvent
    <3>3. UNCHANGED aside
      BY <1>3, <2>1
         DEF Step, Fault, Poll, PollUndecodable, CommitOffset, DeadLetter, Quarantine, ReserveDuplicate,
             Reserve, AppendEvent, Project, Commit, Moves, Start, Resubscribe, Unsubscribe,
             ReplayNext, Replayed, Rollback,
             CommitUnacknowledged, Crash
    <3> QED
      BY <3>1, <3>2, <3>3
  <2>2. CASE UNCHANGED database
    <3>1. UNCHANGED <<Logged, outbox, opened>>
      BY <2>2 DEF database, Logged
    <3>2. \/ UNCHANGED aside
          \/ Current(c) \in Event /\ aside' = aside \cup {Current(c)}
      <4>1. CASE PollUndecodable(c)
        BY <4>1, PipelineAssumption DEF PollUndecodable
      <4>2. CASE Quarantine(c) \/ DeadLetter(c)
        <5>1. Current(c) \in Event
          BY <4>2, CurrentEvent DEF IInv, Quarantine, DeadLetter, Moves, AtMessage, InTransaction
        <5> QED
          BY <4>2, <5>1 DEF Quarantine, DeadLetter
      <4> QED
        BY <1>3, <4>1, <4>2
           DEF Step, Fault, Poll, CommitOffset, ReserveDuplicate,
               Reserve, AppendEvent, Project, Commit, Start, Resubscribe, Unsubscribe,
               ReplayNext, Replayed, Rollback,
               CommitUnacknowledged, Crash
    <3> QED
      BY <3>1, <3>2
  <2>3. CASE AppendEvent(c)
    <3>1. log' = Append(log, NoEvent) /\ log \in Seq(Event \cup {NoEvent})
      BY <2>3 DEF AppendEvent, IInv, TypeOK
    <3>2. /\ DOMAIN log' = DOMAIN log \cup {Len(log) + 1}
          /\ log'[Len(log) + 1] = NoEvent
          /\ \A s \in DOMAIN log : log'[s] = log[s]
      BY <3>1
    <3>3. Logged' = Logged
      BY <3>2 DEF Logged
    <3> QED
      BY <2>3, <3>3 DEF AppendEvent
  <2>4. CASE ReplayNext(c)
    BY <2>4 DEF ReplayNext, Logged
  <2> QED
    BY <1>3, <2>1, <2>2, <2>3, <2>4, DatabaseStep
<1> QED
  BY <1>1, <1>2, <1>3 DEF Next

\* Ingestion, with its transactions, offsets, retries, replays and crashes,
\* implements the ledger.
THEOREM LedgerCorrect == Spec => KeepsLedger
<1>1. Init => Ledger!LedgerInit
  BY DEF Init, Ledger!LedgerInit, Logged
<1>2. IInv /\ [Next]_vars => [Ledger!LedgerNext]_(Ledger!ledgerVars)
  BY LedgerStep
<1> QED
  BY <1>1, <1>2, Invariant, PTL DEF Spec, KeepsLedger, Ledger!LedgerSpec
-----------------------------------------------------------------------------
(* The events of a log, by induction over its rows.                          *)

LEMMA Least ==
    ASSUME NEW T, T \subseteq Nat, T # {}
    PROVE  \E x \in T : \A y \in T : x <= y
<1> DEFINE R == OpToRel(<, Nat)
<1>1. PICK x \in T : \A y \in T : <<y, x>> \notin R
  <2>1. IsWellFoundedOn(R, Nat)
    BY NatLessThanWellFounded
  <2> HIDE DEF R
  <2> QED
    BY <2>1, WFMin
<1>2. \A y \in T : ~(y < x)
  BY <1>1 DEF OpToRel
<1> QED
  BY <1>2

LEMMA Upward ==
    ASSUME NEW T, 0 \in T, \A i \in Nat : i \in T => i + 1 \in T
    PROVE  Nat \subseteq T
<1> SUFFICES ASSUME Nat \ T # {} PROVE FALSE
  OBVIOUS
<1>1. PICK x \in Nat \ T : \A y \in Nat \ T : x <= y
  BY Least
<1>2. x - 1 \in Nat /\ x - 1 \in T
  BY <1>1
<1> QED
  BY <1>1, <1>2

AfterRow(rows, f, n) ==
    IF n = 0 THEN <<>>
    ELSE IF rows[n] = NoEvent THEN f[n - 1] ELSE Append(f[n - 1], rows[n])

Upto(rows) == CHOOSE f : f = [n \in 0..Len(rows) |-> AfterRow(rows, f, n)]

LEMMA EventsAre == \A rows : EventsOf(rows) = Upto(rows)[Len(rows)]
BY DEF EventsOf, Upto, AfterRow

LEMMA UptoDef ==
    ASSUME NEW rows, Len(rows) \in Nat
    PROVE  \A n \in 0..Len(rows) : Upto(rows)[n] = AfterRow(rows, Upto(rows), n)
<1> DEFINE Solves(f, m) == f = [n \in 0..m |-> AfterRow(rows, f, n)]
           T == {m \in Nat : \E f : Solves(f, m)}
<1>1. 0 \in T
  <2> DEFINE f == [n \in 0..0 |-> <<>>]
  <2>1. \A n \in 0..0 : n = 0
    OBVIOUS
  <2>2. Solves(f, 0)
    BY <2>1 DEF AfterRow
  <2> QED
    BY <2>2
<1>2. ASSUME NEW m \in Nat, m \in T PROVE m + 1 \in T
  <2>1. PICK f : Solves(f, m)
    BY <1>2
  <2> DEFINE g == [n \in 0..m + 1 |-> IF n <= m THEN f[n] ELSE AfterRow(rows, f, n)]
             h == [n \in 0..m + 1 |-> AfterRow(rows, g, n)]
  <2>2. ASSUME NEW n \in 0..m + 1 PROVE AfterRow(rows, g, n) = AfterRow(rows, f, n)
    <3>1. CASE n = 0
      BY <3>1 DEF AfterRow
    <3>2. CASE n # 0
      <4>1. n - 1 \in 0..m + 1 /\ n - 1 <= m
        BY <3>2
      <4>2. g[n - 1] = f[n - 1]
        BY <4>1
      <4> HIDE DEF g
      <4> QED
        BY <4>2 DEF AfterRow
    <3> QED
      BY <3>1, <3>2
  <2>3. ASSUME NEW n \in 0..m + 1 PROVE g[n] = AfterRow(rows, f, n)
    <3>1. CASE n <= m
      <4>1. n \in 0..m
        BY <3>1
      <4>2. f[n] = AfterRow(rows, f, n)
        BY <2>1, <4>1
      <4> QED
        BY <3>1, <4>2
    <3>2. CASE ~(n <= m)
      BY <3>2
    <3> QED
      BY <3>1, <3>2
  <2>4. \A n \in 0..m + 1 : g[n] = h[n]
    <3>1. \A n \in 0..m + 1 : h[n] = AfterRow(rows, g, n)
      OBVIOUS
    <3> HIDE DEF g, h
    <3> QED
      BY <2>2, <2>3, <3>1
  <2>5. g = h
    <3>1. g = [n \in 0..m + 1 |-> g[n]] /\ h = [n \in 0..m + 1 |-> h[n]]
      OBVIOUS
    <3> HIDE DEF g, h
    <3> QED
      BY <2>4, <3>1
  <2>6. Solves(g, m + 1) /\ m + 1 \in Nat
    BY <2>5
  <2> QED
    BY <2>6
<1>3. Len(rows) \in T
  <2> HIDE DEF T
  <2> QED
    BY <1>1, <1>2, Upward
<1>4. Upto(rows) = [n \in 0..Len(rows) |-> AfterRow(rows, Upto(rows), n)]
  BY <1>3 DEF Upto
<1> QED
  BY <1>4

\* The events up to a row are those of the rows up to it.
LEMMA UptoAgree ==
    ASSUME NEW rows, NEW other, Len(rows) \in Nat, Len(other) \in Nat,
           NEW m \in Nat, m <= Len(rows), m <= Len(other), \A i \in 1..m : rows[i] = other[i]
    PROVE  Upto(rows)[m] = Upto(other)[m]
<1> DEFINE T == {n \in Nat : n <= m => Upto(rows)[n] = Upto(other)[n]}
<1>1. 0 \in T
  BY UptoDef DEF AfterRow
<1>2. ASSUME NEW n \in Nat, n \in T PROVE n + 1 \in T
  <2> SUFFICES ASSUME n + 1 <= m PROVE Upto(rows)[n + 1] = Upto(other)[n + 1]
    OBVIOUS
  <2>1. /\ n + 1 \in 0..Len(rows) /\ n + 1 \in 0..Len(other) /\ n + 1 \in 1..m
        /\ (n + 1) - 1 = n /\ n + 1 # 0 /\ n <= m
    OBVIOUS
  <2>2. Upto(rows)[n] = Upto(other)[n] /\ rows[n + 1] = other[n + 1]
    BY <1>2, <2>1
  <2>3. /\ Upto(rows)[n + 1] = AfterRow(rows, Upto(rows), n + 1)
        /\ Upto(other)[n + 1] = AfterRow(other, Upto(other), n + 1)
    BY <2>1, UptoDef
  <2> QED
    BY <2>1, <2>2, <2>3 DEF AfterRow
<1>3. m \in T
  <2> HIDE DEF T
  <2> QED
    BY <1>1, <1>2, Upward
<1> QED
  BY <1>3

Row == Event \cup {NoEvent}

\* They are events, and all of them.
LEMMA UptoType ==
    ASSUME NEW rows \in Seq(Row)
    PROVE  \A n \in 0..Len(rows) :
               /\ Upto(rows)[n] \in Seq(Event)
               /\ \A e \in Event : (\E i \in DOMAIN Upto(rows)[n] : Upto(rows)[n][i] = e)
                                       <=> (\E s \in 1..n : rows[s] = e)
<1> DEFINE Holds(n) ==
               /\ Upto(rows)[n] \in Seq(Event)
               /\ \A e \in Event : (\E i \in DOMAIN Upto(rows)[n] : Upto(rows)[n][i] = e)
                                       <=> (\E s \in 1..n : rows[s] = e)
           T == {n \in Nat : n <= Len(rows) => Holds(n)}
<1>0. Len(rows) \in Nat /\ \A s \in 1..Len(rows) : rows[s] \in Row
  OBVIOUS
<1>1. 0 \in T
  <2>1. Upto(rows)[0] = <<>>
    BY <1>0, UptoDef DEF AfterRow
  <2>2. 1..0 = {} /\ DOMAIN <<>> = {} /\ <<>> \in Seq(Event)
    OBVIOUS
  <2> QED
    BY <2>1, <2>2
<1>2. ASSUME NEW n \in Nat, n \in T PROVE n + 1 \in T
  <2> SUFFICES ASSUME n + 1 <= Len(rows) PROVE Holds(n + 1)
    OBVIOUS
  <2> DEFINE a == Upto(rows)[n]
             b == Upto(rows)[n + 1]
             x == rows[n + 1]
  <2>1. Holds(n)
    BY <1>0, <1>2
  <2>2. n + 1 \in 0..Len(rows) /\ (n + 1) - 1 = n /\ n + 1 # 0 /\ n + 1 \in 1..Len(rows)
    BY <1>0
  <2>3. b = IF x = NoEvent THEN a ELSE Append(a, x)
    BY <1>0, <2>2, UptoDef DEF AfterRow
  <2>4. \A e : (\E s \in 1..n + 1 : rows[s] = e) <=> ((\E s \in 1..n : rows[s] = e) \/ x = e)
    <3>1. 1..n + 1 = (1..n) \cup {n + 1}
      OBVIOUS
    <3> QED
      BY <3>1
  <2>5. x \in Row /\ NoEvent \notin Event
    BY <1>0, <2>2, PipelineAssumption
  <2>6. CASE x = NoEvent
    <3>1. b = a
      BY <2>3, <2>6
    <3>2. \A e \in Event : x # e
      BY <2>5, <2>6
    <3> HIDE DEF a, b, x
    <3>3. a \in Seq(Event)
          /\ \A e \in Event : (\E i \in DOMAIN a : a[i] = e) <=> (\E s \in 1..n : rows[s] = e)
      BY <2>1 DEF a
    <3>4. b \in Seq(Event)
          /\ \A e \in Event : (\E i \in DOMAIN b : b[i] = e) <=> (\E s \in 1..n + 1 : rows[s] = e)
      BY <2>4, <3>1, <3>2, <3>3
    <3> QED
      BY <3>4 DEF b
  <2>7. CASE x # NoEvent
    <3>1. b = Append(a, x) /\ x \in Event
      BY <2>3, <2>5, <2>7 DEF Row
    <3> HIDE DEF a, b, x
    <3>2. a \in Seq(Event)
          /\ \A e \in Event : (\E i \in DOMAIN a : a[i] = e) <=> (\E s \in 1..n : rows[s] = e)
      BY <2>1 DEF a
    <3>3. b \in Seq(Event) /\ \A e : (\E i \in DOMAIN b : b[i] = e)
                                        <=> ((\E i \in DOMAIN a : a[i] = e) \/ x = e)
      <4>1. b \in Seq(Event) /\ DOMAIN b = DOMAIN a \cup {Len(a) + 1} /\ b[Len(a) + 1] = x
            /\ \A i \in DOMAIN a : b[i] = a[i]
        BY <3>1, <3>2
      <4> QED
        BY <4>1
    <3>4. \A e \in Event : (\E i \in DOMAIN b : b[i] = e) <=> (\E s \in 1..n + 1 : rows[s] = e)
      BY <2>4, <3>2, <3>3
    <3> QED
      BY <3>3, <3>4 DEF b
  <2> QED
    BY <2>6, <2>7
<1>3. Nat \subseteq T
  <2> HIDE DEF T
  <2> QED
    BY <1>1, <1>2, Upward
<1> QED
  BY <1>0, <1>3

\* A row drawn changes nothing, and the last row adds its event when it is committed.
LEMMA EventsSteps ==
    ASSUME NEW rows \in Seq(Row)
    PROVE  /\ EventsOf(Append(rows, NoEvent)) = EventsOf(rows)
           /\ \A e \in Event :
                 Len(rows) > 0 /\ rows[Len(rows)] = NoEvent =>
                     EventsOf([rows EXCEPT ![Len(rows)] = e]) = Append(EventsOf(rows), e)
<1> DEFINE n == Len(rows)
<1>0. n \in Nat
  OBVIOUS
<1>1. EventsOf(Append(rows, NoEvent)) = EventsOf(rows)
  <2> DEFINE longer == Append(rows, NoEvent)
  <2>1. Len(longer) = n + 1 /\ longer[n + 1] = NoEvent /\ \A i \in 1..n : longer[i] = rows[i]
    OBVIOUS
  <2> HIDE DEF longer
  <2>2. n + 1 \in 0..Len(longer) /\ (n + 1) - 1 = n /\ n + 1 # 0 /\ n <= Len(longer)
        /\ Len(longer) \in Nat /\ n <= Len(rows)
    BY <1>0, <2>1
  <2>3. Upto(longer)[n + 1] = Upto(longer)[n]
    BY <2>1, <2>2, UptoDef DEF AfterRow
  <2>4. Upto(longer)[n] = Upto(rows)[n]
    BY <1>0, <2>1, <2>2, UptoAgree
  <2> QED
    BY <2>1, <2>3, <2>4, EventsAre DEF longer
<1>2. ASSUME NEW e \in Event, n > 0, rows[n] = NoEvent
      PROVE  EventsOf([rows EXCEPT ![n] = e]) = Append(EventsOf(rows), e)
  <2> DEFINE other == [rows EXCEPT ![n] = e]
             m == n - 1
  <2>1. Len(other) = n /\ other[n] = e /\ \A i \in 1..m : other[i] = rows[i]
    BY <1>2
  <2>2. m \in Nat /\ m <= n /\ n \in 0..n /\ n # 0
    BY <1>0, <1>2
  <2>3. e # NoEvent
    BY PipelineAssumption
  <2> HIDE DEF other
  <2>4. Upto(other)[n] = Append(Upto(other)[m], e)
    BY <1>0, <2>1, <2>2, <2>3, UptoDef DEF AfterRow
  <2>5. Upto(rows)[n] = Upto(rows)[m]
    BY <1>0, <1>2, <2>2, UptoDef DEF AfterRow
  <2>6. Upto(other)[m] = Upto(rows)[m]
    <3> HIDE DEF m
    <3> QED
      BY <1>0, <2>1, <2>2, UptoAgree
  <2> QED
    BY <2>1, <2>4, <2>5, <2>6, EventsAre DEF other
<1> QED
  BY <1>1, <1>2
-----------------------------------------------------------------------------
(* A stream worker on its own, in postgres-only mode.                        *)

OneStreamWorker == \E w : Consumer = {w} /\ Replaying = {w} /\ Integrated = {}

\* The document is the evidence up to the last incident, if there is one.
Shown(events, document) ==
    \/ \A i \in DOMAIN events : events[i] \notin Incident
    \/ \E i \in DOMAIN events :
          /\ events[i] \in Incident
          /\ document = SubSeq(events, 1, i)
          /\ \A j \in i+1 .. Len(events) : events[j] \notin Incident

\* A replay has read the log up to some row.
HasRead(memory, todo, rows, document) ==
    \E k \in 0..Len(rows) :
        /\ todo = SubSeq(rows, k + 1, Len(rows))
        /\ memory = Upto(rows)[k]
        /\ Shown(memory, document)

Follows ==
    \A c \in Consumer :
        /\ ~consumer[c].building
        /\ consumer[c].pc = "down" => consumer[c].memory = <<>>
        /\ consumer[c].pc \in {"project", "commit"} => consumer[c].sequence = Len(log)
        /\ consumer[c].pc = "replay" =>
              HasRead(consumer[c].memory, consumer[c].todo, log, case)
        /\ errors = 0 /\ consumer[c].pc \notin {"down", "replay"} =>
              /\ consumer[c].memory =
                    IF consumer[c].pc = "commit" THEN Append(Accepted, Current(c)) ELSE Accepted
              /\ Shown(Accepted, case)

Points ==
    /\ checkpoint \in 0..Len(log)
    /\ checkpoint > 0 => log[checkpoint] /= NoEvent
    /\ \A s \in DOMAIN log : log[s] /= NoEvent => s <= checkpoint

NoCaseYet == case /= NoCase => \E e \in Logged : e \in Incident

FollowInv == Follows /\ Points /\ NoCaseYet

LEMMA ShownAppend ==
    ASSUME NEW events \in Seq(Event), NEW e \in Event, NEW document, Shown(events, document)
    PROVE  Shown(Append(events, e), IF e \in Incident THEN Append(events, e) ELSE document)
<1> DEFINE n == Len(events)
           more == Append(events, e)
<1>1. /\ n \in Nat /\ Len(more) = n + 1 /\ more[n + 1] = e /\ DOMAIN more = 1..n + 1
      /\ DOMAIN events = 1..n /\ \A i \in 1..n : more[i] = events[i]
      /\ more \in Seq(Event)
  OBVIOUS
<1>2. CASE e \in Incident
  <2>1. SubSeq(more, 1, n + 1) = more
    BY <1>1, SubSeqFull
  <2>2. n + 1 \in DOMAIN more /\ n + 1 + 1 .. Len(more) = {}
    BY <1>1
  <2> HIDE DEF more
  <2> QED
    BY <1>1, <1>2, <2>1, <2>2 DEF Shown, more
<1>3. CASE e \notin Incident
  <2>1. CASE \A i \in DOMAIN events : events[i] \notin Incident
    <3>1. \A i \in DOMAIN more : more[i] \notin Incident
      BY <1>1, <1>3, <2>1
    <3> QED
      BY <1>3, <3>1 DEF Shown
  <2>2. ASSUME NEW i \in DOMAIN events, events[i] \in Incident, document = SubSeq(events, 1, i),
               \A j \in i+1 .. Len(events) : events[j] \notin Incident
        PROVE  Shown(more, document)
    <3> HIDE DEF more
    <3>1. i \in DOMAIN more /\ more[i] \in Incident
      BY <1>1, <2>2
    <3>2. \A j \in i+1 .. Len(more) : more[j] \notin Incident
      <4>1. \A j \in i+1 .. n + 1 : j \in 1..n + 1 /\ (j = n + 1 \/ (j \in 1..n /\ j \in i+1 .. n))
        BY <1>1
      <4> QED
        BY <1>1, <1>3, <2>2, <4>1
    <3>3. SubSeq(more, 1, i) = SubSeq(events, 1, i)
      <4>1. i <= Len(events) /\ i <= Len(more) /\ i \in Nat
        BY <1>1
      <4>2. \A j \in 1..i : more[j] = events[j]
        BY <1>1, <4>1
      <4> QED
        BY <1>1, <4>1, <4>2
    <3> QED
      BY <2>2, <3>1, <3>2, <3>3 DEF Shown
  <2> QED
    BY <1>3, <2>1, <2>2 DEF Shown
<1> QED
  BY <1>2, <1>3

LEMMA EventsType ==
    ASSUME TypeOK
    PROVE  /\ log \in Seq(Row) /\ Len(log) \in Nat /\ Accepted \in Seq(Event)
           /\ \A e \in Event : (\E i \in DOMAIN Accepted : Accepted[i] = e) <=> e \in Logged
<1>1. log \in Seq(Row) /\ Len(log) \in Nat
  BY DEF TypeOK, Row
<1>2. Accepted = Upto(log)[Len(log)]
  BY EventsAre DEF Accepted
<1>3. DOMAIN log = 1..Len(log) /\ Len(log) \in 0..Len(log)
  BY <1>1
<1> DEFINE a == Upto(log)[Len(log)]
<1>4. a \in Seq(Event)
      /\ \A e \in Event : (\E i \in DOMAIN a : a[i] = e) <=> (\E s \in 1..Len(log) : log[s] = e)
  BY <1>1, <1>3, UptoType
<1> HIDE DEF a
<1>5. NoEvent \notin Event
  BY PipelineAssumption
<1> QED
  BY <1>1, <1>2, <1>3, <1>4, <1>5 DEF Logged, a

\* Incidents before the case are incidents in the log.
LEMMA ShownNone ==
    ASSUME TypeOK, NoCaseYet, Shown(Accepted, case)
    PROVE  \/ \A i \in DOMAIN Accepted : Accepted[i] \notin Incident /\ case = NoCase
           \/ \E i \in DOMAIN Accepted :
                 /\ Accepted[i] \in Incident
                 /\ case = SubSeq(Accepted, 1, i)
                 /\ \A j \in i+1 .. Len(Accepted) : Accepted[j] \notin Incident
<1>1. CASE \A i \in DOMAIN Accepted : Accepted[i] \notin Incident
  <2>1. \A e \in Logged : e \notin Incident
    BY <1>1, EventsType, PipelineAssumption
  <2> QED
    BY <1>1, <2>1 DEF NoCaseYet
<1> QED
  BY <1>1 DEF Shown

LEMMA FollowStart == ASSUME OneStreamWorker PROVE Init => FollowInv
<1> SUFFICES ASSUME Init PROVE FollowInv
  OBVIOUS
<1>1. log = <<>> /\ case = NoCase /\ checkpoint = 0
      /\ \A c \in Consumer : consumer[c].pc = "down" /\ consumer[c].memory = <<>> /\ ~consumer[c].building
  BY DEF Init
<1> QED
  BY <1>1 DEF FollowInv, Follows, Points, NoCaseYet

\* The replay reads the next row.
LEMMA ReadsOn ==
    ASSUME TypeOK, NEW c \in Consumer, ReplayNext(c),
           HasRead(consumer[c].memory, consumer[c].todo, log, case)
    PROVE  HasRead(consumer'[c].memory, consumer'[c].todo, log, case')
<1> DEFINE e == Head(consumer[c].todo)
           memory == consumer[c].memory
<1>1. PICK k \in 0..Len(log) :
          /\ consumer[c].todo = SubSeq(log, k + 1, Len(log))
          /\ memory = Upto(log)[k]
          /\ Shown(memory, case)
  BY DEF HasRead
<1>2. log \in Seq(Row) /\ Len(log) \in Nat /\ NoEvent \notin Event
  BY EventsType, PipelineAssumption
<1>3. k < Len(log)
  <2> SUFFICES ASSUME ~(k < Len(log)) PROVE FALSE
    OBVIOUS
  <2>1. Len(log) < k + 1 /\ k + 1 \in Int /\ Len(log) \in Int
    BY <1>2
  <2>2. consumer[c].todo = <<>>
    BY <1>1, <2>1, SubSeqEmpty
  <2> QED
    BY <2>2 DEF ReplayNext
<1>4. k + 1 \in 1..Len(log) /\ Len(log) \in k + 1 .. Len(log) /\ k + 1 \in 0..Len(log)
      /\ (k + 1) - 1 = k /\ k + 1 # 0
  BY <1>2, <1>3
<1>5. e = log[k + 1] /\ Tail(consumer[c].todo) = SubSeq(log, k + 1 + 1, Len(log))
  BY <1>1, <1>2, <1>4, HeadTailOfSubSeq
<1>6. e \in Row
  BY <1>2, <1>4, <1>5
<1>7. Upto(log)[k + 1] = IF e = NoEvent THEN memory ELSE Append(memory, e)
  BY <1>1, <1>2, <1>4, <1>5, UptoDef DEF AfterRow
<1>8. memory \in Seq(Event)
  BY DEF TypeOK, Process
<1> DEFINE new == IF e = NoEvent THEN memory ELSE Append(memory, e)
<1>9. /\ consumer'[c].todo = Tail(consumer[c].todo)
      /\ consumer'[c].memory = new
      /\ case' = IF e \in Incident THEN new ELSE case
  <2>1. consumer' = [consumer EXCEPT ![c] = [consumer[c] EXCEPT !.todo = Tail(@), !.memory = new]]
    BY DEF ReplayNext, Becomes
  <2>2. case' = IF e \in Incident THEN new ELSE case
    BY DEF ReplayNext
  <2> HIDE DEF new, e
  <2>3. consumer[c] \in Process /\ consumer \in [Consumer -> Process]
    BY DEF TypeOK
  <2> QED
    BY <2>1, <2>2, <2>3 DEF Process
<1> HIDE DEF e, memory
<1>10. Shown(new, case')
  <2>1. CASE e = NoEvent
    BY <1>1, <1>2, <1>9, <2>1, PipelineAssumption
  <2>2. CASE e # NoEvent
    <3>1. e \in Event /\ new = Append(memory, e)
      BY <1>6, <2>2 DEF Row
    <3> QED
      BY <1>1, <1>8, <1>9, <3>1, ShownAppend
  <2> QED
    BY <2>1, <2>2
<1> QED
  BY <1>4, <1>5, <1>7, <1>9, <1>10 DEF HasRead

\* The events of the log after a commit.
LEMMA CommitAdds ==
    ASSUME IInv, FollowInv, NEW c \in Consumer, consumer[c].pc = "commit", Visible(c)
    PROVE  /\ Current(c) \in Event
           /\ Accepted' = Append(Accepted, Current(c))
           /\ Len(log') = Len(log) /\ Len(log) \in Nat \ {0}
           /\ \A s \in DOMAIN log : log'[s] = IF s = Len(log) THEN Current(c) ELSE log[s]
           /\ DOMAIN log' = DOMAIN log /\ Logged' = Logged \cup {Current(c)}
           /\ checkpoint' = Len(log)
           /\ case' = IF Current(c) \in Incident THEN consumer[c].memory ELSE case
<1>1. /\ consumer[c].sequence = Len(log) /\ Len(log) \in DOMAIN log
      /\ log[Len(log)] = NoEvent
  BY DEF FollowInv, Follows, IInv, Rows
<1>2. /\ Current(c) \in Event
      /\ log' = [log EXCEPT ![Len(log)] = Current(c)]
      /\ checkpoint' = Len(log)
      /\ case' = IF Current(c) \in Incident THEN consumer[c].memory ELSE case
  BY <1>1, VisibleRecords DEF Visible, Writes, CaseWritten
<1>3. log \in Seq(Row) /\ Len(log) \in Nat \ {0}
  BY <1>1, EventsType DEF IInv
<1>4. Accepted' = Append(Accepted, Current(c))
  <2>1. EventsOf([log EXCEPT ![Len(log)] = Current(c)]) = Append(EventsOf(log), Current(c))
    <3>1. \A e \in Event : Len(log) > 0 /\ log[Len(log)] = NoEvent =>
              EventsOf([log EXCEPT ![Len(log)] = e]) = Append(EventsOf(log), e)
      BY <1>3, EventsSteps
    <3>2. Len(log) > 0 /\ log[Len(log)] = NoEvent /\ Current(c) \in Event
      BY <1>1, <1>2, <1>3
    <3> QED
      BY <3>1, <3>2, Zenon
  <2>2. Accepted' = EventsOf(log')
    BY DEF Accepted, EventsOf
  <2> QED
    BY <1>2, <2>1, <2>2 DEF Accepted
<1>5. Len(log') = Len(log)
  BY <1>2, <1>3
<1> QED
  BY <1>1, <1>2, <1>3, <1>4, <1>5, VisibleRecords

LEMMA FollowStep ==
    ASSUME OneStreamWorker
    PROVE  IInv /\ FollowInv /\ [Next]_vars => FollowInv'
<1> SUFFICES ASSUME IInv, FollowInv, [Next]_vars PROVE FollowInv'
  OBVIOUS
<1>0. /\ log \in Seq(Row) /\ Len(log) \in Nat /\ Accepted \in Seq(Event)
      /\ NoEvent \notin Event /\ errors \in Nat
      /\ consumer \in [Consumer -> Process]
  BY EventsType, PipelineAssumption DEF IInv, TypeOK
<1>1. UNCHANGED log => Accepted' = Accepted
  BY DEF Accepted, EventsOf
<1>2. CASE UNCHANGED vars
  <2>1. UNCHANGED <<log, case, checkpoint, consumer, errors, topic>>
    BY <1>2 DEF vars, database, bounds
  <2> QED
    BY <1>1, <2>1 DEF FollowInv, Follows, Points, NoCaseYet, Logged, Current
<1>3. ASSUME NEW e \in Event, Publish(e) PROVE FollowInv'
  <2>1. /\ UNCHANGED <<log, case, checkpoint, consumer, errors>>
        /\ topic' = Append(topic, e)
    BY <1>3 DEF Publish, database, bounds
  <2>2. \A c \in Consumer : consumer[c].pc = "commit" => Current(c)' = Current(c)
    BY <2>1, SameCurrent DEF IInv, AtMessage, InTransaction
  <2> QED
    BY <1>1, <2>1, <2>2 DEF FollowInv, Follows, Points, NoCaseYet, Logged
<1>4. ASSUME NEW c \in Consumer, Step(c) \/ Fault(c) PROVE FollowInv'
  <2>0. Consumer = {c} /\ Replaying = {c} /\ Integrated = {}
    BY DEF OneStreamWorker
  <2>1. PICK p \in Process : Becomes(c, p)
    BY <1>4, ProcessStep DEF IInv
  <2> DEFINE q == consumer[c]
  <2>2. /\ consumer'[c] = p /\ q \in Process
        /\ \A r : Becomes(c, r) => p = r
    BY <1>0, <2>1 DEF Becomes
  <2>3. /\ ~q.building
        /\ q.pc = "down" => q.memory = <<>>
        /\ q.pc \in {"project", "commit"} => q.sequence = Len(log)
        /\ q.pc = "replay" => HasRead(q.memory, q.todo, log, case)
        /\ errors = 0 /\ q.pc \notin {"down", "replay"} =>
              /\ q.memory = IF q.pc = "commit" THEN Append(Accepted, Current(c)) ELSE Accepted
              /\ Shown(Accepted, case)
    BY DEF FollowInv, Follows
  <2>4. ASSUME ~p.building,
               p.pc = "down" => p.memory = <<>>,
               p.pc \in {"project", "commit"} => p.sequence = Len(log'),
               p.pc = "replay" => HasRead(p.memory, p.todo, log', case'),
               errors' = 0 /\ p.pc \notin {"down", "replay"} =>
                  /\ p.memory = IF p.pc = "commit" THEN Append(Accepted', Current(c)') ELSE Accepted'
                  /\ Shown(Accepted', case')
        PROVE  Follows'
    BY <2>0, <2>2, <2>4 DEF Follows
  <2>5. UNCHANGED <<log, case, checkpoint>> => Points' /\ NoCaseYet'
    BY DEF FollowInv, Points, NoCaseYet, Logged
  <2> USE DEF Process
  <2>6. CASE Poll(c) \/ PollUndecodable(c) \/ CommitOffset(c) \/ DeadLetter(c)
             \/ Quarantine(c) \/ ReserveDuplicate(c) \/ Reserve(c)
    <3>1. /\ q.pc \in {"poll", "offset", "dead", "reserve"}
          /\ p.pc \in {"poll", "offset", "reserve", "append"}
          /\ p.building = q.building /\ p.memory = q.memory
      BY <2>2, <2>6 DEF Poll, PollUndecodable, CommitOffset, DeadLetter, Quarantine,
                        ReserveDuplicate, Reserve, Moves
    <3>2. UNCHANGED <<log, case, checkpoint, errors>>
      BY <2>6 DEF Poll, PollUndecodable, CommitOffset, DeadLetter, Quarantine,
                  ReserveDuplicate, Reserve, database, bounds
    <3> QED
      BY <1>1, <2>3, <2>4, <2>5, <3>1, <3>2 DEF FollowInv
  <2>7. CASE AppendEvent(c)
    <3>1. /\ q.pc = "append" /\ p.pc = "project" /\ p.building = q.building
          /\ p.memory = q.memory /\ p.sequence = Len(log) + 1
      BY <2>2, <2>7 DEF AppendEvent
    <3>2. log' = Append(log, NoEvent) /\ UNCHANGED <<case, checkpoint, errors>>
      BY <2>7 DEF AppendEvent, bounds
    <3>3. /\ Len(log') = Len(log) + 1 /\ DOMAIN log' = DOMAIN log \cup {Len(log) + 1}
          /\ log'[Len(log) + 1] = NoEvent /\ \A s \in DOMAIN log : log'[s] = log[s]
          /\ DOMAIN log = 1..Len(log)
      BY <1>0, <3>2
    <3>4. Accepted' = Accepted
      <4>1. EventsOf(Append(log, NoEvent)) = EventsOf(log)
        BY <1>0, EventsSteps
      <4>2. Accepted' = EventsOf(log')
        BY DEF Accepted, EventsOf
      <4> QED
        BY <3>2, <4>1, <4>2 DEF Accepted
    <3>5. Points' /\ NoCaseYet'
      <4>1. Logged' = Logged
        BY <3>3 DEF Logged
      <4> QED
        BY <1>0, <3>2, <3>3, <4>1 DEF FollowInv, Points, NoCaseYet
    <3> QED
      BY <2>3, <2>4, <3>1, <3>2, <3>3, <3>4, <3>5 DEF FollowInv
  <2>8. CASE Project(c)
    <3>1. /\ q.pc = "project" /\ p.pc = "commit" /\ p.building = q.building
          /\ p.sequence = q.sequence /\ p.position = q.position
          /\ p.memory = Append(q.memory, Current(c))
      BY <2>2, <2>8 DEF Project
    <3>2. UNCHANGED <<log, case, checkpoint, errors, topic>>
      BY <2>8 DEF Project, database, bounds
    <3>3. Current(c)' = Current(c)
      BY <2>2, <3>1, <3>2 DEF Current
    <3> QED
      BY <1>1, <2>3, <2>4, <2>5, <3>1, <3>2, <3>3 DEF FollowInv
  <2>9. ASSUME q.pc = "commit", Visible(c)
        PROVE  /\ Points' /\ NoCaseYet' /\ Len(log') = Len(log)
               /\ errors = 0 => q.memory = Accepted' /\ Shown(Accepted', case')
    <3>1. /\ Current(c) \in Event
          /\ Accepted' = Append(Accepted, Current(c))
          /\ Len(log') = Len(log) /\ Len(log) \in Nat \ {0}
          /\ \A s \in DOMAIN log : log'[s] = IF s = Len(log) THEN Current(c) ELSE log[s]
          /\ DOMAIN log' = DOMAIN log /\ Logged' = Logged \cup {Current(c)}
          /\ checkpoint' = Len(log)
          /\ case' = IF Current(c) \in Incident THEN q.memory ELSE case
      BY <2>9, CommitAdds
    <3>2. Points'
      <4>1. DOMAIN log = 1..Len(log)
        BY <1>0
      <4> QED
        BY <1>0, <3>1, <4>1 DEF Points
    <3>3. NoCaseYet'
      BY <3>1 DEF FollowInv, NoCaseYet
    <3>4. ASSUME errors = 0 PROVE q.memory = Accepted' /\ Shown(Accepted', case')
      <4>1. q.memory = Append(Accepted, Current(c)) /\ Shown(Accepted, case)
        BY <2>3, <2>9, <3>4
      <4> HIDE DEF q
      <4>2. Shown(Append(Accepted, Current(c)),
                  IF Current(c) \in Incident THEN Append(Accepted, Current(c)) ELSE case)
        BY <1>0, <3>1, <4>1, ShownAppend
      <4> QED
        BY <3>1, <4>1, <4>2
    <3> QED
      BY <3>1, <3>2, <3>3, <3>4
  <2>10. CASE Commit(c)
    <3>1. /\ q.pc = "commit" /\ Visible(c) /\ p.pc = "offset" /\ p.building = q.building
          /\ p.memory = q.memory /\ errors' = errors
      BY <2>2, <2>10 DEF Commit, Moves, bounds
    <3> QED
      BY <2>3, <2>4, <2>9, <3>1 DEF FollowInv
  <2>11. CASE Rollback(c) \/ CommitUnacknowledged(c)
    <3>1. /\ p.pc \in {"reserve", "dead"} /\ p.building = q.building /\ errors' # 0
      <4>1. AttemptFailed(c)
        BY <2>11 DEF Rollback, CommitUnacknowledged
      <4>2. errors' # 0
        BY <1>0, <4>1 DEF AttemptFailed
      <4> DEFINE next == IF q.attempts + 1 < MaxAttempts THEN "reserve" ELSE "dead"
      <4>3. next \in {"reserve", "dead"}
        OBVIOUS
      <4>4. p = [q EXCEPT !.attempts = @ + 1, !.pc = next]
        BY <2>2, <4>1 DEF AttemptFailed
      <4> HIDE DEF next
      <4>5. p.pc = next /\ p.building = q.building
        BY <2>2, <4>4
      <4> QED
        BY <4>2, <4>3, <4>5
    <3>2. Points' /\ NoCaseYet'
      <4>1. CASE UNCHANGED <<log, case, checkpoint>>
        BY <2>5, <4>1
      <4>2. CASE q.pc = "commit" /\ Visible(c)
        BY <2>9, <4>2
      <4> QED
        BY <2>11, <4>1, <4>2 DEF Rollback, CommitUnacknowledged, database
    <3> QED
      BY <2>3, <2>4, <3>1, <3>2 DEF FollowInv
  <2>12. CASE Crash(c)
    <3>1. /\ p.pc = "down" /\ p.memory = <<>> /\ p.building = q.building
          /\ UNCHANGED <<log, case, checkpoint>>
      BY <2>2, <2>12 DEF Crash, database
    <3> QED
      BY <2>3, <2>4, <2>5, <3>1 DEF FollowInv
  <2>13. CASE Start(c)
    <3>1. /\ q.pc = "down" /\ UNCHANGED <<log, case, checkpoint>>
          /\ p = [q EXCEPT !.pc = IF c \in Integrated THEN "poll" ELSE "replay",
                           !.building = c \in Integrated,
                           !.position = committed[c],
                           !.todo = IF c \in Replaying \ Integrated THEN log ELSE <<>>]
      BY <2>2, <2>13 DEF Start, database
    <3>2. p = [q EXCEPT !.pc = "replay", !.building = FALSE, !.position = committed[c], !.todo = log]
      BY <2>0, <3>1
    <3>3. p.pc = "replay" /\ ~p.building /\ p.todo = log /\ p.memory = <<>>
      BY <2>2, <2>3, <3>1, <3>2
    <3>4. HasRead(<<>>, log, log, case)
      <4>1. SubSeq(log, 0 + 1, Len(log)) = log /\ 0 \in 0..Len(log)
        BY <1>0, SubSeqFull
      <4>2. Upto(log)[0] = <<>>
        BY <1>0, <4>1, UptoDef DEF AfterRow
      <4>3. Shown(<<>>, case)
        BY DEF Shown
      <4> QED
        BY <4>1, <4>2, <4>3 DEF HasRead
    <3> QED
      BY <2>4, <2>5, <3>1, <3>3, <3>4 DEF FollowInv
  <2>14. CASE Resubscribe(c) \/ Unsubscribe(c)
    BY <2>3, <2>14 DEF Resubscribe, Unsubscribe, Idle
  <2>15. CASE ReplayNext(c)
    <3>1. /\ q.pc = "replay" /\ p.pc = "replay" /\ p.building = q.building
          /\ UNCHANGED <<log, checkpoint>>
      BY <2>2, <2>15 DEF ReplayNext
    <3>2. HasRead(p.memory, p.todo, log', case')
      BY <2>2, <2>3, <2>15, <3>1, ReadsOn DEF IInv
    <3>3. Points' /\ NoCaseYet'
      <4> DEFINE e == Head(q.todo)
      <4>1. q.todo # <<>> /\ q.todo \in Seq(Event \cup {NoEvent})
            /\ \A i \in DOMAIN q.todo : q.todo[i] \in Logged \cup {NoEvent}
        BY <2>2, <2>15 DEF ReplayNext, IInv, Records
      <4>2. e \in Logged \cup {NoEvent}
        BY <4>1
      <4>3. e \in Incident \/ case' = case
        BY <2>15 DEF ReplayNext
      <4>4. NoEvent \notin Incident
        BY <1>0, PipelineAssumption
      <4>5. Logged' = Logged
        BY <3>1 DEF Logged
      <4> HIDE DEF e
      <4> QED
        BY <3>1, <4>2, <4>3, <4>4, <4>5 DEF FollowInv, Points, NoCaseYet
    <3> QED
      BY <2>3, <2>4, <3>1, <3>2, <3>3 DEF FollowInv
  <2>16. CASE Replayed(c)
    <3>1. /\ q.pc = "replay" /\ q.todo = <<>> /\ p.pc = "poll" /\ p.building = q.building
          /\ p.memory = q.memory /\ UNCHANGED <<log, case, checkpoint, errors>>
      BY <2>2, <2>16 DEF Replayed, Moves, database, bounds
    <3>2. q.memory = Accepted /\ Shown(Accepted, case)
      <4>1. PICK k \in 0..Len(log) :
                /\ q.todo = SubSeq(log, k + 1, Len(log))
                /\ q.memory = Upto(log)[k]
                /\ Shown(q.memory, case)
        BY <2>3, <3>1 DEF HasRead
      <4>2. k = Len(log)
        <5>1. \A i \in k + 1 .. Len(log) : log[i] \in Row
          BY <1>0
        <5>2. Len(SubSeq(log, k + 1, Len(log))) = IF k + 1 <= Len(log) THEN Len(log) - (k + 1) + 1 ELSE 0
          BY <1>0, <5>1, SubSeqProperties
        <5>3. Len(SubSeq(log, k + 1, Len(log))) = 0
          BY <3>1, <4>1
        <5> QED
          BY <1>0, <5>2, <5>3
      <4>3. Upto(log)[Len(log)] = Accepted
        BY EventsAre DEF Accepted
      <4> QED
        BY <4>1, <4>2, <4>3
    <3> QED
      BY <1>1, <2>3, <2>4, <2>5, <3>1, <3>2 DEF FollowInv
  <2> QED
    BY <1>4, <2>6, <2>7, <2>8, <2>10, <2>11, <2>12, <2>13, <2>14, <2>15, <2>16 DEF Step, Fault
<1> QED
  BY <1>2, <1>3, <1>4 DEF Next

\* A stream worker on its own, as the preview deploys it: whatever events come,
\* repeated or broken off by crashes, the detector's memory, the case and the
\* checkpoint are those of the log (stream_worker/main.py:30-40,
\* detection/service.py:134-156, ingestion/service.py:92).
THEOREM ReadSideCorrect ==
    ASSUME OneStreamWorker
    PROVE  Spec => []ReadSideFollowsLog
<1>1. IInv /\ FollowInv => ReadSideFollowsLog
  <2> SUFFICES ASSUME IInv, FollowInv PROVE ReadSideFollowsLog
    OBVIOUS
  <2>1. DetectorFollowsLog
    BY DEF FollowInv, Follows, DetectorFollowsLog
  <2>2. CaseFollowsLog
    <3> SUFFICES ASSUME errors = 0, \A c \in Consumer : consumer[c].pc \notin {"down", "replay"}
                 PROVE  \/ \A i \in DOMAIN Accepted : Accepted[i] \notin Incident /\ case = NoCase
                        \/ \E i \in DOMAIN Accepted :
                              /\ Accepted[i] \in Incident
                              /\ case = SubSeq(Accepted, 1, i)
                              /\ \A j \in i+1 .. Len(Accepted) : Accepted[j] \notin Incident
      BY DEF CaseFollowsLog
    <3>1. PICK w \in Consumer : TRUE
      BY DEF OneStreamWorker
    <3>2. Shown(Accepted, case)
      BY <3>1 DEF FollowInv, Follows
    <3> QED
      BY <3>2, ShownNone DEF FollowInv, IInv
  <2>3. CheckpointIsLastRow
    <3>1. ASSUME checkpoint = 0 PROVE Accepted = <<>>
      <4>1. Logged = {}
        BY <3>1, EventsType DEF FollowInv, Points, Logged, IInv
      <4>2. \A i \in DOMAIN Accepted : Accepted[i] \in Event
        BY EventsType DEF IInv
      <4>3. DOMAIN Accepted = {}
        BY <4>1, <4>2, EventsType DEF IInv
      <4>4. Accepted \in Seq(Event)
        BY EventsType DEF IInv
      <4> QED
        BY <4>3, <4>4
    <3> QED
      BY <3>1 DEF FollowInv, Points, CheckpointIsLastRow
  <2> QED
    BY <2>1, <2>2, <2>3 DEF ReadSideFollowsLog
<1>2. Init => FollowInv
  BY FollowStart
<1>3. IInv /\ FollowInv /\ [Next]_vars => FollowInv'
  BY FollowStep
<1> QED
  BY <1>1, <1>2, <1>3, Invariant, PTL DEF Spec
=============================================================================
