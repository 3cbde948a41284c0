-------------------------- MODULE RcaProjectionProofs --------------------------
(***************************************************************************)
(* Theorems about the projection of the cause graph. Its worker, for every *)
(* value of the constants: its types, that the stored checkpoint never     *)
(* goes back, and that it covers the window of the latest lots. Its two    *)
(* stores, for any lots: that they answer alike.                           *)
(***************************************************************************)
EXTENDS RcaProjection, GraphStores,
        FiniteSetTheorems, SequenceTheorems, WellFoundedInduction, TLAPS

\* The rows up to a checkpoint whose lots are in the window are in the graph.
Covers(checkpoint) ==
    \A s \in Rows :
        s <= checkpoint /\ s \notin unread /\ log[s] \in RecentLots => s \in graph

\* Until a rebuild publishes its checkpoint nothing is claimed of the graph.
RebuildStored ==
    /\ worker.pc \in Rebuilding => stored = 0
    /\ worker.pc = "clear" => worker.checkpoint = 0

CatchingUp == {"idle", "fetch", "project", "recent", "prune"}

\* The worker is never behind what it has stored.
Ahead == worker.pc \in CatchingUp => worker.checkpoint >= stored

\* What the worker is about to store covers the window as well.
WorkerCovers ==
    worker.pc \in CatchingUp \cup {"publish"} => Covers(worker.checkpoint)

\* A fetched batch has no gap after the worker's checkpoint.
BatchIsNext ==
    worker.pc = "project" =>
        \A s \in worker.batch :
            /\ s > worker.checkpoint
            /\ \A t \in Rows : worker.checkpoint < t /\ t < s => t \in worker.batch

\* What a rebuild has read, and has still to project, is all but the unread rows.
RowsAreRead ==
    worker.pc = "rows" =>
        \A s \in Rows : s \notin unread /\ log[s] \in RecentLots => log[s] \in worker.lots

RebuildHolds ==
    worker.pc = "rebuild" =>
        \A s \in Rows :
            s \notin unread /\ log[s] \in RecentLots => s \in graph \cup worker.batch

\* A list of lots a prune keeps may be old, but misses no lot of the graph that is
\* in the window: lots only enter the window with their first row.
PruneKeeps ==
    worker.pc = "prune" =>
        \A s \in graph : log[s] \in RecentLots => log[s] \in worker.lots

IInv ==
    /\ TypeOK
    /\ RebuildStored
    /\ Ahead
    /\ Covers(stored)
    /\ WorkerCovers
    /\ BatchIsNext
    /\ RowsAreRead
    /\ RebuildHolds
    /\ PruneKeeps
-----------------------------------------------------------------------------
(* The log. *)

LEMMA RowsAreNumbers ==
    ASSUME TypeOK
    PROVE  /\ Len(log) \in Nat
           /\ Rows = 1..Len(log)
           /\ \A s \in Rows : log[s] \in Lot
BY DEF TypeOK, Rows

\* The lots later than a lot are finitely many: their rows are.
LEMMA LaterIsFinite ==
    ASSUME TypeOK, NEW lot
    PROVE  IsFiniteSet(Later(lot))
<1>1. IsFiniteSet(Rows)
  BY RowsAreNumbers, FS_Interval
<1>2. log \in [Rows -> Logged]
  BY DEF TypeOK, Rows, Logged
<1>3. log \in Surjection(Rows, Logged)
  BY <1>2 DEF Surjection, Logged
<1>4. IsFiniteSet(Logged)
  BY <1>1, <1>3, FS_Surjection
<1> QED
  BY <1>4, FS_Subset DEF Later

LEMMA Appended ==
    ASSUME TypeOK, NEW lot \in Lot, AppendRow(lot)
    PROVE  /\ Len(log') = Len(log) + 1
           /\ log' \in Seq(Lot)
           /\ Rows' = Rows \cup {Len(log) + 1}
           /\ \A s \in Rows : s <= Len(log) /\ log'[s] = log[s]
           /\ log'[Len(log) + 1] = lot
           /\ Logged' = Logged \cup {lot}
<1>1. log \in Seq(Lot) /\ log' = Append(log, lot)
  BY DEF TypeOK, AppendRow
<1>2. Len(log') = Len(log) + 1 /\ log' \in Seq(Lot) /\ Len(log) \in Nat
  BY <1>1
<1>3. Rows' = Rows \cup {Len(log) + 1}
  BY <1>1, <1>2 DEF Rows
<1>4. /\ \A s \in Rows : s <= Len(log) /\ log'[s] = log[s]
      /\ log'[Len(log) + 1] = lot
  BY <1>1, <1>2 DEF Rows
<1>5. Logged' = Logged \cup {lot}
  BY <1>2, <1>3, <1>4 DEF Logged, Rows
<1> QED
  BY <1>2, <1>3, <1>4, <1>5

\* A row never brings a lot it is not of back into the window, and a row of a lot
\* that has left the window does not come.
LEMMA WindowMovesOn ==
    ASSUME TypeOK, ProjectionAssumption, NEW lot \in Lot, AppendRow(lot),
           NEW l \in Logged, l \in RecentLots'
    PROVE  l \in RecentLots
<1>1. CASE l = lot
  BY <1>1 DEF AppendRow
<1>2. CASE l /= lot
  <2>1. Later(l) \subseteq Later(l)'
    <3> SUFFICES ASSUME NEW other \in Later(l)
                 PROVE  other \in Later(l)'
      OBVIOUS
    <3>1. PICK s \in Rows : log[s] = other /\ \A t \in Rows : log[t] = l => t < s
      BY DEF Later
    <3>2. s \in Rows' /\ log'[s] = other /\ other \in Logged'
      BY <3>1, Appended DEF Later
    <3>3. \A t \in Rows' : log'[t] = l => t < s
      BY <1>2, <3>1, Appended
    <3> QED
      BY <3>2, <3>3 DEF Later
  <2>2. IsFiniteSet(Later(l)')
    <3>1. IsFiniteSet(Rows')
      <4>1. Len(log') \in Nat /\ Rows' = 1..Len(log')
        BY Appended, RowsAreNumbers DEF Rows
      <4> QED
        BY <4>1, FS_Interval
    <3>2. log' \in Surjection(Rows', Logged')
      <4>1. log' \in [Rows' -> Logged']
        BY Appended DEF Rows, Logged
      <4> QED
        BY <4>1 DEF Surjection, Logged
    <3>3. IsFiniteSet(Logged')
      BY <3>1, <3>2, FS_Surjection
    <3> QED
      BY <3>3, FS_Subset DEF Later
  <2>3. Cardinality(Later(l)) <= Cardinality(Later(l)')
    BY <2>1, <2>2, FS_Subset
  <2>4. Cardinality(Later(l)) \in Nat /\ Cardinality(Later(l)') \in Nat
    BY <2>2, LaterIsFinite, FS_CardinalityType
  <2>5. Cardinality(Later(l)') < Window
    BY DEF RecentLots
  <2> QED
    BY <2>3, <2>4, <2>5 DEF RecentLots, ProjectionAssumption
<1> QED
  BY <1>1, <1>2
-----------------------------------------------------------------------------
(* Types. *)

LEMMA SameLog ==
    ASSUME UNCHANGED log
    PROVE  Rows' = Rows /\ Logged' = Logged /\ RecentLots' = RecentLots
BY DEF Rows, Logged, RecentLots, Later

LEMMA TypeInductive ==
    ASSUME TypeOK, ProjectionAssumption, [Next]_vars
    PROVE  TypeOK'
<1> USE DEF TypeOK, ProjectionAssumption, Rows
<1>1. ASSUME NEW lot \in Lot, AppendRow(lot)
      PROVE  TypeOK'
  <2>1. log' \in Seq(Lot) /\ Len(log') = Len(log) + 1 /\ Rows \subseteq Rows' /\ Len(log) + 1 \in Rows'
    BY <1>1, Appended
  <2>2. Len(log) \in Nat
    OBVIOUS
  <2>3. graph' \subseteq Rows' /\ stored' \in 0..Len(log') /\ crashes' \in 0..MaxCrashes
    BY <1>1, <2>1, <2>2 DEF AppendRow
  <2>4. unread' \subseteq Rows'
    BY <1>1, <2>1 DEF AppendRow
  <2>5. worker' \in [pc : PC, checkpoint : 0..Len(log'), batch : SUBSET Rows',
                     full : BOOLEAN, projected : BOOLEAN, lots : SUBSET Lot]
    BY <1>1, <2>1, <2>2 DEF AppendRow
  <2> QED
    BY <2>1, <2>3, <2>4, <2>5
<1>2. CASE Start
  BY <1>2 DEF Start, PC, Rebuilding
<1>3. CASE Clear
  BY <1>3 DEF Clear, PC, Rebuilding
<1>4. CASE ReadLots
  <2>1. RecentLots \subseteq Lot
    BY RowsAreNumbers DEF RecentLots, Logged
  <2> QED
    BY <1>4, <2>1 DEF ReadLots, PC, Rebuilding
<1>5. CASE ReadRows
  BY <1>5 DEF ReadRows, EventsForLots, PC, Rebuilding
<1>6. CASE ReadLatest
  <2>1. Reached(worker.checkpoint, Len(log)) \in 0..Len(log)
    BY RowsAreNumbers DEF Reached
  <2> QED
    BY <1>6, <2>1 DEF ReadLatest, PC, Rebuilding
<1>7. CASE PublishRebuild
  BY <1>7 DEF PublishRebuild, PC, Rebuilding
<1>8. CASE ProjectNext
  <2>1. PICK s \in worker.batch :
            /\ graph' = graph \cup {s}
            /\ worker' = [worker EXCEPT !.batch = @ \ {s}, !.checkpoint = Reached(@, s),
                                        !.projected = TRUE]
    BY <1>8 DEF ProjectNext
  <2>2. s \in Rows /\ Reached(worker.checkpoint, s) \in 0..Len(log)
    BY <2>1, RowsAreNumbers DEF Reached
  <2> QED
    BY <1>8, <2>1, <2>2 DEF ProjectNext
<1>9. CASE Fetch
  BY <1>9 DEF Fetch, EventsAfter, PC, Rebuilding
<1>10. CASE FetchNothing
  BY <1>10 DEF FetchNothing, PC, Rebuilding
<1>11. CASE Persist
  BY <1>11 DEF Persist, PC, Rebuilding
<1>12. CASE Prune
  BY <1>12 DEF Prune, PC, Rebuilding
<1>13. CASE Crash
  BY <1>13 DEF Crash, Down, PC, Rebuilding
<1>14. CASE UNCHANGED vars
  BY <1>14 DEF vars
<1> QED
  BY <1>1, <1>2, <1>3, <1>4, <1>5, <1>6, <1>7, <1>8, <1>9, <1>10, <1>11, <1>12, <1>13, <1>14
  DEF Next, WorkerStep

\* The types of the state and, with them, that no row and no checkpoint lies beyond
\* the log, for any lots, window, batch size, and any number of rows and crashes.
THEOREM TypeCorrect == Spec => []TypeOK
<1>1. Init => TypeOK
  BY ProjectionAssumption DEF Init, TypeOK, Down, Rows, PC, ProjectionAssumption
<1>2. TypeOK /\ [Next]_vars => TypeOK'
  BY TypeInductive, ProjectionAssumption
<1> QED
  BY <1>1, <1>2, PTL DEF Spec
-----------------------------------------------------------------------------
(* The invariant. *)

LEMMA AppendKeeps ==
    ASSUME IInv, ProjectionAssumption, NEW lot \in Lot, AppendRow(lot), TypeOK'
    PROVE  IInv'
<1> DEFINE new == Len(log) + 1
<1>1. /\ Rows = 1..Len(log) /\ Len(log) \in Nat
      /\ stored \in 0..Len(log) /\ worker.checkpoint \in 0..Len(log)
      /\ graph \subseteq Rows /\ worker.batch \subseteq Rows
  BY RowsAreNumbers DEF IInv, TypeOK
<1>2. /\ Rows' = Rows \cup {new}
      /\ \A s \in Rows : log'[s] = log[s]
  BY Appended DEF IInv
<1>3. graph' = graph /\ stored' = stored /\ worker' = worker
  BY DEF AppendRow
<1>4. /\ \A s \in Rows : s \notin unread' => s \notin unread
      /\ worker.pc \in {"rows", "rebuild"} => new \in unread'
  BY DEF AppendRow
<1>5. \A s \in Rows : log'[s] \in RecentLots' => log[s] \in RecentLots
  <2> SUFFICES ASSUME NEW s \in Rows, log'[s] \in RecentLots'
               PROVE  log[s] \in RecentLots
    OBVIOUS
  <2>1. log[s] \in Logged /\ log[s] \in RecentLots'
    BY <1>2 DEF Logged
  <2> QED
    BY <2>1, WindowMovesOn DEF IInv
<1>6. \A c \in 0..Len(log) : Covers(c) => Covers(c)'
  BY <1>1, <1>2, <1>3, <1>4, <1>5 DEF Covers
<1>7. RebuildStored' /\ Ahead'
  BY <1>3 DEF IInv, RebuildStored, Ahead
<1>8. Covers(stored)' /\ WorkerCovers'
  <2>1. Covers(stored)'
    BY <1>1, <1>3, <1>6 DEF IInv, Covers
  <2>2. WorkerCovers'
    BY <1>1, <1>3, <1>6 DEF IInv, WorkerCovers, Covers
  <2> QED
    BY <2>1, <2>2
<1>9. BatchIsNext'
  BY <1>1, <1>2, <1>3 DEF IInv, BatchIsNext
<1>10. RowsAreRead' /\ RebuildHolds'
  BY <1>2, <1>3, <1>4, <1>5 DEF IInv, RowsAreRead, RebuildHolds
<1>11. PruneKeeps'
  BY <1>1, <1>2, <1>3, <1>5 DEF IInv, PruneKeeps
<1> QED
  BY <1>7, <1>8, <1>9, <1>10, <1>11 DEF IInv

LEMMA WorkerKeeps ==
    ASSUME IInv, ProjectionAssumption, WorkerStep \/ Crash \/ UNCHANGED vars, TypeOK'
    PROVE  IInv'
<1>1. /\ Rows = 1..Len(log) /\ Len(log) \in Nat
      /\ stored \in 0..Len(log) /\ worker.checkpoint \in 0..Len(log)
      /\ graph \subseteq Rows /\ worker.batch \subseteq Rows
      /\ worker \in [pc : PC, checkpoint : 0..Len(log), batch : SUBSET Rows,
                     full : BOOLEAN, projected : BOOLEAN, lots : SUBSET Lot]
  BY RowsAreNumbers DEF IInv, TypeOK
<1>2. UNCHANGED log
  BY DEF WorkerStep, Start, Clear, ReadLots, ReadRows, ReadLatest, PublishRebuild,
     ProjectNext, Fetch, FetchNothing, Persist, Prune, Crash, vars
<1>3. log' = log /\ Rows' = Rows /\ RecentLots' = RecentLots
  BY <1>2, SameLog
<1>4. \A c \in 0..Len(log) :
        graph \subseteq graph' /\ unread' = unread /\ Covers(c) => Covers(c)'
  BY <1>3 DEF Covers
<1> USE DEF RebuildStored, Ahead, WorkerCovers, BatchIsNext, RowsAreRead, RebuildHolds,
        PruneKeeps, CatchingUp, Rebuilding
<1>5. CASE Start
  <2>1. /\ worker'.pc \in {"clear", "fetch"} /\ worker'.checkpoint = stored
        /\ worker'.pc = "clear" <=> stored = 0
    BY <1>1, <1>5 DEF Start
  <2>2. Covers(stored)' /\ WorkerCovers'
    BY <1>1, <1>3, <1>4, <1>5, <2>1 DEF IInv, Start, Covers
  <2> QED
    BY <1>1, <1>5, <2>1, <2>2 DEF IInv, Start
<1>6. CASE Clear
  <2>1. worker'.pc = "lots" /\ stored' = 0
    BY <1>1, <1>6 DEF Clear
  <2>2. Covers(stored)'
    BY <1>1, <1>3, <2>1 DEF Covers
  <2> QED
    BY <2>1, <2>2 DEF IInv
<1>7. CASE ReadLots
  <2>1. /\ worker.pc = "lots" => worker'.pc = "rows"
        /\ worker.pc = "recent" => worker'.pc = "prune"
        /\ worker.pc \in {"lots", "recent"}
        /\ worker'.lots = RecentLots /\ worker'.checkpoint = worker.checkpoint
    BY <1>1, <1>7 DEF ReadLots
  <2>2. Covers(stored)' /\ WorkerCovers'
    BY <1>1, <1>3, <1>4, <1>7, <2>1 DEF IInv, ReadLots, Covers
  <2> QED
    BY <1>1, <1>3, <1>7, <2>1, <2>2 DEF IInv, ReadLots
<1>8. CASE ReadRows
  <2>1. /\ worker.pc = "rows" /\ worker'.pc = "rebuild"
        /\ worker'.batch = EventsForLots(worker.lots)
    BY <1>1, <1>8 DEF ReadRows
  <2>2. Covers(stored)'
    BY <1>1, <1>3, <1>4, <1>8 DEF IInv, ReadRows, Covers
  <2>3. RebuildHolds'
    BY <1>3, <1>8, <2>1 DEF IInv, ReadRows, EventsForLots
  <2> QED
    BY <1>8, <2>1, <2>2, <2>3 DEF IInv, ReadRows
<1>9. CASE ReadLatest
  <2>1. /\ worker.pc = "rebuild" /\ worker.batch = {} /\ worker'.pc = "publish"
        /\ graph' = graph /\ stored' = stored /\ unread' = unread
    BY <1>1, <1>9 DEF ReadLatest
  <2>2. \A s \in Rows : s \notin unread /\ log[s] \in RecentLots => s \in graph
    BY <2>1 DEF IInv
  <2>3. Covers(stored)' /\ WorkerCovers'
    BY <1>3, <2>1, <2>2 DEF Covers
  <2> QED
    BY <2>1, <2>3 DEF IInv
<1>10. CASE PublishRebuild
  <2>1. /\ worker.pc = "publish" /\ worker'.pc = "fetch"
        /\ worker'.checkpoint = worker.checkpoint /\ stored' = worker.checkpoint
        /\ graph' = graph /\ unread' = unread
    BY <1>1, <1>10 DEF PublishRebuild
  <2>2. Covers(stored)' /\ WorkerCovers'
    BY <1>1, <1>3, <1>4, <2>1 DEF IInv, Covers
  <2> QED
    BY <1>1, <2>1, <2>2 DEF IInv
<1>11. CASE ProjectNext
  <2>1. PICK s \in worker.batch :
            /\ worker.pc \in {"rebuild", "project"}
            /\ \A t \in worker.batch : s <= t
            /\ graph' = graph \cup {s}
            /\ worker' = [worker EXCEPT !.batch = @ \ {s}, !.checkpoint = Reached(@, s),
                                        !.projected = TRUE]
            /\ stored' = stored /\ unread' = unread
    BY <1>11 DEF ProjectNext
  <2>2. /\ worker'.pc = worker.pc /\ worker'.batch = worker.batch \ {s}
        /\ worker'.checkpoint = Reached(worker.checkpoint, s)
        /\ s \in Rows /\ s \in Nat
    BY <1>1, <2>1
  <2>3. Covers(stored)'
    BY <1>1, <1>4, <2>1 DEF IInv, Covers
  <2>4. CASE worker.pc = "rebuild"
    <3>1. RebuildHolds'
      BY <1>3, <2>1, <2>2 DEF IInv
    <3> QED
      BY <2>1, <2>2, <2>3, <2>4, <3>1 DEF IInv
  <2>5. CASE worker.pc = "project"
    <3>1. worker.checkpoint < s /\ worker'.checkpoint = s
      BY <1>1, <2>2, <2>5 DEF IInv, Reached
    <3>2. Ahead'
      BY <1>1, <2>1, <2>2, <2>5, <3>1 DEF IInv
    <3>3. \A t \in Rows : t <= s => t <= worker.checkpoint \/ t = s
      BY <1>1, <2>1, <2>2, <2>5, <3>1 DEF IInv
    <3>4. WorkerCovers'
      BY <1>1, <1>3, <2>1, <2>2, <2>5, <3>1, <3>3 DEF IInv, Covers
    <3>5. BatchIsNext'
      BY <1>1, <1>3, <2>1, <2>2, <2>5, <3>1 DEF IInv
    <3> QED
      BY <2>1, <2>2, <2>3, <2>5, <3>2, <3>4, <3>5 DEF IInv
  <2> QED
    BY <2>1, <2>4, <2>5
<1>12. CASE Fetch
  <2>1. /\ worker.pc \in {"idle", "fetch"} /\ worker'.pc = "project"
        /\ worker'.batch = EventsAfter(worker.checkpoint)
        /\ worker'.checkpoint = worker.checkpoint
        /\ graph' = graph /\ stored' = stored /\ unread' = unread
    BY <1>1, <1>12 DEF Fetch
  <2>2. Covers(stored)' /\ WorkerCovers'
    BY <1>1, <1>3, <1>4, <2>1 DEF IInv, Covers
  <2>3. BatchIsNext'
    BY <1>1, <1>3, <2>1 DEF EventsAfter, ProjectionAssumption
  <2> QED
    BY <2>1, <2>2, <2>3 DEF IInv
<1>13. CASE FetchNothing
  <2>1. /\ worker.pc = "fetch" /\ worker'.pc \in {"recent", "idle"}
        /\ worker'.checkpoint = worker.checkpoint
        /\ graph' = graph /\ stored' = stored /\ unread' = unread
    BY <1>1, <1>13 DEF FetchNothing
  <2>2. Covers(stored)' /\ WorkerCovers'
    BY <1>1, <1>3, <1>4, <2>1 DEF IInv, Covers
  <2> QED
    BY <2>1, <2>2 DEF IInv
<1>14. CASE Persist
  <2>1. /\ worker.pc = "project" /\ worker'.pc \in {"fetch", "recent"}
        /\ worker'.checkpoint = worker.checkpoint /\ stored' = worker.checkpoint
        /\ graph' = graph /\ unread' = unread
    BY <1>1, <1>14 DEF Persist
  <2>2. Covers(stored)' /\ WorkerCovers'
    BY <1>1, <1>3, <1>4, <2>1 DEF IInv, Covers
  <2> QED
    BY <1>1, <2>1, <2>2 DEF IInv
<1>15. CASE Prune
  <2>1. /\ worker.pc = "prune" /\ worker'.pc = "idle"
        /\ worker'.checkpoint = stored /\ stored' = stored
        /\ graph' = {s \in graph : log[s] \in worker.lots} /\ unread' = unread
    BY <1>1, <1>15 DEF Prune
  <2>2. Covers(stored)'
    BY <1>3, <2>1 DEF IInv, Covers
  <2>3. WorkerCovers'
    BY <2>1, <2>2 DEF Covers
  <2> QED
    BY <1>1, <2>1, <2>2, <2>3 DEF IInv
<1>16. CASE Crash
  <2>1. worker'.pc = "down" /\ graph' = graph /\ stored' = stored /\ unread' = unread
    BY <1>16 DEF Crash, Down
  <2>2. Covers(stored)'
    BY <1>1, <1>4, <2>1 DEF IInv, Covers
  <2> QED
    BY <2>1, <2>2 DEF IInv
<1>17. CASE UNCHANGED vars
  <2>1. graph' = graph /\ stored' = stored /\ worker' = worker /\ unread' = unread
    BY <1>17 DEF vars
  <2>2. Covers(stored)' /\ WorkerCovers'
    BY <1>1, <1>4, <2>1 DEF IInv, Covers
  <2> QED
    BY <1>3, <2>1, <2>2 DEF IInv
<1> QED
  BY <1>5, <1>6, <1>7, <1>8, <1>9, <1>10, <1>11, <1>12, <1>13, <1>14, <1>15, <1>16, <1>17
  DEF WorkerStep

THEOREM InvariantCorrect == Spec => []IInv
<1>1. Init => IInv
  <2> SUFFICES ASSUME Init
               PROVE  IInv
    OBVIOUS
  <2>1. worker.pc = "down" /\ Rows = {} /\ stored = 0
    BY DEF Init, Down, Rows
  <2>2. TypeOK
    BY <2>1, ProjectionAssumption DEF Init, TypeOK, Down, PC, ProjectionAssumption
  <2> QED
    BY <2>1, <2>2 DEF IInv, RebuildStored, Ahead, Covers, WorkerCovers, BatchIsNext,
       RowsAreRead, RebuildHolds, PruneKeeps, CatchingUp, Rebuilding
<1>2. IInv /\ [Next]_vars => IInv'
  <2> SUFFICES ASSUME IInv, [Next]_vars
               PROVE  IInv'
    OBVIOUS
  <2>1. TypeOK'
    BY TypeInductive, ProjectionAssumption DEF IInv
  <2> QED
    BY <2>1, AppendKeeps, WorkerKeeps, ProjectionAssumption DEF Next
<1> QED
  BY <1>1, <1>2, PTL DEF Spec

\* Every row the stored checkpoint covers, and whose lot is in the window, is in the
\* graph, whatever crashes and prunes come between: only the rows appended while a
\* rebuild was reading are left out.
THEOREM WindowCorrect == Spec => []WindowIsProjected
<1>1. IInv => WindowIsProjected
  BY DEF IInv, Covers, WindowIsProjected
<1> QED
  BY <1>1, InvariantCorrect, PTL

\* No step moves the stored checkpoint back, the clearing of a rebuild included.
THEOREM CheckpointCorrect == Spec => CheckpointAdvances
<1>1. IInv /\ [Next]_vars => stored' >= stored
  <2> SUFFICES ASSUME IInv, [Next]_vars
               PROVE  stored' >= stored
    OBVIOUS
  <2>1. stored \in Nat /\ worker.checkpoint \in Nat
    BY RowsAreNumbers DEF IInv, TypeOK
  <2>2. CASE Clear
    BY <2>1, <2>2 DEF Clear, IInv, RebuildStored, Rebuilding
  <2>3. CASE PublishRebuild
    BY <2>1, <2>3 DEF PublishRebuild, IInv, RebuildStored, Rebuilding
  <2>4. CASE Persist
    BY <2>1, <2>4 DEF Persist, IInv, Ahead, CatchingUp
  <2>5. ASSUME ~Clear, ~PublishRebuild, ~Persist
        PROVE  stored' = stored
    BY <2>5 DEF Next, WorkerStep, AppendRow, Start, ReadLots, ReadRows, ReadLatest,
       ProjectNext, Fetch, FetchNothing, Prune, Crash, vars
  <2> QED
    BY <2>1, <2>2, <2>3, <2>4, <2>5
<1>2. IInv /\ [Next]_vars => [stored' >= stored]_vars
  BY <1>1
<1> QED
  BY <1>2, InvariantCorrect, PTL DEF Spec, CheckpointAdvances

-----------------------------------------------------------------------------
(* The two stores of the graph. An event is projected by a fold, of which the *)
(* induction over the least number that is not in a set shows what it does.  *)

LEMMA Least ==
    ASSUME NEW T, T \subseteq Nat, T # {}
    PROVE  \E x \in T : \A y \in T : x <= y
<1> DEFINE R == OpToRel(<, Nat)
<1>1. PICK x \in T : \A y \in T : <<y, x>> \notin R
  <2>1. IsWellFoundedOn(R, Nat)
    BY NatLessThanWellFounded
  <2> HIDE DEF R
  <2> QED
    BY <2>1, WFMin
<1>2. \A y \in T : ~(y < x)
  BY <1>1 DEF OpToRel
<1> QED
  BY <1>2

LEMMA Upward ==
    ASSUME NEW T, 0 \in T, \A i \in Nat : i \in T => i + 1 \in T
    PROVE  Nat \subseteq T
<1> SUFFICES ASSUME Nat \ T # {} PROVE FALSE
  OBVIOUS
<1>1. PICK x \in Nat \ T : \A y \in Nat \ T : x <= y
  BY Least
<1>2. x - 1 \in Nat /\ x - 1 \in T
  BY <1>1
<1> QED
  BY <1>1, <1>2

LEMMA MaxIs ==
    ASSUME NEW S, S \subseteq Nat, S # {}, NEW n \in Nat, \A x \in S : x <= n
    PROVE  Max(S) \in S /\ \A y \in S : y <= Max(S)
<1> DEFINE below == {n - x : x \in S}
<1>0. \A x \in S : n - x \in Nat /\ n - x \in below
  OBVIOUS
<1>1. below \subseteq Nat /\ below # {}
  BY <1>0
<1>2. PICK d \in below : \A y \in below : d <= y
  BY <1>1, Least
<1>3. PICK x \in S : d = n - x
  BY <1>2
<1>4. \A y \in S : x >= y
  <2> SUFFICES ASSUME NEW y \in S PROVE x >= y
    OBVIOUS
  <2>1. n - x <= n - y /\ x \in Nat /\ y \in Nat
    BY <1>0, <1>2, <1>3
  <2> QED
    BY <2>1
<1> QED
  BY <1>3, <1>4 DEF Max

\* FoldLeft of Upsert, as MapThenFoldSet computes it.
Picked(m, ss, f, s) == IF s = {} THEN m ELSE Upsert(f[s \ {Max(s)}], ss[Max(s)])

Folded(m, ss) == CHOOSE f : f = [s \in SUBSET DOMAIN ss |-> Picked(m, ss, f, s)]

LEMMA FoldIs == \A m, ss : FoldLeft(Upsert, m, ss) = Folded(m, ss)[DOMAIN ss]
BY DEF FoldLeft, MapThenFoldSet, Folded, Picked

LEMMA LastIs ==
    ASSUME NEW n \in Nat, NEW s \in SUBSET (1..n + 1), s # {}
    PROVE  Max(s) \in s /\ s \ {Max(s)} \in SUBSET (1..n)
<1>1. s \subseteq Nat /\ n + 1 \in Nat /\ \A x \in s : x <= n + 1
  OBVIOUS
<1>2. Max(s) \in s /\ \A x \in s : x <= Max(s)
  BY <1>1, MaxIs
<1>3. \A x \in s \ {Max(s)} : x \in 1..n
  <2> SUFFICES ASSUME NEW x \in s, x # Max(s) PROVE x \in 1..n
    OBVIOUS
  <2> DEFINE z == Max(s)
  <2>1. z \in 1..n + 1 /\ x \in 1..n + 1 /\ x <= z /\ x # z
    BY <1>2
  <2> HIDE DEF z
  <2> QED
    BY <2>1
<1> QED
  BY <1>2, <1>3

LEMMA FoldedDef ==
    ASSUME NEW m, NEW ss, NEW n \in Nat, DOMAIN ss = 1..n
    PROVE  \A s \in SUBSET (1..n) : Folded(m, ss)[s] = Picked(m, ss, Folded(m, ss), s)
<1> DEFINE Solves(f, k) == f = [s \in SUBSET (1..k) |-> Picked(m, ss, f, s)]
           T == {k \in Nat : \E f : Solves(f, k)}
<1>1. 0 \in T
  <2> DEFINE f == [s \in SUBSET (1..0) |-> m]
  <2>1. \A s \in SUBSET (1..0) : s = {}
    OBVIOUS
  <2>2. Solves(f, 0)
    BY <2>1 DEF Picked
  <2> QED
    BY <2>2
<1>2. ASSUME NEW k \in Nat, k \in T PROVE k + 1 \in T
  <2>1. PICK f : Solves(f, k)
    BY <1>2
  <2> DEFINE S == SUBSET (1..k + 1)
             g == [s \in S |-> IF s \in SUBSET (1..k) THEN f[s] ELSE Picked(m, ss, f, s)]
             h == [s \in S |-> Picked(m, ss, g, s)]
  <2>2. ASSUME NEW s \in S PROVE Picked(m, ss, g, s) = Picked(m, ss, f, s)
    <3>1. CASE s = {}
      BY <3>1 DEF Picked
    <3>2. CASE s # {}
      <4> DEFINE r == s \ {Max(s)}
      <4>1. r \in SUBSET (1..k) /\ r \in S
        BY <3>2, LastIs
      <4>2. g[r] = f[r]
        BY <4>1
      <4> HIDE DEF g
      <4> QED
        BY <4>2 DEF Picked
    <3> QED
      BY <3>1, <3>2
  <2>3. ASSUME NEW s \in S PROVE g[s] = Picked(m, ss, f, s)
    <3>1. CASE s \in SUBSET (1..k)
      <4>1. f[s] = Picked(m, ss, f, s)
        BY <2>1, <3>1
      <4> QED
        BY <3>1, <4>1
    <3>2. CASE s \notin SUBSET (1..k)
      BY <3>2
    <3> QED
      BY <3>1, <3>2
  <2>4. \A s \in S : g[s] = h[s]
    <3>1. \A s \in S : h[s] = Picked(m, ss, g, s)
      OBVIOUS
    <3> HIDE DEF g, h
    <3> QED
      BY <2>2, <2>3, <3>1
  <2>5. g = h
    <3>1. g = [s \in S |-> g[s]] /\ h = [s \in S |-> h[s]]
      OBVIOUS
    <3> HIDE DEF g, h
    <3> QED
      BY <2>4, <3>1
  <2>6. Solves(g, k + 1) /\ k + 1 \in Nat
    <3> HIDE DEF g
    <3>1. Solves(g, k + 1)
      BY <2>5
    <3> QED
      BY <3>1
  <2> QED
    BY <2>6
<1>3. n \in T
  <2> HIDE DEF T
  <2> QED
    BY <1>1, <1>2, Upward
<1>4. Folded(m, ss) = [s \in SUBSET (1..n) |-> Picked(m, ss, Folded(m, ss), s)]
  BY <1>3 DEF Folded
<1> QED
  BY <1>4

\* The store after the first k statements of a sequence.
LEMMA FoldSteps ==
    ASSUME NEW m, NEW ss, NEW n \in Nat, DOMAIN ss = 1..n
    PROVE  /\ Folded(m, ss)[1..0] = m
           /\ \A k \in Nat : k + 1 <= n =>
                 Folded(m, ss)[1..k + 1] = Upsert(Folded(m, ss)[1..k], ss[k + 1])
<1>1. Folded(m, ss)[1..0] = m
  <2>1. 1..0 = {} /\ {} \in SUBSET (1..n)
    OBVIOUS
  <2> QED
    BY <2>1, FoldedDef DEF Picked
<1>2. ASSUME NEW k \in Nat, k + 1 <= n
      PROVE  Folded(m, ss)[1..k + 1] = Upsert(Folded(m, ss)[1..k], ss[k + 1])
  <2> DEFINE s == 1..k + 1
  <2>1. s \in SUBSET (1..n) /\ s # {} /\ s \subseteq Nat /\ k + 1 \in s /\ \A x \in s : x <= k + 1
    <3>1. k + 1 \in s
      OBVIOUS
    <3>2. \A x \in s : x \in 1..n /\ x \in Nat /\ x <= k + 1
      BY <1>2
    <3> HIDE DEF s
    <3> QED
      BY <3>1, <3>2
  <2>2. Max(s) \in s /\ \A x \in s : x <= Max(s)
    <3> HIDE DEF s
    <3> QED
      BY <2>1, MaxIs
  <2>3. Max(s) = k + 1
    <3> DEFINE z == Max(s)
    <3>1. z \in 1..k + 1 /\ k + 1 <= z
      BY <2>1, <2>2
    <3> HIDE DEF z
    <3>2. z = k + 1
      BY <3>1
    <3> QED
      BY <3>2 DEF z
  <2>4. s \ {k + 1} = 1..k
    OBVIOUS
  <2> DEFINE F == Folded(m, ss)
  <2>5. F[s] = Picked(m, ss, F, s)
    <3> HIDE DEF s
    <3> QED
      BY <2>1, FoldedDef
  <2>6. Picked(m, ss, F, s) = Upsert(F[s \ {k + 1}], ss[k + 1])
    <3> HIDE DEF s, F
    <3> QED
      BY <2>1, <2>3 DEF Picked
  <2> QED
    BY <2>4, <2>5, <2>6
<1> QED
  BY <1>1, <1>2
-----------------------------------------------------------------------------
(* What both stores hold is given by the keys of the nodes and by the edges. *)

\* Nodes of these kinds have the lot in their key, the others have none.
OfLot == {"Lot", "Wafer", "ProcessRun", "Measurement", "Alarm", "Inspection", "DataQualityIncident"}

LotOf(k) == IF k[1] \in OfLot THEN k[2] ELSE NoLot

At(K) == [k \in K |-> LotOf(k)]

MemoryOf(K, E) ==
    [nodes |-> At(K),
     kinds |-> {<<k[1], k>> : k \in K},
     lots |-> {<<LotOf(k), k>> : k \in {j \in K : LotOf(j) # NoLot}},
     edges |-> E,
     outgoing |-> {<<x[1], x>> : x \in E},
     incoming |-> {<<x[3], x>> : x \in E}]

TablesOf(K, E) == [nodes |-> At(K), edges |-> E]

GraphKey == (OfLot \cup {"Product", "Equipment", "Chamber", "Recipe", "Maintenance"})
           \X (GraphLots \cup {"PF-A", "ETCH-01", "ETCH-01-A", "v2", "m"})

GraphRelation == {"OF_PRODUCT", "CONTAINS", "HAS_CHAMBER", "EXECUTED", "USED_CHAMBER", "USED_RECIPE",
             "PRODUCED", "EMITTED", "HAS_MAINTENANCE", "HAS_INSPECTION"}

GraphEdge == GraphKey \X GraphRelation \X GraphKey

Statement == {NodeOf(k[1], k[2], LotOf(k)) : k \in GraphKey} \cup [op : {"edge"}, edge : GraphEdge]

\* The keys and edges a sequence of statements adds.
Keys(ss) == {ss[i].key : i \in {j \in DOMAIN ss : ss[j].op = "node"}}
Edges(ss) == {ss[i].edge : i \in {j \in DOMAIN ss : ss[j].op = "edge"}}

LEMMA StatementIs ==
    ASSUME NEW s \in Statement
    PROVE  \/ s.op = "node" /\ s.lot = LotOf(s.key) /\ s.key \in GraphKey
           \/ s.op = "edge" /\ s.edge \in GraphEdge
<1>1. CASE s \in [op : {"edge"}, edge : GraphEdge]
  BY <1>1
<1>2. ASSUME NEW k \in GraphKey, s = NodeOf(k[1], k[2], LotOf(k))
      PROVE  s.op = "node" /\ s.lot = LotOf(s.key) /\ s.key \in GraphKey
  <2>1. <<k[1], k[2]>> = k
    BY DEF GraphKey
  <2> QED
    BY <1>2, <2>1 DEF NodeOf
<1> QED
  BY <1>1, <1>2 DEF Statement

LEMMA AtMore == ASSUME NEW K, NEW key PROVE With(At(K), key, LotOf(key)) = At(K \cup {key})
BY DEF With, At

LEMMA NodeInMemory ==
    ASSUME NEW K, NEW E, NEW key
    PROVE  UpsertNode(MemoryOf(K, E), key, LotOf(key)) = MemoryOf(K \cup {key}, E)
<1> DEFINE m == MemoryOf(K, E)
           lot == LotOf(key)
           old == IF key \in DOMAIN m.nodes THEN m.nodes[key] ELSE NoLot
           merged == IF lot = NoLot THEN old ELSE lot
           lots == (m.lots \ (IF old # merged THEN {<<old, key>>} ELSE {}))
                       \cup (IF merged # NoLot THEN {<<merged, key>>} ELSE {})
<1>1. DOMAIN m.nodes = K /\ \A k \in K : m.nodes[k] = LotOf(k)
  BY DEF MemoryOf, At
<1>2. merged = lot
  BY <1>1
<1>3. old # merged => old = NoLot
  BY <1>1
<1>4. m.lots = {<<LotOf(k), k>> : k \in {j \in K : LotOf(j) # NoLot}}
  BY DEF MemoryOf
<1>5. UpsertNode(m, key, lot) =
          [m EXCEPT !.nodes = With(@, key, merged), !.kinds = @ \cup {<<key[1], key>>}, !.lots = lots]
  BY DEF UpsertNode
<1>6. lots = {<<LotOf(k), k>> : k \in {j \in K \cup {key} : LotOf(j) # NoLot}}
  <2> HIDE DEF m, merged, old
  <2>1. m.lots \ (IF old # merged THEN {<<old, key>>} ELSE {}) = m.lots
    <3>1. old # merged => <<old, key>> \notin m.lots
      BY <1>3, <1>4
    <3> QED
      BY <3>1
  <2>2. lots = m.lots \cup (IF lot # NoLot THEN {<<lot, key>>} ELSE {})
    BY <1>2, <2>1
  <2> HIDE DEF lots
  <2> QED
    BY <1>4, <2>2
<1>7. With(m.nodes, key, merged) = At(K \cup {key})
  BY <1>2, AtMore DEF MemoryOf
<1>8. m.kinds \cup {<<key[1], key>>} = {<<k[1], k>> : k \in K \cup {key}}
  BY DEF MemoryOf
<1>9. UpsertNode(m, key, lot) =
          [nodes |-> With(m.nodes, key, merged), kinds |-> m.kinds \cup {<<key[1], key>>}, lots |-> lots,
           edges |-> m.edges, outgoing |-> m.outgoing, incoming |-> m.incoming]
  <2> HIDE DEF lots, merged
  <2> QED
    BY <1>5 DEF MemoryOf
<1> HIDE DEF lots, merged
<1> QED
  BY <1>6, <1>7, <1>8, <1>9 DEF MemoryOf

LEMMA EdgeInMemory ==
    ASSUME NEW K, NEW E, NEW edge
    PROVE  UpsertEdge(MemoryOf(K, E), edge) = MemoryOf(K, E \cup {edge})
<1>1. {<<x[1], x>> : x \in E \cup {edge}} = {<<x[1], x>> : x \in E} \cup {<<edge[1], edge>>}
  OBVIOUS
<1>2. {<<x[3], x>> : x \in E \cup {edge}} = {<<x[3], x>> : x \in E} \cup {<<edge[3], edge>>}
  OBVIOUS
<1> DEFINE m == MemoryOf(K, E)
           edges == m.edges \cup {edge}
           outgoing == m.outgoing \cup {<<edge[1], edge>>}
           incoming == m.incoming \cup {<<edge[3], edge>>}
<1>3. UpsertEdge(m, edge) = [m EXCEPT !.edges = edges, !.outgoing = outgoing, !.incoming = incoming]
  BY DEF UpsertEdge
<1>4. UpsertEdge(m, edge) = [nodes |-> m.nodes, kinds |-> m.kinds, lots |-> m.lots,
                             edges |-> edges, outgoing |-> outgoing, incoming |-> incoming]
  <2> HIDE DEF edges, outgoing, incoming
  <2> QED
    BY <1>3 DEF MemoryOf
<1>5. /\ edges = E \cup {edge}
      /\ outgoing = {<<x[1], x>> : x \in E \cup {edge}}
      /\ incoming = {<<x[3], x>> : x \in E \cup {edge}}
  BY <1>1, <1>2 DEF MemoryOf
<1> HIDE DEF edges, outgoing, incoming
<1> QED
  BY <1>4, <1>5 DEF MemoryOf

\* A statement of an event adds its key or its edge to either store.
LEMMA StatementAdds ==
    ASSUME NEW K, NEW E, NEW s \in Statement
    PROVE  LET keys == IF s.op = "node" THEN {s.key} ELSE {}
               more == IF s.op = "edge" THEN {s.edge} ELSE {}
           IN  /\ Upsert(MemoryOf(K, E), s) = MemoryOf(K \cup keys, E \cup more)
               /\ Write(TablesOf(K, E), s) = TablesOf(K \cup keys, E \cup more)
<1>1. CASE s.op = "node" /\ s.lot = LotOf(s.key)
  <2>1. Upsert(MemoryOf(K, E), s) = MemoryOf(K \cup {s.key}, E)
    BY <1>1, NodeInMemory DEF Upsert
  <2>2. Write(TablesOf(K, E), s) = TablesOf(K \cup {s.key}, E)
    <3> DEFINE t == TablesOf(K, E)
               lot == LotOf(s.key)
               put == IF lot = NoLot /\ s.key \in DOMAIN t.nodes THEN t.nodes[s.key] ELSE lot
    <3>1. Write(t, s) = WriteNode(t, s.key, lot)
      BY <1>1 DEF Write
    <3>2. put = lot
      BY DEF TablesOf, At
    <3>3. WriteNode(t, s.key, lot) = [t EXCEPT !.nodes = With(@, s.key, put)]
      BY DEF WriteNode
    <3> HIDE DEF put
    <3>4. [t EXCEPT !.nodes = With(@, s.key, put)] = [nodes |-> With(At(K), s.key, put), edges |-> E]
      BY DEF TablesOf
    <3> QED
      BY <3>1, <3>2, <3>3, <3>4, AtMore DEF TablesOf
  <2> QED
    BY <1>1, <2>1, <2>2
<1>2. CASE s.op = "edge"
  <2>1. Upsert(MemoryOf(K, E), s) = MemoryOf(K, E \cup {s.edge})
    BY <1>2, EdgeInMemory DEF Upsert
  <2>2. Write(TablesOf(K, E), s) = TablesOf(K, E \cup {s.edge})
    BY <1>2 DEF Write, TablesOf
  <2> QED
    BY <1>2, <2>1, <2>2
<1> QED
  BY <1>1, <1>2, StatementIs

\* An event projected into the in-memory store adds its keys and its edges.
LEMMA EventInMemory ==
    ASSUME NEW K, NEW E, NEW ss \in Seq(Statement)
    PROVE  FoldLeft(Upsert, MemoryOf(K, E), ss) = MemoryOf(K \cup Keys(ss), E \cup Edges(ss))
<1> DEFINE n == Len(ss)
           m == MemoryOf(K, E)
           KeysTo(k) == {ss[i].key : i \in {j \in 1..k : ss[j].op = "node"}}
           EdgesTo(k) == {ss[i].edge : i \in {j \in 1..k : ss[j].op = "edge"}}
           T == {k \in Nat : k <= n => Folded(m, ss)[1..k] = MemoryOf(K \cup KeysTo(k), E \cup EdgesTo(k))}
<1>0. n \in Nat /\ DOMAIN ss = 1..n /\ \A i \in 1..n : ss[i] \in Statement
  OBVIOUS
<1>1. 0 \in T
  <2>1. KeysTo(0) = {} /\ EdgesTo(0) = {}
    <3>1. 1..0 = {}
      OBVIOUS
    <3> QED
      BY <3>1
  <2>2. Folded(m, ss)[1..0] = m
    BY <1>0, FoldSteps
  <2> QED
    BY <2>1, <2>2
<1>2. ASSUME NEW k \in Nat, k \in T PROVE k + 1 \in T
  <2> SUFFICES ASSUME k + 1 <= n
               PROVE  Folded(m, ss)[1..k + 1] = MemoryOf(K \cup KeysTo(k + 1), E \cup EdgesTo(k + 1))
    OBVIOUS
  <2> DEFINE s == ss[k + 1]
             keys == IF s.op = "node" THEN {s.key} ELSE {}
             more == IF s.op = "edge" THEN {s.edge} ELSE {}
  <2>1. s \in Statement /\ k <= n
    BY <1>0
  <2>2. Folded(m, ss)[1..k] = MemoryOf(K \cup KeysTo(k), E \cup EdgesTo(k))
    BY <1>2, <2>1
  <2>3. Folded(m, ss)[1..k + 1] = Upsert(Folded(m, ss)[1..k], s)
    BY <1>0, FoldSteps
  <2>4. 1..k + 1 = (1..k) \cup {k + 1}
    OBVIOUS
  <2>5. KeysTo(k + 1) = KeysTo(k) \cup keys /\ EdgesTo(k + 1) = EdgesTo(k) \cup more
    BY <2>4
  <2> HIDE DEF KeysTo, EdgesTo, s, m
  <2>6. Upsert(MemoryOf(K \cup KeysTo(k), E \cup EdgesTo(k)), s)
            = MemoryOf((K \cup KeysTo(k)) \cup keys, (E \cup EdgesTo(k)) \cup more)
    BY <2>1, StatementAdds
  <2>7. /\ (K \cup KeysTo(k)) \cup keys = K \cup KeysTo(k + 1)
        /\ (E \cup EdgesTo(k)) \cup more = E \cup EdgesTo(k + 1)
    BY <2>5
  <2> QED
    BY <2>2, <2>3, <2>6, <2>7
<1>3. n \in T
  <2> HIDE DEF T
  <2> QED
    BY <1>0, <1>1, <1>2, Upward
<1>4. KeysTo(n) = Keys(ss) /\ EdgesTo(n) = Edges(ss)
  BY <1>0 DEF Keys, Edges
<1>5. Folded(m, ss)[1..n] = MemoryOf(K \cup KeysTo(n), E \cup EdgesTo(n))
  <2>1. n <= n
    BY <1>0
  <2> HIDE DEF KeysTo, EdgesTo, m, n
  <2> QED
    BY <1>3, <2>1
<1> HIDE DEF KeysTo, EdgesTo
<1> QED
  BY <1>0, <1>4, <1>5, FoldIs

-----------------------------------------------------------------------------
(* The statements of an event.                                               *)

Shared == {<<"Product", "PF-A">>, <<"Equipment", "ETCH-01">>, <<"Chamber", "ETCH-01-A">>,
           <<"Recipe", "v2">>, <<"Maintenance", "m">>}

LEMMA LotNode == ASSUME NEW kind \in OfLot, NEW l \in GraphLots PROVE NodeOf(kind, l, l) \in Statement
<1> DEFINE k == <<kind, l>>
<1>1. k \in GraphKey /\ k[1] = kind /\ k[2] = l
  BY DEF GraphKey
<1>2. LotOf(k) = l
  BY <1>1 DEF LotOf
<1> HIDE DEF k
<1>3. NodeOf(kind, l, l) = NodeOf(k[1], k[2], LotOf(k))
  BY <1>1, <1>2
<1> QED
  BY <1>1, <1>3 DEF Statement

LEMMA SharedNode == ASSUME NEW k \in Shared PROVE k \in GraphKey /\ NodeOf(k[1], k[2], NoLot) \in Statement
<1>1. k \in GraphKey
  BY DEF Shared, GraphKey
<1>2. LotOf(k) = NoLot
  BY DEF Shared, LotOf, OfLot
<1> QED
  BY <1>1, <1>2 DEF Statement

LEMMA EdgeIn ==
    ASSUME NEW a \in GraphKey, NEW b \in GraphKey, NEW r \in GraphRelation
    PROVE  EdgeOf(a, r, b) \in Statement
BY DEF EdgeOf, Statement, GraphEdge

LEMMA Joined == ASSUME NEW a \in Seq(Statement), NEW b \in Seq(Statement) PROVE a \o b \in Seq(Statement)
BY ConcatProperties

LEMMA ChamberStatements == AtChamber \in Seq(Statement)
<1> DEFINE eq == <<"Equipment", "ETCH-01">>
           ch == <<"Chamber", "ETCH-01-A">>
<1>1. eq \in Shared /\ ch \in Shared
  BY DEF Shared
<1>2. NodeOf("Equipment", "ETCH-01", NoLot) \in Statement /\ NodeOf("Chamber", "ETCH-01-A", NoLot) \in Statement
  <2>1. eq[1] = "Equipment" /\ eq[2] = "ETCH-01" /\ ch[1] = "Chamber" /\ ch[2] = "ETCH-01-A"
    OBVIOUS
  <2> HIDE DEF eq, ch
  <2>2. NodeOf(eq[1], eq[2], NoLot) \in Statement /\ NodeOf(ch[1], ch[2], NoLot) \in Statement
    BY <1>1, SharedNode
  <2> QED
    BY <2>1, <2>2
<1>3. EdgeOf(eq, "HAS_CHAMBER", ch) \in Statement
  <2>1. eq \in GraphKey /\ ch \in GraphKey /\ "HAS_CHAMBER" \in GraphRelation
    BY <1>1, SharedNode DEF GraphRelation
  <2> QED
    BY <2>1, EdgeIn
<1> QED
  BY <1>2, <1>3 DEF AtChamber

LEMMA LotKey == ASSUME NEW kind \in OfLot, NEW l \in GraphLots PROVE <<kind, l>> \in GraphKey
BY DEF GraphKey

LEMMA SharedParts ==
    /\ <<"Product", "PF-A">> \in GraphKey /\ NodeOf("Product", "PF-A", NoLot) \in Statement
    /\ <<"Equipment", "ETCH-01">> \in GraphKey /\ <<"Chamber", "ETCH-01-A">> \in GraphKey
    /\ <<"Recipe", "v2">> \in GraphKey /\ NodeOf("Recipe", "v2", NoLot) \in Statement
    /\ <<"Maintenance", "m">> \in GraphKey /\ NodeOf("Maintenance", "m", NoLot) \in Statement
<1>1. ASSUME NEW kind, NEW id, <<kind, id>> \in Shared
      PROVE  <<kind, id>> \in GraphKey /\ NodeOf(kind, id, NoLot) \in Statement
  <2> DEFINE k == <<kind, id>>
  <2>1. k[1] = kind /\ k[2] = id
    OBVIOUS
  <2> HIDE DEF k
  <2>2. k \in Shared
    BY <1>1 DEF k
  <2>3. k \in GraphKey /\ NodeOf(k[1], k[2], NoLot) \in Statement
    BY <2>2, SharedNode
  <2> QED
    BY <2>1, <2>3 DEF k
<1>2. /\ <<"Product", "PF-A">> \in Shared /\ <<"Equipment", "ETCH-01">> \in Shared
      /\ <<"Chamber", "ETCH-01-A">> \in Shared /\ <<"Recipe", "v2">> \in Shared
      /\ <<"Maintenance", "m">> \in Shared
  BY DEF Shared
<1> QED
  BY <1>1, <1>2

\* Every event becomes statements of nodes that have their lot, and of edges.
LEMMA ProjectedStatements ==
    ASSUME NEW e \in ProjectedEvent
    PROVE  ProjectEvent(e) \in Seq(Statement)
<1> DEFINE l == e.lot
<1>0. /\ \A r \in {"OF_PRODUCT", "CONTAINS", "HAS_CHAMBER", "EXECUTED", "USED_CHAMBER", "USED_RECIPE",
                    "PRODUCED", "EMITTED", "HAS_MAINTENANCE", "HAS_INSPECTION"} : r \in GraphRelation
      /\ \A kind \in {"Lot", "Wafer", "ProcessRun", "Measurement", "Alarm", "Inspection",
                      "DataQualityIncident"} : kind \in OfLot
  BY DEF GraphRelation, OfLot
<1>1. ASSUME e.type = "maintained" PROVE ProjectEvent(e) \in Seq(Statement)
  <2> DEFINE more == <<NodeOf("Maintenance", "m", NoLot),
                       EdgeOf(<<"Equipment", "ETCH-01">>, "HAS_MAINTENANCE", <<"Maintenance", "m">>)>>
  <2>1. EdgeOf(<<"Equipment", "ETCH-01">>, "HAS_MAINTENANCE", <<"Maintenance", "m">>) \in Statement
    BY <1>0, SharedParts, EdgeIn, Zenon
  <2>2. more \in Seq(Statement)
    BY <2>1, SharedParts
  <2>3. ProjectEvent(e) = AtChamber \o more
    BY <1>1 DEF ProjectEvent
  <2> HIDE DEF more
  <2> QED
    BY <2>2, <2>3, ChamberStatements, Joined
<1>2. ASSUME e.type # "maintained" PROVE ProjectEvent(e) \in Seq(Statement)
  <2>1. l \in GraphLots
    BY <1>2 DEF ProjectedEvent
  <2>2. ASSUME NEW kind \in OfLot PROVE <<kind, l>> \in GraphKey /\ NodeOf(kind, l, l) \in Statement
    BY <2>1, LotKey, LotNode
  <2>3. AtLot(l) \in Seq(Statement)
    <3>1. NodeOf("Lot", l, l) \in Statement
      BY <1>0, <2>2, Zenon
    <3> QED
      BY <3>1 DEF AtLot
  <2>4. CASE e.type = "released"
    <3> DEFINE more == <<NodeOf("Product", "PF-A", NoLot),
                         EdgeOf(<<"Lot", l>>, "OF_PRODUCT", <<"Product", "PF-A">>),
                         NodeOf("Wafer", l, l), EdgeOf(<<"Lot", l>>, "CONTAINS", <<"Wafer", l>>)>>
    <3>1. /\ EdgeOf(<<"Lot", l>>, "OF_PRODUCT", <<"Product", "PF-A">>) \in Statement
          /\ EdgeOf(<<"Lot", l>>, "CONTAINS", <<"Wafer", l>>) \in Statement
          /\ NodeOf("Wafer", l, l) \in Statement
      BY <1>0, <2>2, SharedParts, EdgeIn, Zenon
    <3>2. more \in Seq(Statement)
      BY <3>1, SharedParts
    <3>3. ProjectEvent(e) = AtLot(l) \o more
      BY <2>4 DEF ProjectEvent
    <3> HIDE DEF more
    <3> QED
      BY <2>3, <3>2, <3>3, Joined
  <2>5. CASE e.type = "started"
    <3> DEFINE more == <<NodeOf("ProcessRun", l, l), NodeOf("Recipe", "v2", NoLot),
                         EdgeOf(<<"Lot", l>>, "EXECUTED", <<"ProcessRun", l>>),
                         EdgeOf(<<"ProcessRun", l>>, "USED_CHAMBER", <<"Chamber", "ETCH-01-A">>),
                         EdgeOf(<<"ProcessRun", l>>, "USED_RECIPE", <<"Recipe", "v2">>)>>
    <3>1. /\ EdgeOf(<<"Lot", l>>, "EXECUTED", <<"ProcessRun", l>>) \in Statement
          /\ EdgeOf(<<"ProcessRun", l>>, "USED_CHAMBER", <<"Chamber", "ETCH-01-A">>) \in Statement
          /\ EdgeOf(<<"ProcessRun", l>>, "USED_RECIPE", <<"Recipe", "v2">>) \in Statement
          /\ NodeOf("ProcessRun", l, l) \in Statement
      BY <1>0, <2>2, SharedParts, EdgeIn, Zenon
    <3>2. more \in Seq(Statement)
      BY <3>1, SharedParts
    <3>3. ProjectEvent(e) = AtLot(l) \o AtChamber \o more
      BY <2>5 DEF ProjectEvent
    <3> HIDE DEF more
    <3> QED
      BY <2>3, <3>2, <3>3, ChamberStatements, Joined
  <2>6. CASE e.type = "measured"
    <3> DEFINE more == <<NodeOf("Measurement", l, l),
                         EdgeOf(<<"ProcessRun", l>>, "PRODUCED", <<"Measurement", l>>)>>
    <3>1. /\ EdgeOf(<<"ProcessRun", l>>, "PRODUCED", <<"Measurement", l>>) \in Statement
          /\ NodeOf("Measurement", l, l) \in Statement
      BY <1>0, <2>2, EdgeIn, Zenon
    <3>2. more \in Seq(Statement)
      BY <3>1
    <3>3. ProjectEvent(e) = AtLot(l) \o AtChamber \o more
      BY <2>6 DEF ProjectEvent
    <3> HIDE DEF more
    <3> QED
      BY <2>3, <3>2, <3>3, ChamberStatements, Joined
  <2>7. CASE e.type = "alarm"
    <3> DEFINE more == <<NodeOf("Alarm", l, l),
                         EdgeOf(<<"Equipment", "ETCH-01">>, "EMITTED", <<"Alarm", l>>)>>
    <3>1. /\ EdgeOf(<<"Equipment", "ETCH-01">>, "EMITTED", <<"Alarm", l>>) \in Statement
          /\ NodeOf("Alarm", l, l) \in Statement
      BY <1>0, <2>2, SharedParts, EdgeIn, Zenon
    <3>2. more \in Seq(Statement)
      BY <3>1
    <3>3. ProjectEvent(e) = AtLot(l) \o AtChamber \o more
      BY <2>7 DEF ProjectEvent
    <3> HIDE DEF more
    <3> QED
      BY <2>3, <3>2, <3>3, ChamberStatements, Joined
  <2>8. CASE e.type = "inspected"
    <3> DEFINE more == <<NodeOf("Inspection", l, l),
                         EdgeOf(<<"Wafer", l>>, "HAS_INSPECTION", <<"Inspection", l>>)>>
    <3>1. /\ EdgeOf(<<"Wafer", l>>, "HAS_INSPECTION", <<"Inspection", l>>) \in Statement
          /\ NodeOf("Inspection", l, l) \in Statement
      BY <1>0, <2>2, EdgeIn, Zenon
    <3>2. more \in Seq(Statement)
      BY <3>1
    <3>3. ProjectEvent(e) = AtLot(l) \o more
      BY <2>8 DEF ProjectEvent
    <3> HIDE DEF more
    <3> QED
      BY <2>3, <3>2, <3>3, Joined
  <2>9. CASE e.type = "incident"
    <3> DEFINE more == <<NodeOf("DataQualityIncident", l, l)>>
    <3>1. more \in Seq(Statement)
      <4>1. NodeOf("DataQualityIncident", l, l) \in Statement
        BY <1>0, <2>2, Zenon
      <4> QED
        BY <4>1
    <3>2. ProjectEvent(e) = AtLot(l) \o more
      BY <2>9 DEF ProjectEvent
    <3> HIDE DEF more
    <3> QED
      BY <2>3, <3>1, <3>2, Joined
  <2> QED
    BY <1>2, <2>4, <2>5, <2>6, <2>7, <2>8, <2>9 DEF ProjectedEvent
<1> QED
  BY <1>1, <1>2

-----------------------------------------------------------------------------
(* Pruning, and the two stores between and within events.                    *)

Gone(K, keep) == {k \in K : LotOf(k) \notin keep \cup {NoLot}}
Cut(E, gone) == {x \in E : x[1] \in gone \/ x[3] \in gone}

LEMMA MemoryPruned ==
    ASSUME NEW K, NEW E, NEW keep
    PROVE  PruneMemory(MemoryOf(K, E), keep) = MemoryOf(K \ Gone(K, keep), E \ Cut(E, Gone(K, keep)))
<1> DEFINE m == MemoryOf(K, E)
           lost == {k \in DOMAIN m.nodes : m.nodes[k] \notin keep \cup {NoLot}}
           cut == {x[2] : x \in {y \in m.outgoing \cup m.incoming : y[1] \in lost}}
           G == Gone(K, keep)
           C == Cut(E, G)
<1>1. /\ m.kinds = {<<k[1], k>> : k \in K}
      /\ m.lots = {<<LotOf(k), k>> : k \in {j \in K : LotOf(j) # NoLot}}
      /\ m.edges = E
      /\ m.outgoing = {<<x[1], x>> : x \in E}
      /\ m.incoming = {<<x[3], x>> : x \in E}
      /\ m.nodes = At(K)
  BY DEF MemoryOf
<1>2. lost = G
  BY <1>1 DEF Gone, At
<1>3. cut = C
  <2> HIDE DEF m, lost, G
  <2>1. \A x : x \in cut => x \in C
    BY <1>1, <1>2 DEF Cut
  <2>2. ASSUME NEW x \in C PROVE x \in cut
    <3>1. x \in E /\ (x[1] \in G \/ x[3] \in G)
      BY DEF Cut
    <3>2. <<x[1], x>> \in m.outgoing /\ <<x[3], x>> \in m.incoming
      BY <1>1, <3>1
    <3>3. <<x[1], x>>[1] = x[1] /\ <<x[1], x>>[2] = x /\ <<x[3], x>>[1] = x[3] /\ <<x[3], x>>[2] = x
      OBVIOUS
    <3>4. \E y \in m.outgoing \cup m.incoming : y[1] \in lost /\ y[2] = x
      BY <1>2, <3>1, <3>2, <3>3
    <3> QED
      BY <3>4
  <2> HIDE DEF cut, C
  <2> QED
    BY <2>1, <2>2
<1>4. Without(m.nodes, G) = At(K \ G)
  BY <1>1 DEF Without, At
<1>5. {x \in m.kinds : x[2] \notin G} = {<<k[1], k>> : k \in K \ G}
  <2> HIDE DEF m, G
  <2> QED
    BY <1>1
<1>6. {x \in m.lots : x[2] \notin G} = {<<LotOf(k), k>> : k \in {j \in K \ G : LotOf(j) # NoLot}}
  <2> HIDE DEF m, G
  <2> QED
    BY <1>1
<1>7. {x \in m.outgoing : x[2] \notin C} = {<<x[1], x>> : x \in E \ C}
  <2> HIDE DEF m, C
  <2> QED
    BY <1>1
<1>8. {x \in m.incoming : x[2] \notin C} = {<<x[3], x>> : x \in E \ C}
  <2> HIDE DEF m, C
  <2> QED
    BY <1>1
<1>9. PruneMemory(m, keep) =
          [nodes |-> Without(m.nodes, lost), kinds |-> {x \in m.kinds : x[2] \notin lost},
           lots |-> {x \in m.lots : x[2] \notin lost}, edges |-> m.edges \ cut,
           outgoing |-> {x \in m.outgoing : x[2] \notin cut},
           incoming |-> {x \in m.incoming : x[2] \notin cut}]
  BY DEF PruneMemory
<1>10. PruneMemory(m, keep) =
          [nodes |-> At(K \ G), kinds |-> {<<k[1], k>> : k \in K \ G},
           lots |-> {<<LotOf(k), k>> : k \in {j \in K \ G : LotOf(j) # NoLot}}, edges |-> E \ C,
           outgoing |-> {<<x[1], x>> : x \in E \ C}, incoming |-> {<<x[3], x>> : x \in E \ C}]
  <2>1. m.edges = E
    BY <1>1
  <2> HIDE DEF m, lost, cut, G, C
  <2> QED
    BY <1>2, <1>3, <1>4, <1>5, <1>6, <1>7, <1>8, <1>9, <2>1
<1> HIDE DEF m, lost, cut, G, C
<1>11. PruneMemory(m, keep) = MemoryOf(K \ G, E \ C)
  BY <1>10 DEF MemoryOf
<1> QED
  BY <1>11 DEF m, G, C

LEMMA TablesPruned ==
    ASSUME NEW K, NEW E, NEW keep
    PROVE  /\ PruneEdges(TablesOf(K, E), keep) = TablesOf(K, E \ Cut(E, Gone(K, keep)))
           /\ PruneNodes(TablesOf(K, E), keep) = TablesOf(K \ Gone(K, keep), E)
<1> DEFINE t == TablesOf(K, E)
           G == Gone(K, keep)
<1>1. t.nodes = At(K) /\ t.edges = E /\ DOMAIN t.nodes = K /\ t = [nodes |-> t.nodes, edges |-> t.edges]
  BY DEF TablesOf, At
<1>2. Foreign(t, keep) = G
  BY <1>1 DEF Foreign, Gone, At
<1>3. {x \in E : {x[1], x[3]} \cap G = {}} = E \ Cut(E, G)
  BY DEF Cut
<1>4. Without(At(K), G) = At(K \ G)
  BY DEF Without, At
<1> HIDE DEF t, G
<1>5. PruneEdges(t, keep) = [nodes |-> At(K), edges |-> {x \in E : {x[1], x[3]} \cap G = {}}]
  <2> DEFINE left == {x \in t.edges : {x[1], x[3]} \cap G = {}}
  <2>1. PruneEdges(t, keep) = [t EXCEPT !.edges = left]
    BY <1>2 DEF PruneEdges
  <2> HIDE DEF left
  <2>2. PruneEdges(t, keep) = [nodes |-> t.nodes, edges |-> left]
    BY <1>1, <2>1
  <2> QED
    BY <1>1, <2>2 DEF left
<1>6. PruneNodes(t, keep) = [nodes |-> Without(At(K), G), edges |-> E]
  <2> DEFINE left == Without(t.nodes, G)
  <2>1. PruneNodes(t, keep) = [t EXCEPT !.nodes = left]
    BY <1>2 DEF PruneNodes
  <2> HIDE DEF left
  <2>2. PruneNodes(t, keep) = [nodes |-> left, edges |-> t.edges]
    BY <1>1, <2>1
  <2> QED
    BY <1>1, <2>2 DEF left
<1>7. PruneEdges(t, keep) = TablesOf(K, E \ Cut(E, G)) /\ PruneNodes(t, keep) = TablesOf(K \ G, E)
  BY <1>3, <1>4, <1>5, <1>6 DEF TablesOf
<1> QED
  BY <1>7 DEF t, G

LEMMA EdgesPruned ==
    \A K, E, keep : PruneEdges(TablesOf(K, E), keep) = TablesOf(K, E \ Cut(E, Gone(K, keep)))
<1>1. ASSUME NEW K, NEW E, NEW keep
      PROVE  PruneEdges(TablesOf(K, E), keep) = TablesOf(K, E \ Cut(E, Gone(K, keep)))
  <2>1. /\ PruneEdges(TablesOf(K, E), keep) = TablesOf(K, E \ Cut(E, Gone(K, keep)))
        /\ PruneNodes(TablesOf(K, E), keep) = TablesOf(K \ Gone(K, keep), E)
    BY TablesPruned
  <2> QED
    BY <2>1
<1> QED
  BY <1>1

LEMMA HeadAdds ==
    ASSUME NEW ss \in Seq(Statement), ss # <<>>
    PROVE  LET s == Head(ss)
           IN  /\ s \in Statement /\ Tail(ss) \in Seq(Statement)
               /\ Keys(ss) = Keys(Tail(ss)) \cup IF s.op = "node" THEN {s.key} ELSE {}
               /\ Edges(ss) = Edges(Tail(ss)) \cup IF s.op = "edge" THEN {s.edge} ELSE {}
<1> DEFINE n == Len(ss)
           rest == Tail(ss)
<1>1. n \in Nat /\ n >= 1 /\ DOMAIN ss = 1..n
  BY EmptySeq
<1>2. rest \in Seq(Statement) /\ DOMAIN rest = 1..n - 1 /\ \A i \in 1..n - 1 : rest[i] = ss[i + 1]
  BY HeadTailProperties
<1>3. Head(ss) = ss[1] /\ ss[1] \in Statement
  BY <1>1
<1>4. \A i \in 1..n : i = 1 \/ (i - 1 \in 1..n - 1 /\ ss[i] = rest[i - 1])
  <2> SUFFICES ASSUME NEW i \in 1..n, i # 1 PROVE i - 1 \in 1..n - 1 /\ ss[i] = rest[i - 1]
    OBVIOUS
  <2>1. i - 1 \in 1..n - 1 /\ (i - 1) + 1 = i
    BY <1>1
  <2> HIDE DEF rest, n
  <2> QED
    BY <1>2, <2>1
<1>5. \A i \in 1..n - 1 : i + 1 \in 1..n /\ ss[i + 1] = rest[i]
  BY <1>1, <1>2
<1>6. 1 \in 1..n
  BY <1>1
<1> HIDE DEF rest, n
<1>7. \A k : k \in Keys(ss) <=> k \in Keys(rest) \/ (ss[1].op = "node" /\ k = ss[1].key)
  <2>1. \A k : k \in Keys(ss) <=> \E i \in 1..n : ss[i].op = "node" /\ k = ss[i].key
    BY <1>1 DEF Keys
  <2>2. \A k : k \in Keys(rest) <=> \E i \in 1..n - 1 : rest[i].op = "node" /\ k = rest[i].key
    BY <1>2 DEF Keys
  <2>3. ASSUME NEW k, k \in Keys(ss)
        PROVE  k \in Keys(rest) \/ (ss[1].op = "node" /\ k = ss[1].key)
    <3>1. PICK i \in 1..n : ss[i].op = "node" /\ k = ss[i].key
      BY <2>1, <2>3
    <3>2. CASE i = 1
      BY <3>1, <3>2
    <3>3. CASE i - 1 \in 1..n - 1 /\ ss[i] = rest[i - 1]
      BY <2>2, <3>1, <3>3
    <3> QED
      BY <1>4, <3>2, <3>3
  <2>4. ASSUME NEW k, k \in Keys(rest) PROVE k \in Keys(ss)
    <3>1. PICK i \in 1..n - 1 : rest[i].op = "node" /\ k = rest[i].key
      BY <2>2, <2>4
    <3>2. i + 1 \in 1..n /\ ss[i + 1] = rest[i]
      BY <1>5
    <3> QED
      BY <2>1, <3>1, <3>2
  <2>5. ASSUME NEW k, ss[1].op = "node" /\ k = ss[1].key PROVE k \in Keys(ss)
    BY <1>6, <2>1, <2>5
  <2> QED
    BY <2>3, <2>4, <2>5
<1>8. \A x : x \in Edges(ss) <=> x \in Edges(rest) \/ (ss[1].op = "edge" /\ x = ss[1].edge)
  <2>1. \A x : x \in Edges(ss) <=> \E i \in 1..n : ss[i].op = "edge" /\ x = ss[i].edge
    BY <1>1 DEF Edges
  <2>2. \A x : x \in Edges(rest) <=> \E i \in 1..n - 1 : rest[i].op = "edge" /\ x = rest[i].edge
    BY <1>2 DEF Edges
  <2>3. ASSUME NEW x, x \in Edges(ss)
        PROVE  x \in Edges(rest) \/ (ss[1].op = "edge" /\ x = ss[1].edge)
    <3>1. PICK i \in 1..n : ss[i].op = "edge" /\ x = ss[i].edge
      BY <2>1, <2>3
    <3>2. CASE i = 1
      BY <3>1, <3>2
    <3>3. CASE i - 1 \in 1..n - 1 /\ ss[i] = rest[i - 1]
      BY <2>2, <3>1, <3>3
    <3> QED
      BY <1>4, <3>2, <3>3
  <2>4. ASSUME NEW x, x \in Edges(rest) PROVE x \in Edges(ss)
    <3>1. PICK i \in 1..n - 1 : rest[i].op = "edge" /\ x = rest[i].edge
      BY <2>2, <2>4
    <3>2. i + 1 \in 1..n /\ ss[i + 1] = rest[i]
      BY <1>5
    <3> QED
      BY <2>1, <3>1, <3>2
  <2>5. ASSUME NEW x, ss[1].op = "edge" /\ x = ss[1].edge PROVE x \in Edges(ss)
    BY <1>6, <2>1, <2>5
  <2> QED
    BY <2>3, <2>4, <2>5
<1>9. /\ Keys(ss) = Keys(rest) \cup IF ss[1].op = "node" THEN {ss[1].key} ELSE {}
      /\ Edges(ss) = Edges(rest) \cup IF ss[1].op = "edge" THEN {ss[1].edge} ELSE {}
  <2> DEFINE a == Keys(ss)
             b == Keys(rest)
             c == Edges(ss)
             d == Edges(rest)
  <2>1. \A k : k \in a <=> k \in b \/ (ss[1].op = "node" /\ k = ss[1].key)
    BY <1>7
  <2>2. \A x : x \in c <=> x \in d \/ (ss[1].op = "edge" /\ x = ss[1].edge)
    BY <1>8
  <2> HIDE DEF a, b, c, d
  <2>3. /\ a = b \cup IF ss[1].op = "node" THEN {ss[1].key} ELSE {}
        /\ c = d \cup IF ss[1].op = "edge" THEN {ss[1].edge} ELSE {}
    BY <2>1, <2>2
  <2> QED
    BY <2>3 DEF a, b, c, d
<1> QED
  BY <1>2, <1>3, <1>9 DEF rest

LEMMA NoStatements == Keys(<<>>) = {} /\ Edges(<<>>) = {}
BY DEF Keys, Edges

-----------------------------------------------------------------------------
(* The ends of an edge.                                                      *)

\* An edge is of one lot at most, and a node of that lot is there with it: a prune
\* that takes the nodes of the lot finds the edge by one of them.
Holds(J, x) ==
    /\ LotOf(x[1]) = NoLot \/ LotOf(x[3]) = NoLot \/ LotOf(x[1]) = LotOf(x[3])
    /\ LotOf(x[1]) # NoLot \/ LotOf(x[3]) # NoLot =>
          \E k \in J : (k = x[1] \/ k = x[3]) /\ LotOf(k) # NoLot

Anchored(J, F) == \A x \in F : Holds(J, x)

LEMMA MoreAnchored ==
    ASSUME NEW J, NEW F, NEW A, NEW B, NEW D, Anchored(J, F), Anchored(A, B), J \subseteq D, A \subseteq D
    PROVE  Anchored(D, F \cup B)
BY DEF Anchored, Holds

LEMMA HeldBy ==
    ASSUME NEW l \in GraphLots, NEW kind \in OfLot, NEW other \in OfLot, NEW s \in Shared, NEW r,
           NEW J, <<kind, l>> \in J
    PROVE  /\ Holds(J, <<<<kind, l>>, r, s>>) /\ Holds(J, <<s, r, <<kind, l>>>>)
           /\ Holds(J, <<<<kind, l>>, r, <<other, l>>>>) /\ Holds(J, <<<<other, l>>, r, <<kind, l>>>>)
<1> DEFINE k == <<kind, l>>
           j == <<other, l>>
<1>1. LotOf(k) = l /\ LotOf(j) = l /\ LotOf(s) = NoLot /\ l # NoLot /\ k \in J
  BY GraphAssumption DEF LotOf, NoLot, Shared, OfLot
<1> HIDE DEF k, j
<1>2. Holds(J, <<k, r, s>>) /\ Holds(J, <<s, r, k>>) /\ Holds(J, <<k, r, j>>) /\ Holds(J, <<j, r, k>>)
  BY <1>1 DEF Holds
<1> QED
  BY <1>2 DEF k, j

LEMMA JoinedParts ==
    ASSUME NEW a \in Seq(Statement), NEW b \in Seq(Statement)
    PROVE  /\ Keys(a) \subseteq Keys(a \o b) /\ Keys(b) \subseteq Keys(a \o b)
           /\ Edges(a \o b) \subseteq Edges(a) \cup Edges(b)
<1> DEFINE c == a \o b
           n == Len(a)
           m == Len(b)
<1>1. /\ n \in Nat /\ m \in Nat /\ DOMAIN a = 1..n /\ DOMAIN b = 1..m /\ DOMAIN c = 1..n + m
      /\ \A i \in 1..n : c[i] = a[i]
      /\ \A i \in 1..m : c[n + i] = b[i]
      /\ \A i \in (1..n + m) \ (1..n) : c[i] = b[i - n]
  BY ConcatProperties
<1> HIDE DEF c, n, m
<1>2. \A i \in 1..n : i \in 1..n + m
  BY <1>1
<1>3. \A i \in 1..m : n + i \in 1..n + m
  BY <1>1
<1>4. \A i \in (1..n + m) \ (1..n) : i - n \in 1..m
  BY <1>1
<1>5. Keys(a) \subseteq Keys(c)
  BY <1>1, <1>2 DEF Keys
<1>6. ASSUME NEW k \in Keys(b) PROVE k \in Keys(c)
  <2>1. PICK i \in 1..m : b[i].op = "node" /\ k = b[i].key
    BY <1>1 DEF Keys
  <2>2. n + i \in DOMAIN c /\ c[n + i] = b[i]
    BY <1>1, <1>3
  <2> QED
    BY <2>1, <2>2 DEF Keys
<1>7. ASSUME NEW x \in Edges(c) PROVE x \in Edges(a) \cup Edges(b)
  <2>1. PICK i \in 1..n + m : c[i].op = "edge" /\ x = c[i].edge
    BY <1>1 DEF Edges
  <2>2. CASE i \in 1..n
    BY <1>1, <2>1, <2>2 DEF Edges
  <2>3. CASE i \notin 1..n
    <3>1. i - n \in DOMAIN b /\ c[i] = b[i - n]
      BY <1>1, <1>4, <2>3
    <3> QED
      BY <2>1, <3>1 DEF Edges
  <2> QED
    BY <2>2, <2>3
<1> QED
  BY <1>5, <1>6, <1>7 DEF c

LEMMA JoinedAnchored ==
    ASSUME NEW a \in Seq(Statement), NEW b \in Seq(Statement),
           Anchored(Keys(a), Edges(a)), Anchored(Keys(a) \cup Keys(b), Edges(b))
    PROVE  Anchored(Keys(a \o b), Edges(a \o b))
<1>1. Anchored(Keys(a \o b), Edges(a) \cup Edges(b))
  BY JoinedParts, MoreAnchored
<1> QED
  BY <1>1, JoinedParts DEF Anchored

LEMMA ChamberAnchored == Anchored(Keys(AtChamber), Edges(AtChamber))
<1> DEFINE eq == <<"Equipment", "ETCH-01">>
           ch == <<"Chamber", "ETCH-01-A">>
           x == <<eq, "HAS_CHAMBER", ch>>
<1>1. Edges(AtChamber) \subseteq {x}
  BY DEF AtChamber, Edges, NodeOf, EdgeOf
<1>2. LotOf(x[1]) = NoLot /\ LotOf(x[3]) = NoLot
  BY DEF LotOf, OfLot
<1> HIDE DEF x
<1> QED
  BY <1>1, <1>2 DEF Anchored, Holds

LEMMA LotAnchored ==
    ASSUME NEW l
    PROVE  <<"Lot", l>> \in Keys(AtLot(l)) /\ Edges(AtLot(l)) = {}
BY DEF AtLot, NodeOf, Keys, Edges

\* Every edge an event adds is held by a node the event adds.
LEMMA EventAnchored ==
    ASSUME NEW e \in ProjectedEvent
    PROVE  Anchored(Keys(ProjectEvent(e)), Edges(ProjectEvent(e)))
<1> DEFINE l == e.lot
<1>0. /\ <<"Product", "PF-A">> \in Shared /\ <<"Equipment", "ETCH-01">> \in Shared
      /\ <<"Chamber", "ETCH-01-A">> \in Shared /\ <<"Recipe", "v2">> \in Shared
      /\ \A kind \in {"Lot", "Wafer", "ProcessRun", "Measurement", "Alarm", "Inspection",
                      "DataQualityIncident"} : kind \in OfLot
  BY DEF Shared, OfLot
<1>1. CASE e.type = "maintained"
  <2> DEFINE eq == <<"Equipment", "ETCH-01">>
             m == <<"Maintenance", "m">>
             x == <<eq, "HAS_MAINTENANCE", m>>
             more == <<NodeOf("Maintenance", "m", NoLot), EdgeOf(eq, "HAS_MAINTENANCE", m)>>
  <2>1. Edges(more) \subseteq {x}
    BY DEF Edges, NodeOf, EdgeOf
  <2>2. LotOf(x[1]) = NoLot /\ LotOf(x[3]) = NoLot
    BY DEF LotOf, OfLot
  <2>3. more \in Seq(Statement)
    <3>1. EdgeOf(eq, "HAS_MAINTENANCE", m) \in Statement
      <4>1. eq \in GraphKey /\ m \in GraphKey /\ "HAS_MAINTENANCE" \in GraphRelation
        BY SharedParts DEF GraphRelation
      <4> QED
        BY <4>1, EdgeIn
    <3> QED
      BY <3>1, SharedParts
  <2>4. ProjectEvent(e) = AtChamber \o more
    BY <1>1 DEF ProjectEvent
  <2> HIDE DEF x, more
  <2>5. Anchored(Keys(AtChamber) \cup Keys(more), Edges(more))
    BY <2>1, <2>2 DEF Anchored, Holds
  <2> QED
    BY <2>3, <2>4, <2>5, ChamberStatements, ChamberAnchored, JoinedAnchored
<1>2. ASSUME e.type # "maintained"
      PROVE  Anchored(Keys(ProjectEvent(e)), Edges(ProjectEvent(e)))
  <2>1. l \in GraphLots
    BY <1>2 DEF ProjectedEvent
  <2> HIDE DEF l
  <2>2. ASSUME NEW kind \in OfLot PROVE <<kind, l>> \in GraphKey /\ NodeOf(kind, l, l) \in Statement
    BY <2>1, LotKey, LotNode
  <2>3. /\ AtLot(l) \in Seq(Statement) /\ Anchored(Keys(AtLot(l)), Edges(AtLot(l)))
        /\ <<"Lot", l>> \in Keys(AtLot(l))
    <3>1. NodeOf("Lot", l, l) \in Statement
      BY <1>0, <2>2, Zenon
    <3> QED
      BY <3>1, LotAnchored DEF AtLot, Anchored
  <2>4. /\ AtLot(l) \o AtChamber \in Seq(Statement)
        /\ Anchored(Keys(AtLot(l) \o AtChamber), Edges(AtLot(l) \o AtChamber))
    <3>1. Anchored(Keys(AtLot(l)) \cup Keys(AtChamber), Edges(AtChamber))
      BY ChamberAnchored DEF Anchored, Holds
    <3> QED
      BY <2>3, <3>1, ChamberStatements, JoinedAnchored, Joined
  <2>5. CASE e.type = "released"
    <3> DEFINE p == <<"Product", "PF-A">>
               x == <<<<"Lot", l>>, "OF_PRODUCT", p>>
               y == <<<<"Lot", l>>, "CONTAINS", <<"Wafer", l>>>>
               more == <<NodeOf("Product", "PF-A", NoLot), EdgeOf(<<"Lot", l>>, "OF_PRODUCT", p),
                         NodeOf("Wafer", l, l), EdgeOf(<<"Lot", l>>, "CONTAINS", <<"Wafer", l>>)>>
    <3>1. Edges(more) \subseteq {x, y}
      BY DEF Edges, NodeOf, EdgeOf
    <3>2. Holds(Keys(AtLot(l)) \cup Keys(more), x)
      BY <1>0, <2>1, <2>3, HeldBy
    <3>3. Holds(Keys(AtLot(l)) \cup Keys(more), y)
      BY <1>0, <2>1, <2>3, HeldBy
    <3>4. more \in Seq(Statement)
      <4>1. /\ EdgeOf(<<"Lot", l>>, "OF_PRODUCT", p) \in Statement
            /\ EdgeOf(<<"Lot", l>>, "CONTAINS", <<"Wafer", l>>) \in Statement
            /\ NodeOf("Wafer", l, l) \in Statement
        <5>1. "OF_PRODUCT" \in GraphRelation /\ "CONTAINS" \in GraphRelation
          BY DEF GraphRelation
        <5> QED
          BY <1>0, <2>2, <5>1, SharedParts, EdgeIn, Zenon
      <4> QED
        BY <4>1, SharedParts
    <3>5. ProjectEvent(e) = AtLot(l) \o more
      BY <2>5 DEF ProjectEvent, l
    <3> HIDE DEF x, y, more
    <3>6. Anchored(Keys(AtLot(l)) \cup Keys(more), Edges(more))
      BY <3>1, <3>2, <3>3 DEF Anchored
    <3> QED
      BY <2>3, <3>4, <3>5, <3>6, JoinedAnchored
  <2>6. CASE e.type = "started"
    <3> DEFINE k == <<"ProcessRun", l>>
               c == <<"Chamber", "ETCH-01-A">>
               v == <<"Recipe", "v2">>
               x == <<<<"Lot", l>>, "EXECUTED", k>>
               y == <<k, "USED_CHAMBER", c>>
               z == <<k, "USED_RECIPE", v>>
               more == <<NodeOf("ProcessRun", l, l), NodeOf("Recipe", "v2", NoLot),
                         EdgeOf(<<"Lot", l>>, "EXECUTED", k), EdgeOf(k, "USED_CHAMBER", c),
                         EdgeOf(k, "USED_RECIPE", v)>>
               J == Keys(AtLot(l) \o AtChamber) \cup Keys(more)
    <3>1. Edges(more) \subseteq {x, y, z} /\ k \in Keys(more)
      BY DEF Edges, Keys, NodeOf, EdgeOf
    <3>2. k \in J
      BY <3>1
    <3>3. Holds(J, x) /\ Holds(J, y) /\ Holds(J, z)
      <4> HIDE DEF J
      <4>1. Holds(J, x)
        BY <1>0, <2>1, <3>2, HeldBy
      <4>2. Holds(J, y)
        BY <1>0, <2>1, <3>2, HeldBy
      <4>3. Holds(J, z)
        BY <1>0, <2>1, <3>2, HeldBy
      <4> QED
        BY <4>1, <4>2, <4>3
    <3>4. more \in Seq(Statement)
      <4>1. /\ EdgeOf(<<"Lot", l>>, "EXECUTED", k) \in Statement
            /\ EdgeOf(k, "USED_CHAMBER", c) \in Statement
            /\ EdgeOf(k, "USED_RECIPE", v) \in Statement
            /\ NodeOf("ProcessRun", l, l) \in Statement
        <5>1. "EXECUTED" \in GraphRelation /\ "USED_CHAMBER" \in GraphRelation /\ "USED_RECIPE" \in GraphRelation
          BY DEF GraphRelation
        <5> QED
          BY <1>0, <2>2, <5>1, SharedParts, EdgeIn, Zenon
      <4> QED
        BY <4>1, SharedParts
    <3>5. ProjectEvent(e) = AtLot(l) \o AtChamber \o more
      BY <2>6 DEF ProjectEvent, l
    <3> HIDE DEF x, y, z, more
    <3>6. Anchored(J, Edges(more))
      BY <3>1, <3>3 DEF Anchored
    <3> QED
      BY <2>4, <3>4, <3>5, <3>6, JoinedAnchored
  <2>7. CASE e.type = "measured"
    <3> DEFINE k == <<"Measurement", l>>
               x == <<<<"ProcessRun", l>>, "PRODUCED", k>>
               more == <<NodeOf("Measurement", l, l), EdgeOf(<<"ProcessRun", l>>, "PRODUCED", k)>>
               J == Keys(AtLot(l) \o AtChamber) \cup Keys(more)
    <3>1. Edges(more) \subseteq {x} /\ k \in Keys(more)
      BY DEF Edges, Keys, NodeOf, EdgeOf
    <3>2. k \in J
      BY <3>1
    <3>3. Holds(J, x)
      <4> HIDE DEF J
      <4> QED
        BY <1>0, <2>1, <3>2, HeldBy
    <3>4. more \in Seq(Statement)
      <4>1. /\ EdgeOf(<<"ProcessRun", l>>, "PRODUCED", k) \in Statement
            /\ NodeOf("Measurement", l, l) \in Statement
        <5>1. "PRODUCED" \in GraphRelation
          BY DEF GraphRelation
        <5> QED
          BY <1>0, <2>2, <5>1, EdgeIn, Zenon
      <4> QED
        BY <4>1
    <3>5. ProjectEvent(e) = AtLot(l) \o AtChamber \o more
      BY <2>7 DEF ProjectEvent, l
    <3> HIDE DEF x, more
    <3>6. Anchored(J, Edges(more))
      BY <3>1, <3>3 DEF Anchored
    <3> QED
      BY <2>4, <3>4, <3>5, <3>6, JoinedAnchored
  <2>8. CASE e.type = "alarm"
    <3> DEFINE k == <<"Alarm", l>>
               q == <<"Equipment", "ETCH-01">>
               x == <<q, "EMITTED", k>>
               more == <<NodeOf("Alarm", l, l), EdgeOf(q, "EMITTED", k)>>
               J == Keys(AtLot(l) \o AtChamber) \cup Keys(more)
    <3>1. Edges(more) \subseteq {x} /\ k \in Keys(more)
      BY DEF Edges, Keys, NodeOf, EdgeOf
    <3>2. k \in J
      BY <3>1
    <3>3. Holds(J, x)
      <4> HIDE DEF J
      <4> QED
        BY <1>0, <2>1, <3>2, HeldBy
    <3>4. more \in Seq(Statement)
      <4>1. EdgeOf(q, "EMITTED", k) \in Statement /\ NodeOf("Alarm", l, l) \in Statement
        <5>1. "EMITTED" \in GraphRelation
          BY DEF GraphRelation
        <5> QED
          BY <1>0, <2>2, <5>1, SharedParts, EdgeIn, Zenon
      <4> QED
        BY <4>1
    <3>5. ProjectEvent(e) = AtLot(l) \o AtChamber \o more
      BY <2>8 DEF ProjectEvent, l
    <3> HIDE DEF x, more
    <3>6. Anchored(J, Edges(more))
      BY <3>1, <3>3 DEF Anchored
    <3> QED
      BY <2>4, <3>4, <3>5, <3>6, JoinedAnchored
  <2>9. CASE e.type = "inspected"
    <3> DEFINE k == <<"Inspection", l>>
               x == <<<<"Wafer", l>>, "HAS_INSPECTION", k>>
               more == <<NodeOf("Inspection", l, l), EdgeOf(<<"Wafer", l>>, "HAS_INSPECTION", k)>>
               J == Keys(AtLot(l)) \cup Keys(more)
    <3>1. Edges(more) \subseteq {x} /\ k \in Keys(more)
      BY DEF Edges, Keys, NodeOf, EdgeOf
    <3>2. k \in J
      BY <3>1
    <3>3. Holds(J, x)
      <4> HIDE DEF J
      <4> QED
        BY <1>0, <2>1, <3>2, HeldBy
    <3>4. more \in Seq(Statement)
      <4>1. EdgeOf(<<"Wafer", l>>, "HAS_INSPECTION", k) \in Statement /\ NodeOf("Inspection", l, l) \in Statement
        <5>1. "HAS_INSPECTION" \in GraphRelation
          BY DEF GraphRelation
        <5> QED
          BY <1>0, <2>2, <5>1, EdgeIn, Zenon
      <4> QED
        BY <4>1
    <3>5. ProjectEvent(e) = AtLot(l) \o more
      BY <2>9 DEF ProjectEvent, l
    <3> HIDE DEF x, more
    <3>6. Anchored(J, Edges(more))
      BY <3>1, <3>3 DEF Anchored
    <3> QED
      BY <2>3, <3>4, <3>5, <3>6, JoinedAnchored
  <2>10. CASE e.type = "incident"
    <3> DEFINE more == <<NodeOf("DataQualityIncident", l, l)>>
    <3>1. Edges(more) = {}
      BY DEF Edges, NodeOf
    <3>2. more \in Seq(Statement)
      <4>1. NodeOf("DataQualityIncident", l, l) \in Statement
        BY <1>0, <2>2, Zenon
      <4> QED
        BY <4>1
    <3>3. ProjectEvent(e) = AtLot(l) \o more
      BY <2>10 DEF ProjectEvent, l
    <3> HIDE DEF more
    <3>4. Anchored(Keys(AtLot(l)) \cup Keys(more), Edges(more))
      BY <3>1 DEF Anchored
    <3> QED
      BY <2>3, <3>2, <3>3, <3>4, JoinedAnchored
  <2> QED
    BY <1>2, <2>5, <2>6, <2>7, <2>8, <2>9, <2>10 DEF ProjectedEvent
<1> QED
  BY <1>1, <1>2

-----------------------------------------------------------------------------
(* How far the tables are from memory.                                       *)

Touches(x, lots) == LotOf(x[1]) \in lots \/ LotOf(x[3]) \in lots

\* The tables hold what memory does, and of the rest only what is of these lots.
Alike(K, E, J, F, lots) ==
    /\ K \subseteq J /\ \A k \in J \ K : LotOf(k) \in lots
    /\ E \subseteq F /\ \A x \in F \ E : Touches(x, lots)

LEMMA MoreAlike ==
    ASSUME NEW K, NEW E, NEW J, NEW F, NEW lots, Alike(K, E, J, F, lots), NEW A, NEW B
    PROVE  Alike(K \cup A, E \cup B, J \cup A, F \cup B, lots)
BY DEF Alike

LEMMA PrunedAnchored ==
    ASSUME NEW J, NEW F, NEW keep, Anchored(J, F)
    PROVE  /\ Anchored(J, F \ Cut(F, Gone(J, keep)))
           /\ Anchored(J \ Gone(J, keep), F \ Cut(F, Gone(J, keep)))
<1>1. ASSUME NEW x \in F \ Cut(F, Gone(J, keep))
      PROVE  Holds(J, x) /\ Holds(J \ Gone(J, keep), x)
  BY DEF Anchored, Holds, Cut
<1> QED
  BY <1>1 DEF Anchored

\* A prune of both that runs to its end takes the rest of the lots it does not keep.
LEMMA PrunedAlike ==
    ASSUME NEW K, NEW E, NEW J, NEW F, NEW lots, NEW keep, Alike(K, E, J, F, lots),
           Anchored(K, E), Anchored(J, F), NoLot \notin lots
    PROVE  Alike(K \ Gone(K, keep), E \ Cut(E, Gone(K, keep)),
                 J \ Gone(J, keep), F \ Cut(F, Gone(J, keep)), lots \cap keep)
<1> DEFINE G == Gone(K, keep)
           H == Gone(J, keep)
           B == E \ Cut(E, G)
           D == F \ Cut(F, H)
<1>0. /\ K \subseteq J /\ E \subseteq F /\ (\A k \in J \ K : LotOf(k) \in lots)
      /\ \A x \in F \ E : Touches(x, lots)
  BY DEF Alike
<1>1. \A k : k \in G <=> k \in K /\ LotOf(k) \notin keep /\ LotOf(k) # NoLot
  BY DEF Gone
<1>2. \A k : k \in H <=> k \in J /\ LotOf(k) \notin keep /\ LotOf(k) # NoLot
  BY DEF Gone
<1>3. \A x : x \in B <=> x \in E /\ x[1] \notin G /\ x[3] \notin G
  BY DEF Cut
<1>4. \A x : x \in D <=> x \in F /\ x[1] \notin H /\ x[3] \notin H
  BY DEF Cut
<1> HIDE DEF G, H, B, D
<1>5. K \ G \subseteq J \ H /\ \A k \in (J \ H) \ (K \ G) : LotOf(k) \in lots \cap keep
  BY <1>0, <1>1, <1>2
<1>6. ASSUME NEW x \in B PROVE x \in D
  <2>1. Holds(K, x)
    BY <1>3 DEF Anchored
  <2>2. ASSUME NEW j \in H, j = x[1] \/ j = x[3] PROVE FALSE
    <3>1. LotOf(j) \notin keep /\ LotOf(j) # NoLot
      BY <1>2
    <3>2. PICK k \in K : (k = x[1] \/ k = x[3]) /\ LotOf(k) # NoLot
      BY <2>1, <2>2, <3>1 DEF Holds
    <3>3. LotOf(k) = LotOf(j)
      BY <2>1, <2>2, <3>1, <3>2 DEF Holds
    <3> QED
      BY <1>1, <1>3, <3>1, <3>2, <3>3
  <2> QED
    BY <1>0, <1>3, <1>4, <2>2
<1>7. ASSUME NEW x \in D \ B PROVE Touches(x, lots \cap keep)
  <2>1. x \in F /\ Holds(J, x)
    BY <1>4 DEF Anchored
  <2>2. x \notin E
    BY <1>0, <1>1, <1>2, <1>3, <1>4
  <2>3. Touches(x, lots)
    BY <1>0, <2>1, <2>2
  <2>4. PICK j \in J : (j = x[1] \/ j = x[3]) /\ LotOf(j) # NoLot
    BY <2>1, <2>3 DEF Holds, Touches
  <2>5. LotOf(j) \in keep
    BY <1>2, <1>4, <2>4
  <2>6. LotOf(j) \in lots
    BY <2>1, <2>3, <2>4 DEF Holds, Touches
  <2> QED
    BY <2>4, <2>5, <2>6 DEF Touches
<1>8. Alike(K \ G, B, J \ H, D, lots \cap keep)
  BY <1>5, <1>6, <1>7 DEF Alike
<1> QED
  BY <1>8 DEF G, H, B, D

\* A prune cut short leaves what it would have taken, of lots that are then known.
LEMMA CutShort ==
    ASSUME NEW K, NEW E, NEW J, NEW F, NEW D, NEW lots, NEW keep,
           Alike(K, E, J \ Gone(J, keep), D, lots \cap keep),
           D \subseteq F, F \ D \subseteq Cut(F, Gone(J, keep))
    PROVE  Alike(K, E, J, F, lots \cup {LotOf(k) : k \in Gone(J, keep)})
<1> DEFINE G == Gone(J, keep)
           L == {LotOf(k) : k \in G}
<1>1. /\ K \subseteq J \ G /\ (\A k \in (J \ G) \ K : LotOf(k) \in lots \cap keep)
      /\ E \subseteq D /\ \A x \in D \ E : Touches(x, lots \cap keep)
  BY DEF Alike
<1>2. \A x \in F \ D : x[1] \in G \/ x[3] \in G
  BY DEF Cut
<1>3. \A k \in G : LotOf(k) \in L
  OBVIOUS
<1> HIDE DEF G, L
<1>4. \A k \in J \ K : LotOf(k) \in lots \cup L
  BY <1>1, <1>3
<1>5. \A x \in F \ E : Touches(x, lots \cup L)
  BY <1>1, <1>2, <1>3 DEF Touches
<1>6. Alike(K, E, J, F, lots \cup L)
  BY <1>1, <1>4, <1>5 DEF Alike
<1> QED
  BY <1>6 DEF G, L

-----------------------------------------------------------------------------
GraphSpec == GraphInit /\ [][GraphNext]_graphVars

\* Within an event the tables lack what the statements left to write will add, and
\* nothing else; within a prune, they are to lose what its statements will take. What
\* they hold beyond memory is of the lots a prune left.
EventFits(K, E, J, F, lots, ss, w) ==
    /\ ss \in Seq(Statement)
    /\ Keys(ss) \subseteq Keys(ProjectEvent(w)) /\ Edges(ss) \subseteq Edges(ProjectEvent(w))
    /\ Keys(ProjectEvent(w)) \subseteq K /\ Edges(ProjectEvent(w)) \subseteq E
    /\ Alike(K, E, J \cup Keys(ss), F \cup Edges(ss), lots)
    /\ Anchored(J \cup Keys(ss), F \cup Edges(ss))

Rest(K, E, J, F, lots, ss) == ss = <<>> /\ Alike(K, E, J, F, lots) /\ Anchored(J, F)

PruneFits(K, E, J, F, lots, ss, keep) ==
    \/ /\ ss = PruneStatements(keep) /\ Anchored(J, F)
       /\ Alike(K, E, J \ Gone(J, keep), F \ Cut(F, Gone(J, keep)), lots \cap keep)
    \/ /\ ss = Tail(PruneStatements(keep)) /\ Anchored(J \ Gone(J, keep), F)
       /\ Alike(K, E, J \ Gone(J, keep), F, lots \cap keep)
    \/ Rest(K, E, J, F, lots, ss)

StoresFit(K, E, J, F, lots, ss, w) ==
    /\ NoLot \notin lots /\ Anchored(K, E)
    /\ w \in ProjectedEvent => EventFits(K, E, J, F, lots, ss, w)
    /\ w = Pruning => \E keep \in SUBSET GraphLots : PruneFits(K, E, J, F, lots, ss, keep)
    /\ w = Nothing => Rest(K, E, J, F, lots, ss)

StoresInv ==
    /\ writing \in ProjectedEvent \cup {Nothing, Pruning}
    /\ memory = MemoryOf(DOMAIN memory.nodes, memory.edges)
    /\ tables = TablesOf(DOMAIN tables.nodes, tables.edges)
    /\ StoresFit(DOMAIN memory.nodes, memory.edges, DOMAIN tables.nodes, tables.edges, torn,
                 statements, writing)

LEMMA Apart ==
    /\ Nothing \notin ProjectedEvent /\ Pruning \notin ProjectedEvent /\ Nothing # Pruning
BY DEF Nothing, Pruning, ProjectedEvent

LEMMA StoreParts ==
    \A K, E : /\ DOMAIN MemoryOf(K, E).nodes = K /\ MemoryOf(K, E).edges = E
             /\ DOMAIN TablesOf(K, E).nodes = K /\ TablesOf(K, E).edges = E
BY DEF MemoryOf, TablesOf, At

LEMMA NothingLeft ==
    ASSUME NEW K, NEW E, NEW J, NEW F, NEW lots, NEW w \in ProjectedEvent \cup {Nothing, Pruning},
           StoresFit(K, E, J, F, lots, <<>>, w)
    PROVE  Alike(K, E, J, F, lots) /\ Anchored(J, F)
<1>1. CASE w \in ProjectedEvent
  <2>1. EventFits(K, E, J, F, lots, <<>>, w)
    BY <1>1 DEF StoresFit
  <2>2. J \cup Keys(<<>>) = J /\ F \cup Edges(<<>>) = F
    BY NoStatements
  <2> QED
    BY <2>1, <2>2 DEF EventFits
<1>2. CASE w = Pruning
  <2>1. PICK keep \in SUBSET GraphLots : PruneFits(K, E, J, F, lots, <<>>, keep)
    BY <1>2 DEF StoresFit
  <2> DEFINE first == [op |-> "prune edges", keep |-> keep]
             second == [op |-> "prune nodes", keep |-> keep]
  <2>2. PruneStatements(keep) = <<first, second>>
    BY DEF PruneStatements
  <2> HIDE DEF first, second
  <2>3. PruneStatements(keep) # <<>> /\ Tail(PruneStatements(keep)) # <<>>
    BY <2>2
  <2> QED
    BY <2>1, <2>3 DEF PruneFits, Rest
<1>3. CASE w = Nothing
  BY <1>3 DEF StoresFit, Rest
<1> QED
  BY <1>1, <1>2, <1>3

Indexes(index, S, f) == \A y : y \in index <=> \E x \in S : y = <<f[x], x>>

LEMMA Indexed ==
    ASSUME NEW S, NEW f, NEW b, NEW index, Indexes(index, S, f)
    PROVE  \A x : x \in Bucket(index, b) <=> x \in S /\ f[x] = b
<1>1. \A x : x \in Bucket(index, b) => x \in {z \in S : f[z] = b}
  BY DEF Bucket, Indexes
<1>2. ASSUME NEW x \in S, f[x] = b PROVE x \in Bucket(index, b)
  <2>1. <<f[x], x>> \in index /\ <<f[x], x>>[1] = b /\ <<f[x], x>>[2] = x
    BY <1>2 DEF Indexes
  <2>2. \E y \in index : y[1] = b /\ y[2] = x
    BY <2>1
  <2> QED
    BY <2>2 DEF Bucket
<1> QED
  BY <1>1, <1>2

LEMMA StoresInit == GraphInit => StoresInv
<1> SUFFICES ASSUME GraphInit PROVE StoresInv
  OBVIOUS
<1>1. <<>> = At({})
  BY DEF At
<1>2. memory = MemoryOf({}, {}) /\ tables = TablesOf({}, {})
  BY <1>1 DEF GraphInit, Empty, NoTables, MemoryOf, TablesOf
<1>3. StoresFit({}, {}, {}, {}, torn, statements, writing)
  BY Apart DEF GraphInit, StoresFit, Rest, Alike, Anchored
<1> QED
  BY <1>2, <1>3, StoreParts DEF StoresInv, GraphInit

LEMMA StoresStep == StoresInv /\ [GraphNext]_graphVars => StoresInv'
<1> SUFFICES ASSUME StoresInv, [GraphNext]_graphVars PROVE StoresInv'
  OBVIOUS
<1> DEFINE K == DOMAIN memory.nodes
           E == memory.edges
           J == DOMAIN tables.nodes
           F == tables.edges
<1>0. /\ memory = MemoryOf(K, E) /\ tables = TablesOf(J, F)
      /\ writing \in ProjectedEvent \cup {Nothing, Pruning}
      /\ StoresFit(K, E, J, F, torn, statements, writing)
  BY DEF StoresInv
<1>same. statements = <<>> => Alike(K, E, J, F, torn) /\ Anchored(J, F)
  <2> HIDE DEF K, E, J, F
  <2> QED
    BY <1>0, NothingLeft
<1>held. NoLot \notin torn /\ Anchored(K, E)
  BY <1>0 DEF StoresFit
<1> HIDE DEF K, E, J, F
<1>suf. ASSUME NEW A, NEW B, NEW C, NEW D, memory' = MemoryOf(A, B), tables' = TablesOf(C, D),
               writing' \in ProjectedEvent \cup {Nothing, Pruning},
               StoresFit(A, B, C, D, torn', statements', writing')
        PROVE  StoresInv'
  <2>1. /\ DOMAIN memory'.nodes = A /\ memory'.edges = B
        /\ DOMAIN tables'.nodes = C /\ tables'.edges = D
    BY <1>suf, StoreParts
  <2> QED
    BY <1>suf, <2>1 DEF StoresInv
<1>1. ASSUME NEW e \in ProjectedEvent, BeginEvent(e) PROVE StoresInv'
  <2> DEFINE ss == ProjectEvent(e)
             A == K \cup Keys(ss)
             B == E \cup Edges(ss)
  <2>1. ss \in Seq(Statement)
    BY ProjectedStatements
  <2>2. /\ memory' = FoldLeft(Upsert, memory, ss) /\ tables' = tables /\ torn' = torn
        /\ statements' = ss /\ writing' = e /\ Alike(K, E, J, F, torn) /\ Anchored(J, F)
    BY <1>1, <1>same DEF BeginEvent
  <2>3. memory' = MemoryOf(A, B)
    <3> HIDE DEF ss
    <3>1. FoldLeft(Upsert, MemoryOf(K, E), ss) = MemoryOf(A, B)
      BY <2>1, EventInMemory
    <3> QED
      BY <1>0, <2>2, <3>1
  <2>4. Anchored(Keys(ss), Edges(ss))
    BY EventAnchored
  <2>5. EventFits(A, B, J, F, torn, ss, e)
    <3>1. Alike(A, B, J \cup Keys(ss), F \cup Edges(ss), torn)
      <4> HIDE DEF ss
      <4> QED
        BY <2>2, MoreAlike
    <3>2. Anchored(J \cup Keys(ss), F \cup Edges(ss))
      <4> HIDE DEF ss
      <4> QED
        BY <2>2, <2>4, MoreAnchored
    <3> QED
      BY <2>1, <3>1, <3>2 DEF EventFits
  <2>6. Anchored(A, B)
    <3> HIDE DEF ss
    <3> QED
      BY <1>held, <2>4, MoreAnchored
  <2>7. StoresFit(A, B, J, F, torn, ss, e)
    BY <1>held, <2>5, <2>6, Apart DEF StoresFit
  <2> HIDE DEF A, B, ss
  <2> QED
    BY <1>0, <1>suf, <2>2, <2>3, <2>7
<1>2. ASSUME NEW keep \in SUBSET GraphLots, BeginPrune(keep) PROVE StoresInv'
  <2> DEFINE A == K \ Gone(K, keep)
             B == E \ Cut(E, Gone(K, keep))
  <2>1. /\ memory' = PruneMemory(memory, keep) /\ tables' = tables /\ torn' = torn
        /\ statements' = PruneStatements(keep) /\ writing' = Pruning
        /\ Alike(K, E, J, F, torn) /\ Anchored(J, F)
    BY <1>2, <1>same DEF BeginPrune
  <2>2. memory' = MemoryOf(A, B)
    BY <1>0, <2>1, MemoryPruned
  <2>3. PruneFits(A, B, J, F, torn, PruneStatements(keep), keep)
    BY <1>held, <2>1, PrunedAlike DEF PruneFits
  <2>4. Anchored(A, B)
    BY <1>held, PrunedAnchored
  <2>5. StoresFit(A, B, J, F, torn, PruneStatements(keep), Pruning)
    BY <1>held, <2>3, <2>4, Apart DEF StoresFit
  <2> HIDE DEF A, B
  <2> QED
    BY <1>0, <1>suf, <2>1, <2>2, <2>5
<1>3. ASSUME WriteStatement PROVE StoresInv'
  <2> DEFINE s == Head(statements)
  <2>1. /\ statements # <<>> /\ tables' = Write(tables, s) /\ statements' = Tail(statements)
        /\ torn' = IF s.op = "prune nodes" THEN torn \cap s.keep ELSE torn
        /\ memory' = memory /\ writing' = writing
    BY <1>3 DEF WriteStatement
  <2>2. CASE writing \in ProjectedEvent
    <3> DEFINE keys == IF s.op = "node" THEN {s.key} ELSE {}
               more == IF s.op = "edge" THEN {s.edge} ELSE {}
               rest == Tail(statements)
    <3>1. EventFits(K, E, J, F, torn, statements, writing)
      BY <1>0, <2>2 DEF StoresFit
    <3>2. /\ s \in Statement /\ rest \in Seq(Statement)
          /\ Keys(statements) = Keys(rest) \cup keys /\ Edges(statements) = Edges(rest) \cup more
      BY <2>1, <3>1, HeadAdds DEF EventFits
    <3>3. tables' = TablesOf(J \cup keys, F \cup more)
      <4> HIDE DEF s
      <4>1. Write(TablesOf(J, F), s) = TablesOf(J \cup keys, F \cup more)
        BY <3>2, StatementAdds
      <4> QED
        BY <1>0, <2>1, <4>1
    <3>4. torn' = torn
      <4> HIDE DEF s
      <4>1. s.op # "prune nodes"
        BY <3>2, StatementIs
      <4> QED
        BY <2>1, <4>1
    <3> HIDE DEF s, keys, more, rest
    <3>5. /\ (J \cup keys) \cup Keys(rest) = J \cup Keys(statements)
          /\ (F \cup more) \cup Edges(rest) = F \cup Edges(statements)
      BY <3>2
    <3>6. EventFits(K, E, J \cup keys, F \cup more, torn, rest, writing)
      BY <3>1, <3>2, <3>5 DEF EventFits
    <3>7. StoresFit(K, E, J \cup keys, F \cup more, torn, rest, writing)
      BY <1>held, <2>2, <3>6, Apart DEF StoresFit
    <3>8. memory' = MemoryOf(K, E) /\ statements' = rest
      BY <1>0, <2>1 DEF rest
    <3> QED
      BY <1>0, <1>suf, <2>1, <3>3, <3>4, <3>7, <3>8
  <2>3. CASE writing = Pruning
    <3>1. PICK keep \in SUBSET GraphLots : PruneFits(K, E, J, F, torn, statements, keep)
      BY <1>0, <2>3 DEF StoresFit
    <3> DEFINE first == [op |-> "prune edges", keep |-> keep]
               second == [op |-> "prune nodes", keep |-> keep]
               A == J \ Gone(J, keep)
               B == F \ Cut(F, Gone(J, keep))
               lots == torn \cap keep
    <3>2. /\ PruneStatements(keep) = <<first, second>> /\ Tail(<<first, second>>) = <<second>>
          /\ Tail(<<second>>) = <<>> /\ Head(<<first, second>>) = first /\ Head(<<second>>) = second
      <4>1. PruneStatements(keep) = <<first, second>>
        BY DEF PruneStatements
      <4> HIDE DEF first, second
      <4> QED
        BY <4>1
    <3>3. /\ Write(tables, first) = PruneEdges(tables, keep) /\ first.op # "prune nodes"
          /\ Write(tables, second) = PruneNodes(tables, keep) /\ second.op = "prune nodes"
          /\ second.keep = keep
      BY DEF Write
    <3> HIDE DEF first, second
    <3>4. CASE statements = <<first, second>> /\ Alike(K, E, A, B, lots) /\ Anchored(J, F)
      <4>1. tables' = TablesOf(J, B) /\ statements' = <<second>> /\ torn' = torn
        <5>1. s = first
          BY <3>2, <3>4
        <5> HIDE DEF s
        <5>2. tables' = PruneEdges(TablesOf(J, F), keep) /\ torn' = torn
          BY <1>0, <2>1, <3>3, <5>1
        <5>3. statements' = <<second>>
          BY <2>1, <3>2, <3>4
        <5>4. PruneEdges(TablesOf(J, F), keep) = TablesOf(J, B)
          <6>1. PruneEdges(TablesOf(J, F), keep) = TablesOf(J, F \ Cut(F, Gone(J, keep)))
            BY EdgesPruned
          <6> QED
            BY <6>1
        <5> HIDE DEF B
        <5> QED
          BY <5>2, <5>3, <5>4
      <4>2. Anchored(A, B)
        BY <3>4, PrunedAnchored
      <4> HIDE DEF B
      <4>3. PruneFits(K, E, J, B, torn, <<second>>, keep)
        BY <3>2, <3>4, <4>2 DEF PruneFits
      <4>4. StoresFit(K, E, J, B, torn, <<second>>, writing)
        BY <1>held, <2>3, <4>3, Apart DEF StoresFit
      <4> QED
        BY <1>0, <1>suf, <2>1, <4>1, <4>4
    <3>5. CASE statements = <<second>> /\ Alike(K, E, A, F, lots) /\ Anchored(A, F)
      <4>1. tables' = TablesOf(A, F) /\ statements' = <<>> /\ torn' = lots
        <5>1. s = second
          BY <3>2, <3>5
        <5> HIDE DEF s
        <5>2. tables' = PruneNodes(TablesOf(J, F), keep) /\ torn' = torn \cap keep
          BY <1>0, <2>1, <3>3, <5>1
        <5>3. statements' = <<>>
          BY <2>1, <3>2, <3>5
        <5> QED
          BY <5>2, <5>3, TablesPruned
      <4> HIDE DEF A
      <4>2. PruneFits(K, E, A, F, lots, <<>>, keep)
        BY <3>5 DEF PruneFits, Rest
      <4>3. StoresFit(K, E, A, F, lots, <<>>, writing)
        BY <1>held, <2>3, <4>2, Apart DEF StoresFit
      <4> QED
        BY <1>0, <1>suf, <2>1, <4>1, <4>3
    <3> QED
      BY <2>1, <3>1, <3>2, <3>4, <3>5 DEF PruneFits, Rest
  <2>4. CASE writing = Nothing
    BY <1>0, <2>1, <2>4 DEF StoresFit, Rest
  <2> QED
    BY <1>0, <2>2, <2>3, <2>4
<1>4. ASSUME DieInEvent PROVE StoresInv'
  <2> DEFINE ss == ProjectEvent(writing)
             A == J \cup Keys(statements)
             B == F \cup Edges(statements)
  <2>1. /\ statements # <<>> /\ writing # Pruning /\ statements' = ss
        /\ memory' = memory /\ tables' = tables /\ writing' = writing /\ torn' = torn
    BY <1>4 DEF DieInEvent
  <2>2. writing \in ProjectedEvent /\ EventFits(K, E, J, F, torn, statements, writing)
    BY <1>0, <2>1 DEF StoresFit, Rest
  <2>3. ss \in Seq(Statement)
    BY <2>2, ProjectedStatements
  <2>4. Anchored(Keys(ss), Edges(ss))
    BY <2>2, EventAnchored
  <2> HIDE DEF ss
  <2>5. /\ Keys(statements) \subseteq Keys(ss) /\ Edges(statements) \subseteq Edges(ss)
        /\ Keys(ss) \subseteq K /\ Edges(ss) \subseteq E /\ Alike(K, E, A, B, torn) /\ Anchored(A, B)
    BY <2>2 DEF EventFits, ss
  <2>6. /\ K \cup Keys(ss) = K /\ E \cup Edges(ss) = E
        /\ A \cup Keys(ss) = J \cup Keys(ss) /\ B \cup Edges(ss) = F \cup Edges(ss)
    BY <2>5
  <2> HIDE DEF A, B
  <2>7. Alike(K, E, J \cup Keys(ss), F \cup Edges(ss), torn)
    <3>1. Alike(K \cup Keys(ss), E \cup Edges(ss), A \cup Keys(ss), B \cup Edges(ss), torn)
      BY <2>5, MoreAlike
    <3> QED
      BY <2>6, <3>1
  <2>8. Anchored(J \cup Keys(ss), F \cup Edges(ss))
    <3>1. Anchored(A \cup Keys(ss), B \cup Edges(ss))
      BY <2>4, <2>5, MoreAnchored
    <3> QED
      BY <2>6, <3>1
  <2>9. EventFits(K, E, J, F, torn, ss, writing)
    BY <2>2, <2>3, <2>5, <2>7, <2>8 DEF EventFits, ss
  <2>10. StoresFit(K, E, J, F, torn, ss, writing)
    BY <1>held, <2>2, <2>9, Apart DEF StoresFit
  <2> QED
    BY <1>0, <1>suf, <2>1, <2>10
<1>5. ASSUME DieInPrune PROVE StoresInv'
  <2>1. /\ statements # <<>> /\ writing = Pruning /\ statements' = <<>>
        /\ torn' = torn \cup {tables.nodes[k] : k \in Foreign(tables, Head(statements).keep)}
        /\ memory' = memory /\ tables' = tables /\ writing' = writing
    BY <1>5 DEF DieInPrune
  <2>2. PICK keep \in SUBSET GraphLots : PruneFits(K, E, J, F, torn, statements, keep)
    BY <1>0, <2>1 DEF StoresFit
  <2> DEFINE first == [op |-> "prune edges", keep |-> keep]
             second == [op |-> "prune nodes", keep |-> keep]
             A == J \ Gone(J, keep)
             B == F \ Cut(F, Gone(J, keep))
             lots == torn \cup {LotOf(k) : k \in Gone(J, keep)}
  <2>3. /\ PruneStatements(keep) = <<first, second>> /\ Tail(<<first, second>>) = <<second>>
        /\ Head(<<first, second>>) = first /\ Head(<<second>>) = second
        /\ first.keep = keep /\ second.keep = keep
    <3>1. PruneStatements(keep) = <<first, second>> /\ first.keep = keep /\ second.keep = keep
      BY DEF PruneStatements
    <3> HIDE DEF first, second
    <3> QED
      BY <3>1
  <2> HIDE DEF first, second
  <2>4. Head(statements).keep = keep
    BY <2>1, <2>2, <2>3 DEF PruneFits, Rest
  <2>5. torn' = lots
    <3>1. tables.nodes = At(J) /\ DOMAIN At(J) = J
      BY <1>0 DEF TablesOf, At
    <3>2. Foreign(tables, keep) = Gone(J, keep)
      BY <3>1 DEF Foreign, Gone, At
    <3>3. \A k \in Gone(J, keep) : tables.nodes[k] = LotOf(k)
      BY <3>1 DEF Gone, At
    <3> QED
      BY <2>1, <2>4, <3>2, <3>3
  <2>6. NoLot \notin lots
    BY <1>held DEF Gone
  <2>7. Alike(K, E, J, F, lots) /\ Anchored(J, F)
    <3>1. CASE Anchored(J, F) /\ Alike(K, E, A, B, torn \cap keep)
      <4>1. B \subseteq F /\ F \ B \subseteq Cut(F, Gone(J, keep))
        OBVIOUS
      <4> HIDE DEF B
      <4> QED
        BY <3>1, <4>1, CutShort
    <3>2. CASE Anchored(A, F) /\ Alike(K, E, A, F, torn \cap keep)
      <4>1. F \subseteq F /\ F \ F \subseteq Cut(F, Gone(J, keep))
        OBVIOUS
      <4>2. Alike(K, E, J, F, lots)
        BY <3>2, <4>1, CutShort
      <4>3. A \subseteq J
        OBVIOUS
      <4>4. Anchored(J, F)
        BY <3>2, <4>3 DEF Anchored, Holds
      <4> QED
        BY <4>2, <4>4
    <3> QED
      BY <2>1, <2>2, <3>1, <3>2 DEF PruneFits, Rest
  <2> HIDE DEF lots
  <2>8. PruneFits(K, E, J, F, lots, <<>>, keep)
    BY <2>7 DEF PruneFits, Rest
  <2>9. StoresFit(K, E, J, F, lots, <<>>, writing)
    BY <1>held, <2>1, <2>6, <2>8, Apart DEF StoresFit
  <2> QED
    BY <1>0, <1>suf, <2>1, <2>5, <2>9
<1>6. CASE UNCHANGED graphVars
  BY <1>0, <1>6, <1>suf DEF graphVars
<1> QED
  BY <1>1, <1>2, <1>3, <1>4, <1>5, <1>6 DEF GraphNext

LEMMA StoresAlike == StoresInv => StoresAgree
<1> SUFFICES ASSUME StoresInv, statements = <<>>
             PROVE  /\ AlikeBut(memory.edges, tables.edges, LeftEdges)
                    /\ \A key \in AskedKeys :
                          /\ MemoryNode(key) = TableNode(key) \/ (MemoryNode(key) = {} /\ key \in Left)
                          /\ AlikeBut(MemoryNodes(key[1]), TableNodes(key[1]), Left)
                          /\ \A l \in GraphLots \ torn :
                                MemoryNodesForLot(key[1], l) = TableNodesForLot(key[1], l)
                          /\ AlikeBut(MemoryOutgoing(key), TableOutgoing(key), LeftEdges)
                          /\ AlikeBut(MemoryIncoming(key), TableIncoming(key), LeftEdges)
  BY DEF StoresAgree
<1> DEFINE K == DOMAIN memory.nodes
           E == memory.edges
           J == DOMAIN tables.nodes
           F == tables.edges
<1>1. Alike(K, E, J, F, torn) /\ Anchored(J, F) /\ NoLot \notin torn
  <2>1. /\ writing \in ProjectedEvent \cup {Nothing, Pruning}
        /\ StoresFit(K, E, J, F, torn, <<>>, writing)
    BY DEF StoresInv
  <2> HIDE DEF K, E, J, F
  <2> QED
    BY <2>1, NothingLeft DEF StoresFit
<1>2. memory = MemoryOf(K, E) /\ tables = TablesOf(J, F)
  BY DEF StoresInv
<1> HIDE DEF K, E, J, F
<1>3. /\ memory.nodes = At(K) /\ memory.kinds = {<<k[1], k>> : k \in K}
      /\ memory.lots = {<<LotOf(k), k>> : k \in {j \in K : LotOf(j) # NoLot}}
      /\ memory.edges = E
      /\ memory.outgoing = {<<x[1], x>> : x \in E} /\ memory.incoming = {<<x[3], x>> : x \in E}
      /\ tables.nodes = At(J) /\ tables.edges = F
  BY <1>2 DEF MemoryOf, TablesOf
<1>4. K \subseteq J /\ \A k \in J \ K : k \in Left
  BY <1>1, <1>3 DEF Alike, Left, At
<1>5. E \subseteq F /\ \A x \in F \ E : x \in LeftEdges
  <2>1. ASSUME NEW x \in F \ E PROVE x \in LeftEdges
    <3>1. Touches(x, torn) /\ Holds(J, x)
      BY <1>1 DEF Alike, Anchored
    <3>2. PICK k \in J : (k = x[1] \/ k = x[3]) /\ LotOf(k) # NoLot
      BY <1>1, <3>1 DEF Touches, Holds
    <3>3. LotOf(k) \in torn
      BY <1>1, <3>1, <3>2 DEF Touches, Holds
    <3>4. k \in Left
      BY <1>3, <3>3 DEF Left, At
    <3> QED
      BY <1>3, <3>2, <3>4 DEF LeftEdges
  <2> QED
    BY <1>1, <2>1 DEF Alike
<1>6. ASSUME NEW key
      PROVE  MemoryNode(key) = TableNode(key) \/ (MemoryNode(key) = {} /\ key \in Left)
  BY <1>3, <1>4 DEF MemoryNode, TableNode, At
<1>7. ASSUME NEW kind PROVE Bucket(memory.kinds, kind) = {k \in K : k[1] = kind}
  <2> DEFINE f == [k \in K |-> k[1]]
  <2>1. {k \in K : f[k] = kind} = {k \in K : k[1] = kind}
    OBVIOUS
  <2>2. Indexes(memory.kinds, K, f)
    BY <1>3 DEF Indexes
  <2> HIDE DEF f
  <2>3. \A x : x \in Bucket(memory.kinds, kind) <=> x \in K /\ f[x] = kind
    BY <2>2, Indexed
  <2> QED
    BY <2>1, <2>3
<1>8. \A kind : TableNodes(kind) = {k \in J : k[1] = kind}
  BY <1>3 DEF TableNodes, At
<1>9. ASSUME NEW l \in GraphLots PROVE Bucket(memory.lots, l) = {k \in K : LotOf(k) = l}
  <2> DEFINE S == {j \in K : LotOf(j) # NoLot}
             f == [k \in S |-> LotOf(k)]
  <2>1. Indexes(memory.lots, S, f)
    BY <1>3 DEF Indexes
  <2>2. l # NoLot
    BY GraphAssumption DEF NoLot
  <2>3. {k \in S : f[k] = l} = {k \in K : LotOf(k) = l}
    BY <2>2
  <2> HIDE DEF f, S
  <2>4. \A x : x \in Bucket(memory.lots, l) <=> x \in S /\ f[x] = l
    BY <2>1, Indexed
  <2> QED
    BY <2>3, <2>4
<1>10. ASSUME NEW kind, NEW l \in GraphLots \ torn
       PROVE  MemoryNodesForLot(kind, l) = TableNodesForLot(kind, l)
  <2>1. MemoryNodesForLot(kind, l) = {k \in {j \in K : LotOf(j) = l} : k[1] = kind}
    BY <1>9 DEF MemoryNodesForLot
  <2>2. TableNodesForLot(kind, l) = {k \in {j \in J : j[1] = kind} : LotOf(k) = l}
    BY <1>3, <1>8 DEF TableNodesForLot, At
  <2>3. \A k \in J : LotOf(k) = l => k \in K
    BY <1>1 DEF Alike
  <2> QED
    BY <1>4, <2>1, <2>2, <2>3
<1>11. ASSUME NEW kind PROVE AlikeBut(MemoryNodes(kind), TableNodes(kind), Left)
  BY <1>4, <1>7, <1>8 DEF AlikeBut, MemoryNodes
<1>12. ASSUME NEW key PROVE Bucket(memory.outgoing, key) = {x \in E : x[1] = key}
  <2> DEFINE f == [x \in E |-> x[1]]
  <2>1. {x \in E : f[x] = key} = {x \in E : x[1] = key}
    OBVIOUS
  <2>2. Indexes(memory.outgoing, E, f)
    BY <1>3 DEF Indexes
  <2> HIDE DEF f
  <2>3. \A x : x \in Bucket(memory.outgoing, key) <=> x \in E /\ f[x] = key
    BY <2>2, Indexed
  <2> QED
    BY <2>1, <2>3
<1>13. ASSUME NEW key PROVE Bucket(memory.incoming, key) = {x \in E : x[3] = key}
  <2> DEFINE f == [x \in E |-> x[3]]
  <2>1. {x \in E : f[x] = key} = {x \in E : x[3] = key}
    OBVIOUS
  <2>2. Indexes(memory.incoming, E, f)
    BY <1>3 DEF Indexes
  <2> HIDE DEF f
  <2>3. \A x : x \in Bucket(memory.incoming, key) <=> x \in E /\ f[x] = key
    BY <2>2, Indexed
  <2> QED
    BY <2>1, <2>3
<1>14. ASSUME NEW key PROVE AlikeBut(MemoryOutgoing(key), TableOutgoing(key), LeftEdges)
  BY <1>3, <1>5, <1>12 DEF AlikeBut, MemoryOutgoing, TableOutgoing
<1>15. ASSUME NEW key PROVE AlikeBut(MemoryIncoming(key), TableIncoming(key), LeftEdges)
  BY <1>3, <1>5, <1>13 DEF AlikeBut, MemoryIncoming, TableIncoming
<1>16. AlikeBut(memory.edges, tables.edges, LeftEdges)
  BY <1>3, <1>5 DEF AlikeBut
<1> QED
  BY <1>6, <1>10, <1>11, <1>14, <1>15, <1>16

\* Between events the in-memory graph and the tables answer every query alike, for
\* any lots, events, prunes, and deaths of the writer in an event or a prune, but for
\* what a prune cut short left and no later one took (graph.py, postgres/graph.py).
THEOREM StoresAlwaysAgree == GraphSpec => []StoresAgree
<1>1. GraphInit => StoresInv
  BY StoresInit
<1>2. StoresInv /\ [GraphNext]_graphVars => StoresInv'
  BY StoresStep
<1>3. StoresInv => StoresAgree
  BY StoresAlike
<1> QED
  BY <1>1, <1>2, <1>3, PTL DEF GraphSpec
=============================================================================
