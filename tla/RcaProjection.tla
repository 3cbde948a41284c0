----------------------------- MODULE RcaProjection -----------------------------
(***************************************************************************)
(* The persistent RCA graph of the live preview: the projection worker     *)
(* (systems/projection_worker/main.py around services/rca/projection.py)   *)
(* reads the event log the stream worker appends to and keeps the nodes of *)
(* the most recent lots and a checkpoint in PostgreSQL                     *)
(* (adapters/postgres/graph.py).                                           *)
(*                                                                         *)
(* The worker's connection is in autocommit: each call is a transaction,   *)
(* rows are appended between any two of them, and a crash may come there.  *)
(* A row of the log is its lot; the graph is the set of the rows whose     *)
(* nodes it holds.  The upserts of one event repeat harmlessly and are one *)
(* step.  Sequences lost to rollbacks are no rows, and are left out.       *)
(***************************************************************************)
EXTENDS Naturals, Sequences, FiniteSets

CONSTANTS
    Lot,        \* lots, in whatever order they are released
    Window,     \* FABOPS_GRAPH_WINDOW_LOTS
    BatchSize,  \* rows events_after returns at most
    MaxRows,    \* bound on the rows appended
    MaxCrashes  \* bound on the worker's crashes

ASSUME ProjectionAssumption ==
    /\ Window \in Nat \ {0}
    /\ BatchSize \in Nat \ {0}
    /\ MaxRows \in Nat
    /\ MaxCrashes \in Nat

VARIABLES
    log,      \* fabops_event_log: the lot of every row
    graph,    \* rows whose nodes are in fabops_rca_nodes
    stored,   \* fabops_projection_checkpoint
    worker,   \* program counter and variables of the worker
    unread,   \* history: rows appended while the last rebuild was reading
    crashes   \* of the worker (bounded by MaxCrashes)

vars == <<log, graph, stored, worker, unread, crashes>>
-----------------------------------------------------------------------------
(* What is read from the log. *)

Rows == DOMAIN log

Logged == {log[s] : s \in Rows}

\* Lots with a row later than every row of a lot.
Later(lot) ==
    {other \in Logged :
        \E s \in Rows : log[s] = other /\ \A t \in Rows : log[t] = lot => t < s}

\* recent_lot_ids: the lots of the latest rows.
RecentLots == {lot \in Logged : Cardinality(Later(lot)) < Window}

EventsForLots(lots) == {s \in Rows : log[s] \in lots}

\* Fault: the row after the checkpoint is left out.
EventsBeyond(checkpoint) == {s \in Rows : s > checkpoint + 1 /\ s <= checkpoint + BatchSize}

EventsAfter(checkpoint) == {s \in Rows : s > checkpoint /\ s <= checkpoint + BatchSize}

\* Fault: the checkpoint adds up.
Added(checkpoint, s) == checkpoint + s

Reached(checkpoint, s) == IF s > checkpoint THEN s ELSE checkpoint
-----------------------------------------------------------------------------
(* The worker.  "clear" to "publish" are rebuild_recent, "fetch" to "prune"  *)
(* catch_up; in "idle" it waits for its interval.                            *)

Rebuilding == {"clear", "lots", "rows", "rebuild", "publish"}

PC == Rebuilding \cup {"down", "idle", "fetch", "project", "recent", "prune"}

TypeOK ==
    /\ log \in Seq(Lot)
    /\ graph \subseteq Rows
    /\ stored \in 0..Len(log)
    /\ worker \in [pc : PC, checkpoint : 0..Len(log), batch : SUBSET Rows,
                   full : BOOLEAN, projected : BOOLEAN, lots : SUBSET Lot]
    /\ unread \subseteq Rows
    /\ crashes \in 0..MaxCrashes

Down == [pc |-> "down", checkpoint |-> 0, batch |-> {}, full |-> FALSE,
         projected |-> FALSE, lots |-> {}]

Init ==
    /\ log = <<>>
    /\ graph = {}
    /\ stored = 0
    /\ worker = Down
    /\ unread = {}
    /\ crashes = 0

\* ACTION: the stream worker commits an event, of a lot it has not seen or of one
\* of the latest: the simulator releases lots in order and the window is of fifty
\* lots or more.
AppendRow(lot) ==
    /\ Len(log) < MaxRows
    /\ lot \in Logged => lot \in RecentLots
    /\ log' = Append(log, lot)
    /\ unread' = IF worker.pc \in {"rows", "rebuild"} THEN unread \cup {Len(log) + 1} ELSE unread
    /\ UNCHANGED <<graph, stored, worker, crashes>>

\* ACTION: the worker starts at the stored checkpoint, and rebuilds if there is none.
Start ==
    /\ worker.pc = "down"
    /\ worker' = [worker EXCEPT !.pc = IF stored = 0 THEN "clear" ELSE "fetch",
                                !.checkpoint = stored]
    /\ UNCHANGED <<log, graph, stored, unread, crashes>>

\* ACTION: clear.
Clear ==
    /\ worker.pc = "clear"
    /\ graph' = {}
    /\ stored' = 0
    /\ worker' = [worker EXCEPT !.pc = "lots"]
    /\ unread' = {}
    /\ UNCHANGED <<log, crashes>>

\* ACTION: recent_lot_ids, in a rebuild or before a prune.
ReadLots ==
    /\ worker.pc \in {"lots", "recent"}
    /\ worker' = [worker EXCEPT !.pc = IF worker.pc = "lots" THEN "rows" ELSE "prune",
                                !.lots = RecentLots]
    /\ UNCHANGED <<log, graph, stored, unread, crashes>>

\* ACTION: events_for_lots.
ReadRows ==
    /\ worker.pc = "rows"
    /\ worker' = [worker EXCEPT !.pc = "rebuild", !.batch = EventsForLots(worker.lots)]
    /\ UNCHANGED <<log, graph, stored, unread, crashes>>

\* ACTION: project_stored of the next event of a rebuild or a batch.
ProjectNext ==
    /\ worker.pc \in {"rebuild", "project"}
    /\ \E s \in worker.batch :
        /\ \A t \in worker.batch : s <= t
        /\ graph' = graph \cup {s}
        /\ worker' = [worker EXCEPT !.batch = @ \ {s}, !.checkpoint = Reached(@, s),
                                    !.projected = TRUE]
    /\ UNCHANGED <<log, stored, unread, crashes>>

\* ACTION: latest_event; the checkpoint of a rebuild is the end of the log by now.
ReadLatest ==
    /\ worker.pc = "rebuild"
    /\ worker.batch = {}
    /\ worker' = [worker EXCEPT !.pc = "publish", !.checkpoint = Reached(@, Len(log))]
    /\ UNCHANGED <<log, graph, stored, unread, crashes>>

\* ACTION: set_projection_checkpoint at the end of a rebuild.
PublishRebuild ==
    /\ worker.pc = "publish"
    /\ stored' = worker.checkpoint
    /\ worker' = [worker EXCEPT !.pc = "fetch", !.projected = FALSE]
    /\ UNCHANGED <<log, graph, unread, crashes>>

\* Fault: the checkpoint is stored before its rows are projected.
FetchPersisting ==
    LET batch == EventsAfter(worker.checkpoint) IN
    /\ worker.pc \in {"idle", "fetch"}
    /\ batch /= {}
    /\ worker' = [worker EXCEPT !.pc = "project", !.batch = batch,
                                !.full = Cardinality(batch) = BatchSize]
    /\ \E s \in batch : (\A t \in batch : t <= s) /\ stored' = s
    /\ UNCHANGED <<log, graph, unread, crashes>>

\* ACTION: events_after, at the start of a cycle or after a full batch.
Fetch ==
    LET batch == EventsAfter(worker.checkpoint) IN
    /\ worker.pc \in {"idle", "fetch"}
    /\ batch /= {}
    /\ worker' = [worker EXCEPT !.pc = "project", !.batch = batch,
                                !.full = Cardinality(batch) = BatchSize]
    /\ UNCHANGED <<log, graph, stored, unread, crashes>>

\* ACTION: events_after returned nothing: the cycle ends, with a prune if a batch
\* came before.
FetchNothing ==
    /\ worker.pc = "fetch"
    /\ EventsAfter(worker.checkpoint) = {}
    /\ worker' = [worker EXCEPT !.pc = IF worker.projected THEN "recent" ELSE "idle"]
    /\ UNCHANGED <<log, graph, stored, unread, crashes>>

\* ACTION: set_projection_checkpoint after a batch; a full one is followed by the
\* next, the last one by the prune.
Persist ==
    /\ worker.pc = "project"
    /\ worker.batch = {}
    /\ stored' = worker.checkpoint
    /\ worker' = [worker EXCEPT !.pc = IF worker.full THEN "fetch" ELSE "recent"]
    /\ UNCHANGED <<log, graph, unread, crashes>>

\* ACTION: prune_to_lots, with the lots read before; then status, which reads the
\* checkpoint it has stored.
Prune ==
    /\ worker.pc = "prune"
    /\ graph' = {s \in graph : log[s] \in worker.lots}
    /\ worker' = [worker EXCEPT !.pc = "idle", !.checkpoint = stored, !.projected = FALSE]
    /\ UNCHANGED <<log, stored, unread, crashes>>

\* ACTION: the process ends; its container is started again.
Crash ==
    /\ worker.pc /= "down"
    /\ crashes < MaxCrashes
    /\ crashes' = crashes + 1
    /\ worker' = Down
    /\ UNCHANGED <<log, graph, stored, unread>>

WorkerStep ==
    \/ Start \/ Clear \/ ReadLots \/ ReadRows \/ ReadLatest \/ PublishRebuild
    \/ ProjectNext \/ Fetch \/ FetchNothing \/ Persist \/ Prune

Next ==
    \/ \E lot \in Lot : AppendRow(lot)
    \/ WorkerStep
    \/ Crash

Spec == Init /\ [][Next]_vars

\* The worker's loop goes on and its container is restarted (restart:
\* unless-stopped); nothing has to be appended.
FairSpec == Spec /\ WF_vars(WorkerStep)
-----------------------------------------------------------------------------
(* Properties. *)

\* A row at or below the stored checkpoint whose lot is still in the window is in
\* the graph, through crashes between projection, checkpoint and prune and prunes
\* with a list of lots that is no longer the latest.  The rows appended while a
\* rebuild was reading are left out: catch_up never fetches them.
WindowIsProjected ==
    \A s \in Rows :
        s <= stored /\ s \notin unread /\ log[s] \in RecentLots => s \in graph

\* The stored checkpoint never goes back: no restart repeats what readers have seen.
CheckpointAdvances == [][stored' >= stored]_vars

\* Every row is passed by the stored checkpoint in the end, wherever crashes fall.
RowsArrive == \A s \in 1..MaxRows : s \in Rows ~> stored >= s
=============================================================================
