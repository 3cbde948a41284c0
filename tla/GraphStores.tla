---------------------------- MODULE GraphStores ----------------------------
(* The two stores a projected event goes to: the in-memory graph of the      *)
(* local and integration runtimes (services/rca/graph.py), which keeps four  *)
(* indexes beside its nodes and edges, and the tables of the preview         *)
(* (adapters/postgres/graph.py), written statement by statement in           *)
(* autocommit by a worker that may die in the middle of an event and then    *)
(* projects it again. Both answer the same queries (GraphProjectionPort).    *)
EXTENDS Naturals, Sequences, SequencesExt, FiniteSets

CONSTANTS
    GraphLots,      \* lots; one wafer, run, alarm, inspection and incident each
    MaxEvents       \* bound: events and prunes

ASSUME GraphAssumption == "none" \notin GraphLots /\ MaxEvents \in Nat

VARIABLES
    memory,         \* InMemoryGraphProjection
    tables,         \* fabops_rca_nodes and fabops_rca_edges
    statements,     \* what the worker still has to write
    writing,        \* the event they are of, or the lots of a prune
    torn,           \* history: lots a prune cut short left in the tables, until one
                    \* that runs to its end takes them
    events          \* events projected and prunes so far

graphVars == <<memory, tables, statements, writing, torn, events>>

-----------------------------------------------------------------------------
(* _project_event: the statements of an event, in their order.               *)
NoLot == "none"

NodeOf(kind, id, lot) == [op |-> "node", key |-> <<kind, id>>, lot |-> lot]
EdgeOf(source, relation, target) == [op |-> "edge", edge |-> <<source, relation, target>>]

AtLot(l) == <<NodeOf("Lot", l, l)>>

AtChamber ==
    <<NodeOf("Equipment", "ETCH-01", NoLot), NodeOf("Chamber", "ETCH-01-A", NoLot),
      EdgeOf(<<"Equipment", "ETCH-01">>, "HAS_CHAMBER", <<"Chamber", "ETCH-01-A">>)>>

ProjectedEvent ==
    [type: {"released", "started", "measured", "alarm", "inspected", "incident"}, lot: GraphLots]
        \cup {[type |-> "maintained", lot |-> NoLot]}

ProjectEvent(e) ==
    LET l == e.lot
    IN  CASE e.type = "released" ->
                AtLot(l) \o <<NodeOf("Product", "PF-A", NoLot),
                              EdgeOf(<<"Lot", l>>, "OF_PRODUCT", <<"Product", "PF-A">>),
                              NodeOf("Wafer", l, l), EdgeOf(<<"Lot", l>>, "CONTAINS", <<"Wafer", l>>)>>
          [] e.type = "started" ->
                AtLot(l) \o AtChamber
                    \o <<NodeOf("ProcessRun", l, l), NodeOf("Recipe", "v2", NoLot),
                         EdgeOf(<<"Lot", l>>, "EXECUTED", <<"ProcessRun", l>>),
                         EdgeOf(<<"ProcessRun", l>>, "USED_CHAMBER", <<"Chamber", "ETCH-01-A">>),
                         EdgeOf(<<"ProcessRun", l>>, "USED_RECIPE", <<"Recipe", "v2">>)>>
          [] e.type = "measured" ->
                AtLot(l) \o AtChamber
                    \o <<NodeOf("Measurement", l, l),
                         EdgeOf(<<"ProcessRun", l>>, "PRODUCED", <<"Measurement", l>>)>>
          [] e.type = "alarm" ->
                AtLot(l) \o AtChamber
                    \o <<NodeOf("Alarm", l, l),
                         EdgeOf(<<"Equipment", "ETCH-01">>, "EMITTED", <<"Alarm", l>>)>>
          [] e.type = "maintained" ->
                AtChamber \o <<NodeOf("Maintenance", "m", NoLot),
                               EdgeOf(<<"Equipment", "ETCH-01">>, "HAS_MAINTENANCE", <<"Maintenance", "m">>)>>
          [] e.type = "inspected" ->
                AtLot(l) \o <<NodeOf("Inspection", l, l),
                              EdgeOf(<<"Wafer", l>>, "HAS_INSPECTION", <<"Inspection", l>>)>>
          [] e.type = "incident" -> AtLot(l) \o <<NodeOf("DataQualityIncident", l, l)>>

-----------------------------------------------------------------------------
(* The in-memory store. nodes maps a key to its lot; an index holds the pairs *)
(* of a bucket and a member, so that an empty bucket is none.                *)
Empty == [nodes |-> <<>>, kinds |-> {}, lots |-> {}, edges |-> {}, outgoing |-> {}, incoming |-> {}]

With(f, key, value) == [k \in DOMAIN f \cup {key} |-> IF k = key THEN value ELSE f[k]]

\* upsert_node: a lot the properties do not name stays what it was.
UpsertNode(m, key, lot) ==
    LET old == IF key \in DOMAIN m.nodes THEN m.nodes[key] ELSE NoLot
        merged == IF lot = NoLot THEN old ELSE lot
    IN  [m EXCEPT !.nodes = With(@, key, merged),
                  !.kinds = @ \cup {<<key[1], key>>},
                  !.lots = (@ \ (IF old # merged THEN {<<old, key>>} ELSE {}))
                            \cup (IF merged # NoLot THEN {<<merged, key>>} ELSE {})]

UpsertEdge(m, edge) ==
    [m EXCEPT !.edges = @ \cup {edge}, !.outgoing = @ \cup {<<edge[1], edge>>},
              !.incoming = @ \cup {<<edge[3], edge>>}]

Upsert(m, s) == IF s.op = "node" THEN UpsertNode(m, s.key, s.lot) ELSE UpsertEdge(m, s.edge)

Without(f, keys) == [k \in DOMAIN f \ keys |-> f[k]]

\* Mutant: the pruned nodes' buckets go, and no other bucket is touched.
PruneOwnBuckets(m, keep) ==
    LET gone == {k \in DOMAIN m.nodes : m.nodes[k] \notin keep \cup {NoLot}}
        cut == {x[2] : x \in {y \in m.outgoing \cup m.incoming : y[1] \in gone}}
    IN  [nodes |-> Without(m.nodes, gone),
         kinds |-> {x \in m.kinds : x[2] \notin gone},
         lots |-> {x \in m.lots : x[2] \notin gone},
         edges |-> m.edges \ cut,
         outgoing |-> {x \in m.outgoing : x[1] \notin gone},
         incoming |-> {x \in m.incoming : x[1] \notin gone}]

\* prune_to_lots: the nodes of other lots go, with the edges their buckets hold.
PruneMemory(m, keep) ==
    LET gone == {k \in DOMAIN m.nodes : m.nodes[k] \notin keep \cup {NoLot}}
        cut == {x[2] : x \in {y \in m.outgoing \cup m.incoming : y[1] \in gone}}
    IN  [nodes |-> Without(m.nodes, gone),
         kinds |-> {x \in m.kinds : x[2] \notin gone},
         lots |-> {x \in m.lots : x[2] \notin gone},
         edges |-> m.edges \ cut,
         outgoing |-> {x \in m.outgoing : x[2] \notin cut},
         incoming |-> {x \in m.incoming : x[2] \notin cut}]

-----------------------------------------------------------------------------
(* The tables.                                                               *)
NoTables == [nodes |-> <<>>, edges |-> {}]

\* ON CONFLICT: lot_id is only replaced by one that is not null.
WriteNode(t, key, lot) ==
    [t EXCEPT !.nodes = With(@, key, IF lot = NoLot /\ key \in DOMAIN @ THEN @[key] ELSE lot)]

Foreign(t, keep) == {k \in DOMAIN t.nodes : t.nodes[k] \notin keep \cup {NoLot}}

\* The two statements of prune_to_lots.
PruneEdges(t, keep) ==
    [t EXCEPT !.edges = {x \in @ : {x[1], x[3]} \cap Foreign(t, keep) = {}}]

PruneNodes(t, keep) == [t EXCEPT !.nodes = Without(@, Foreign(t, keep))]

Write(t, s) ==
    CASE s.op = "node" -> WriteNode(t, s.key, s.lot)
      [] s.op = "edge" -> [t EXCEPT !.edges = @ \cup {s.edge}]
      [] s.op = "prune edges" -> PruneEdges(t, s.keep)
      [] s.op = "prune nodes" -> PruneNodes(t, s.keep)

PruneStatements(keep) == <<[op |-> "prune edges", keep |-> keep], [op |-> "prune nodes", keep |-> keep]>>

-----------------------------------------------------------------------------
Nothing == [type |-> "nothing", lot |-> NoLot]
Pruning == [type |-> "prune", lot |-> NoLot]

GraphInit ==
    /\ memory = Empty /\ tables = NoTables
    /\ statements = <<>> /\ writing = Nothing
    /\ torn = {} /\ events = 0

\* project_stored, of any event and in any order: a batch may be projected again,
\* and an event of a lot may come after the lot was pruned.
BeginEvent(e) ==
    /\ statements = <<>> /\ events < MaxEvents
    /\ memory' = FoldLeft(Upsert, memory, ProjectEvent(e))
    /\ statements' = ProjectEvent(e) /\ writing' = e
    /\ events' = events + 1
    /\ UNCHANGED <<tables, torn>>

\* prune_to_lots of the recent lots; there is one, since something was projected.
BeginPrune(keep) ==
    /\ statements = <<>> /\ events < MaxEvents
    /\ memory' = PruneMemory(memory, keep)
    /\ statements' = PruneStatements(keep) /\ writing' = Pruning
    /\ events' = events + 1
    /\ UNCHANGED <<tables, torn>>

WriteStatement ==
    /\ statements # <<>>
    /\ tables' = Write(tables, Head(statements))
    /\ torn' = IF Head(statements).op = "prune nodes" THEN torn \cap Head(statements).keep ELSE torn
    /\ statements' = Tail(statements)
    /\ UNCHANGED <<memory, writing, events>>

\* The worker dies in the middle of an event: its checkpoint is before it, and the
\* restarted worker projects it again.
DieInEvent ==
    /\ statements # <<>> /\ writing # Pruning
    /\ statements' = ProjectEvent(writing)
    /\ UNCHANGED <<memory, tables, writing, torn, events>>

\* The worker dies before a prune or between its two statements, which are two
\* transactions: nothing repeats it, for the batch before it has its checkpoint and a
\* prune only comes after another one, with the lots that are recent by then.
DieInPrune ==
    /\ statements # <<>> /\ writing = Pruning
    /\ torn' = torn \cup {tables.nodes[k] : k \in Foreign(tables, Head(statements).keep)}
    /\ statements' = <<>>
    /\ UNCHANGED <<memory, tables, writing, events>>

GraphNext ==
    \/ \E e \in ProjectedEvent : BeginEvent(e)
    \/ \E keep \in SUBSET GraphLots \ {{}} : BeginPrune(keep)
    \/ WriteStatement \/ DieInEvent \/ DieInPrune

-----------------------------------------------------------------------------
(* The queries of GraphProjectionPort: in memory they go by the indexes.     *)
Bucket(index, key) == {x[2] : x \in {y \in index : y[1] = key}}

MemoryNode(key) == IF key \in DOMAIN memory.nodes THEN {memory.nodes[key]} ELSE {}
MemoryNodes(kind) == Bucket(memory.kinds, kind)
MemoryNodesForLot(kind, l) == {k \in Bucket(memory.lots, l) : k[1] = kind}
MemoryOutgoing(key) == Bucket(memory.outgoing, key)
MemoryIncoming(key) == Bucket(memory.incoming, key)

TableNode(key) == IF key \in DOMAIN tables.nodes THEN {tables.nodes[key]} ELSE {}
TableNodes(kind) == {k \in DOMAIN tables.nodes : k[1] = kind}
TableNodesForLot(kind, l) == {k \in TableNodes(kind) : tables.nodes[k] = l}
TableOutgoing(key) == {x \in tables.edges : x[1] = key}
TableIncoming(key) == {x \in tables.edges : x[3] = key}

\* What can be asked about: the ends of every edge, though an edge may be of a node
\* that comes later or was pruned.
AskedKeys ==
    DOMAIN memory.nodes \cup DOMAIN tables.nodes
        \cup UNION {{x[1], x[3]} : x \in memory.edges \cup tables.edges}

-----------------------------------------------------------------------------
GraphTypeOK ==
    /\ \A k \in DOMAIN memory.nodes : memory.nodes[k] \in GraphLots \cup {NoLot}
    /\ \A k \in DOMAIN tables.nodes : tables.nodes[k] \in GraphLots \cup {NoLot}
    /\ \A s \in Range(statements) : s.op \in {"node", "edge", "prune edges", "prune nodes"}
    /\ writing \in ProjectedEvent \cup {Nothing, Pruning}
    /\ torn \subseteq GraphLots
    /\ events \in 0..MaxEvents

\* What the tables hold of the lots a prune left.
Left == {k \in DOMAIN tables.nodes : tables.nodes[k] \in torn}
LeftEdges == {x \in tables.edges : {x[1], x[3]} \cap Left # {}}

AlikeBut(answer, answered, left) == answer \subseteq answered /\ answered \subseteq answer \cup left

\* Between events both stores give the same answer to every query, wherever in an
\* event the writer died, whatever was projected twice or after its lot was pruned, and
\* although an edge leaves the buckets of nodes that stay; where it died in a prune,
\* the tables hold in addition what that prune left and no later one took, and
\* nothing else (graph.py:77-136, postgres/graph.py:101-225).
StoresAgree ==
    statements = <<>> =>
        /\ AlikeBut(memory.edges, tables.edges, LeftEdges)
        /\ \A key \in AskedKeys :
              /\ MemoryNode(key) = TableNode(key) \/ (MemoryNode(key) = {} /\ key \in Left)
              /\ AlikeBut(MemoryNodes(key[1]), TableNodes(key[1]), Left)
              /\ \A l \in GraphLots \ torn : MemoryNodesForLot(key[1], l) = TableNodesForLot(key[1], l)
              /\ AlikeBut(MemoryOutgoing(key), TableOutgoing(key), LeftEdges)
              /\ AlikeBut(MemoryIncoming(key), TableIncoming(key), LeftEdges)
=============================================================================
