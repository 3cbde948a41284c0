-------------------------- MODULE IncidentEpisodes --------------------------
(* services/decision/service.py:219-334, 432-520: the cockpit groups cases   *)
(* of one classification and place into episodes and queues the recent and   *)
(* the severe ones. It is computed anew for every request, from cases that   *)
(* the detector adds and re-scores and the workflow closes meanwhile; an     *)
(* episode is known to its readers by its id alone.                          *)
EXTENDS Integers, FiniteSets, FiniteSetsExt, Functions

CONSTANTS
    Lots,           \* lots, in the order they are released
    Kind,           \* _episode_base_key: classification, equipment and chamber
    Severity,       \* priority_rank of a kind
    MaxScore,       \* bound: anomaly scores, in steps of 0.15
    Gap,            \* continuation_gap_lots, 12
    Span,           \* max_episode_span_lots, 48
    Inactive,       \* resolve_after_inactive_lots, 18
    Recent,         \* episodes taken for being recent or for being severe, 16
    Queue           \* episodes queued at most, 24

ASSUME EpisodesAssumption ==
    /\ {Lots, MaxScore, Gap, Span, Inactive} \subseteq Nat
    /\ {Recent, Queue} \subseteq Nat \ {0} /\ Recent < Queue
    /\ Gap <= Span
    /\ IsFiniteSet(Kind)
    /\ Severity \in [Kind -> 1..3]

EpisodeLot == 1..Lots

VARIABLE
    incidents       \* incidents[k][l]: the case of kind k that lot l has, if any

episodeVars == <<incidents>>

\* A lot may have a case of each kind.
Incident == [score: 0..MaxScore, closed: BOOLEAN]
NoIncident == [score |-> -1, closed |-> FALSE]

EpisodesInit == incidents = [k \in Kind |-> [l \in EpisodeLot |-> NoIncident]]

LotsWith(k) == {l \in EpisodeLot : incidents[k][l] # NoIncident}
LatestLot == Max({0} \cup UNION {LotsWith(k) : k \in Kind})

\* The detector stores the case of the lot it is at, or stores it again with
\* another score; a case that was closed is open again.
Detect(k, l, score) ==
    /\ l >= LatestLot
    /\ incidents' = [incidents EXCEPT ![k][l] = [score |-> score, closed |-> FALSE]]

\* closed, resolved or rejected
CloseIncident(k, l) ==
    /\ l \in LotsWith(k)
    /\ incidents' = [incidents EXCEPT ![k][l].closed = TRUE]

EpisodesNext ==
    \E k \in Kind, l \in EpisodeLot :
        (\E score \in 0..MaxScore : Detect(k, l, score)) \/ CloseIncident(k, l)

-----------------------------------------------------------------------------
(* _incident_episodes.                                                       *)

\* Mutant: the span is measured from the case before.
JoinsAny(l, previous, first) == l - previous <= Gap /\ l - previous <= Span

\* Mutant: the span is measured to the latest lot of all.
JoinsLately(l, previous, first) == l - previous <= Gap /\ LatestLot - first <= Span

\* A case joins the episode of the case before it unless it is too far from that
\* case or from the first of the episode.
Joins(l, previous, first) == l - previous <= Gap /\ l - first <= Span

\* The first lot of the episode each lot with a case of kind k is in.
FirstLot(k) ==
    LET lots == LotsWith(k)
        first[l \in lots] ==
            LET before == {m \in lots : m < l}
            IN  IF before # {} /\ Joins(l, Max(before), first[Max(before)]) THEN first[Max(before)] ELSE l
    IN  first

Score(k, l) == incidents[k][l].score

\* trajectory_delta, twice the difference of the means of the last and first two.
Delta(k, lots) ==
    LET Two(x, y) == Score(k, x) + Score(k, y)
    IN  IF Cardinality(lots) = 1 THEN 0
        ELSE Two(Max(lots), Max(lots \ {Max(lots)})) - Two(Min(lots), Min(lots \ {Min(lots)}))

Status(k, lots) ==
    IF incidents[k][Max(lots)].closed \/ LatestLot - Max(lots) > Inactive THEN "RESOLVED"
    ELSE IF Cardinality(lots) = 1 THEN "NEW"
    ELSE CASE Delta(k, lots) >= 2 -> "ESCALATING"
           [] Delta(k, lots) <= -2 -> "RECOVERING"
           [] OTHER -> "ONGOING"

Episode(k, lots) ==
    [kind |-> k, lots |-> lots, first |-> Min(lots), last |-> Max(lots),
     status |-> Status(k, lots), score |-> Score(k, Max(lots))]

Episodes ==
    UNION {LET first == FirstLot(k)
           IN  {Episode(k, {m \in LotsWith(k) : first[m] = first[l]}) : l \in LotsWith(k)} : k \in Kind}

\* episode_id: a hash of the kind and the first lot
Id(e) == <<e.kind, e.first>>

-----------------------------------------------------------------------------
(* cockpit.                                                                  *)
Active == {e \in Episodes : e.status # "RESOLVED"}

KindOrder == CHOOSE f \in [Kind -> 1..Cardinality(Kind)] : IsInjective(f)

\* The order of sorted, which keeps the order of the episodes where keys are equal.
MoreRecent(e, f) ==
    \/ e.last > f.last
    \/ e.last = f.last /\ KindOrder[e.kind] < KindOrder[f.kind]

MoreSevere(e, f) ==
    \/ Severity[e.kind] > Severity[f.kind]
    \/ Severity[e.kind] = Severity[f.kind] /\ e.score > f.score
    \/ Severity[e.kind] = Severity[f.kind] /\ e.score = f.score /\ MoreRecent(e, f)

\* The first n of a set by each order.
MostRecent(S, n) == {e \in S : Cardinality({f \in S : MoreRecent(f, e)}) < n}
MostSevere(S, n) == {e \in S : Cardinality({f \in S : MoreSevere(f, e)}) < n}

\* Mutant: the severe ones are left out once the recent ones fill their share.
SelectedRecent ==
    LET active == Active
        recent == MostRecent(active, Recent)
    IN  IF Cardinality(recent) = Recent THEN recent
        ELSE recent \cup MostSevere(MostSevere(active, Recent) \ recent, Queue - Recent)

Selected ==
    LET active == Active
        recent == MostRecent(active, Recent)
    IN  recent \cup MostSevere(MostSevere(active, Recent) \ recent,
                               Queue - Cardinality(recent))

-----------------------------------------------------------------------------
EpisodesTypeOK == incidents \in [Kind -> [EpisodeLot -> Incident \cup {NoIncident}]]

\* Every case is in one episode, episodes of one kind do not overlap, none is longer
\* than the span, and no two share an id.
EpisodesPartitionCases ==
    LET all == Episodes
    IN  /\ \A k \in Kind : UNION {e.lots : e \in {x \in all : x.kind = k}} = LotsWith(k)
        /\ \A e, f \in all : e.kind = f.kind /\ e # f => e.last < f.first \/ f.last < e.first
        /\ \A e \in all : e.last - e.first <= Span
        /\ \A e, f \in all : Id(e) = Id(f) => e = f

\* An episode keeps its id and its cases while the detector goes on: what a reader
\* knows by an id only gains cases at its end.
EpisodesAreStable ==
    [][\A k \in Kind : \A l \in LotsWith(k) :
            l \in LotsWith(k)' /\ FirstLot(k)[l] = FirstLot(k)'[l]]_episodeVars

\* The most severe and the most recent open incident are in the queue, however many
\* there are.
WorstIsQueued ==
    LET active == Active
        selected == Selected
    IN  \A e \in active :
            (\A f \in active \ {e} : MoreSevere(e, f)) \/ (\A f \in active \ {e} : MoreRecent(e, f))
                => e \in selected
=============================================================================
