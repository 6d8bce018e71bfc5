---------------------------- MODULE VectorIndex ----------------------------
(***************************************************************************)
(* The in-memory vector index (pkg/vector/index.go).                       *)
(*                                                                         *)
(* Nodes are curated or live-generated; live ones are dropped once older   *)
(* than NodeTTL, by whichever operation comes next.  A ring of ULIDs keeps *)
(* two node ids with one ULID apart.  Every operation runs under one mutex *)
(* and purges first; it is given the time t it read.  An embedding is a    *)
(* point and similarity a table.  The insertion order only decides between *)
(* equally similar nodes of one class, which is left open here.            *)
(***************************************************************************)
EXTENDS Integers

CONSTANTS
    Nodes,        \* node ids
    Ulids,
    UlidOf,       \* the ULID segment of a node id (ParseNodeID)
    Points,       \* embeddings of the index's dimension
    Sim,          \* CosineSimilarity
    MaxSim,       \* what it is at most: that of an embedding and itself
    Margin,       \* LivePreferenceMargin
    NodeTTL,      \* AVLP_LIVE_NODE_TTL, in clock ticks
    NoNode        \* no node under this id

ASSUME IndexConstants ==
    /\ UlidOf \in [Nodes -> Ulids]
    /\ Sim \in [Points \X Points -> Int]
    /\ MaxSim \in Nat /\ \A p \in Points \X Points : Sim[p] <= MaxSim
    /\ Margin \in Nat
    /\ NodeTTL \in Nat

VARIABLES nodes, ring

IndexNode == [live : BOOLEAN, created : Nat, point : Points]

ASSUME NoNodeIsNoNode == NoNode \notin IndexNode

IndexTypeOK ==
    /\ nodes \in [Nodes -> IndexNode \cup {NoNode}]
    /\ ring \subseteq Ulids

Curated(point) == [live |-> FALSE, created |-> 0, point |-> point]
Live(point, t) == [live |-> TRUE, created |-> t, point |-> point]

\* What purgeLiveLocked drops: a curated node has no age.
Stale(n, t) ==
    /\ nodes[n] # NoNode
    /\ nodes[n].live
    /\ t - nodes[n].created > NodeTTL

Kept(t) == [n \in Nodes |-> IF Stale(n, t) THEN NoNode ELSE nodes[n]]

\* Mutant of KeptRing: the ULID of a dropped node stays taken.
KeptRingOfAll(t) == ring

KeptRing(t) == ring \ {UlidOf[n] : n \in {m \in Nodes : Stale(m, t)}}

\* Every reader (Len, HasULID, Nodes, Get, Nearest) leaves this behind.
PurgeLive(t) ==
    /\ nodes' = Kept(t)
    /\ ring' = KeptRing(t)

\* Upsert replaces a node in place, and refuses a ULID taken by another id.
CanUpsert(n, t) == Kept(t)[n] # NoNode \/ UlidOf[n] \notin KeptRing(t)

Upsert(n, node, t) ==
    /\ CanUpsert(n, t)
    /\ nodes' = [Kept(t) EXCEPT ![n] = node]
    /\ ring' = IF Kept(t)[n] # NoNode THEN KeptRing(t)
                                      ELSE KeptRing(t) \cup {UlidOf[n]}

Class(live, t) == {n \in Nodes : Kept(t)[n] # NoNode /\ nodes[n].live = live}

Similarity(q, n) == Sim[q, nodes[n].point]

\* Mutant of BeatsCurated: the margin is counted twice.
BeatsCuratedByFar(q, l, c) == Similarity(q, l) > Similarity(q, c) + 2 * Margin

BeatsCurated(q, l, c) == Similarity(q, l) > Similarity(q, c) + Margin

Best(q, live, t) == {n \in Class(live, t) :
                       \A m \in Class(live, t) : Similarity(q, m) <= Similarity(q, n)}

\* Nearest: the best curated node, unless a live one beats it by the margin.
Nearest(q, t) ==
    {l \in Best(q, TRUE, t) : \A c \in Class(FALSE, t) : BeatsCurated(q, l, c)}
      \cup
    {c \in Best(q, FALSE, t) : \A l \in Class(TRUE, t) : ~ BeatsCurated(q, l, c)}

\* The ring holds the ULIDs of the nodes, and no two nodes share one.
RingIsNodes ==
    /\ ring = {UlidOf[n] : n \in {m \in Nodes : nodes[m] # NoNode}}
    /\ \A m, n \in Nodes :
         nodes[m] # NoNode /\ nodes[n] # NoNode /\ UlidOf[m] = UlidOf[n] => m = n

=============================================================================
