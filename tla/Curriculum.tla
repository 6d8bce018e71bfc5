----------------------------- MODULE Curriculum -----------------------------
(***************************************************************************)
(* The knowledge graph (pkg/knowledge): what a curriculum file must be to  *)
(* be loaded, and what the graph answers.  An edge points to the more      *)
(* foundational concept.  Concept ids are numbers, so that they are        *)
(* ordered; a strength is a number above 0; rationales and titles are left *)
(* out.  The algorithms are the code's, breadth first by layers and depth  *)
(* first by colours, as recursive functions over the edges E; what they    *)
(* should compute is stated by relations, below.                           *)
(***************************************************************************)
EXTENDS Integers, FiniteSets, SequencesExt

CONSTANTS
    ConceptIds,   \* ids a file or a resource may name
    MaxStrength

ASSUME CurriculumConstants ==
    /\ ConceptIds \subseteq Nat
    /\ MaxStrength \in Nat \ {0}

EdgeKind == {"requires", "deepens", "continues", "alternative"}
CycleCheckedKinds == <<"requires", "deepens", "continues">>
AllKinds == CycleCheckedKinds \o <<"alternative">>
MaxTraversalDepth == 4

Edge == [from : ConceptIds, to : ConceptIds, kind : EdgeKind, strength : 1..MaxStrength]

-----------------------------------------------------------------------------
(* Adjacency and order.                                                     *)

\* The elements of S in the order "less", which is total on them.
Ordered(S, less) ==
    [i \in 1..Cardinality(S) |->
       CHOOSE x \in S : Cardinality({y \in S : <<y, x>> \in less}) = i - 1]

\* Edges alike but for the kind keep the order of the kinds: the sort is stable.
KindRank(kind) == CHOOSE k \in DOMAIN AllKinds : AllKinds[k] = kind

\* sortEdges: strongest first, then by the ends.
EdgeIsBefore(e, f) ==
    \/ e.strength > f.strength
    \/ e.strength = f.strength /\ e.to < f.to
    \/ e.strength = f.strength /\ e.to = f.to /\ e.from < f.from
    \/ /\ e.strength = f.strength /\ e.to = f.to /\ e.from = f.from
       /\ KindRank(e.kind) < KindRank(f.kind)

SortEdges(S) == Ordered(S, {p \in S \X S : EdgeIsBefore(p[1], p[2])})

\* sortRelations: nearest first, then strongest, then by the peer, which no
\* two of them share.
RelationIsBefore(r, s) ==
    \/ r.depth < s.depth
    \/ r.depth = s.depth /\ r.strength > s.strength
    \/ r.depth = s.depth /\ r.strength = s.strength /\ r.peer < s.peer

SortRelations(rels) ==
    Ordered(ToSet(rels), {p \in ToSet(rels) \X ToSet(rels) : RelationIsBefore(p[1], p[2])})

Turned(e) == [e EXCEPT !.from = e.to, !.to = e.from]

Near(e, outgoing) == IF outgoing THEN e.from ELSE e.to
Peer(e, outgoing) == IF outgoing THEN e.to ELSE e.from

\* incidentEdges: an alternative counts from either end.
Incident(E, id, kind, outgoing) ==
    SortEdges({e \in E : e.kind = kind /\ Near(e, outgoing) = id}
                \cup {Turned(e) : e \in {f \in E : /\ f.kind = "alternative"
                                                   /\ f.kind = kind
                                                   /\ Peer(f, outgoing) = id}})

Out(E, kind, id) == SortEdges({e \in E : e.kind = kind /\ e.from = id})

-----------------------------------------------------------------------------
(* Traversals.  Options are [depth, kinds, min, limit]; 0 and <<>> are the  *)
(* zero values.                                                             *)

NoOptions == [depth |-> 0, kinds |-> <<>>, min |-> 0, limit |-> 0]

Depth(opts, default) == IF opts.depth > 0 THEN opts.depth ELSE default
Kinds(opts, default) == IF opts.kinds = <<>> THEN default ELSE opts.kinds

IsFull(out, opts) == opts.limit > 0 /\ Len(out) >= opts.limit

\* Mutant of Hits: only the first kind asked for is followed.
HitsOfFirst(E, id, kinds, outgoing) == Incident(E, id, kinds[1], outgoing)

\* The edges of one concept in the order in which traverse looks at them.
Hits(E, id, kinds, outgoing) ==
    FlattenSeq([k \in DOMAIN kinds |-> Incident(E, id, kinds[k], outgoing)])

\* One edge: its peer is taken if it is new and there is room.  The peers are
\* concepts of the graph, for LoadFile refuses an edge to any other.
Take(walk, e, depth, opts, outgoing) ==
    LET peer == Peer(e, outgoing) IN
    IF \/ IsFull(walk.out, opts)
       \/ e.strength < opts.min
       \/ peer \in walk.seen
      THEN walk
      ELSE [out   |-> Append(walk.out, [kind |-> e.kind, strength |-> e.strength,
                                        peer |-> peer, depth |-> depth]),
            seen  |-> walk.seen \cup {peer},
            layer |-> Append(walk.layer, peer)]

\* One layer: the edges of its concepts in turn.
Expand(E, kinds, opts, outgoing, walk, depth) ==
    FoldLeft(LAMBDA w, e : Take(w, e, depth, opts, outgoing),
             [walk EXCEPT !.layer = <<>>],
             FlattenSeq([i \in DOMAIN walk.layer |-> Hits(E, walk.layer[i], kinds, outgoing)]))

Walk(E, kinds, opts, outgoing, id, depth) ==
    LET walked[d \in 0..depth] ==
          IF d = 0 THEN [out |-> <<>>, seen |-> {}, layer |-> <<id>>]
                   ELSE Expand(E, kinds, opts, outgoing, walked[d - 1], d)
    IN walked[depth]

\* traverse: layer by layer, which is what its queue amounts to.
Traverse(E, id, opts, outgoing, defaultKinds) ==
    SortRelations(Walk(E, Kinds(opts, defaultKinds), opts, outgoing, id, Depth(opts, 1)).out)

Prerequisites(E, id, opts) == Traverse(E, id, opts, TRUE, <<"requires">>)
Dependents(E, id, opts) == Traverse(E, id, opts, FALSE, <<"requires">>)
Neighbors(E, id, opts) == Traverse(E, id, opts, TRUE, AllKinds)

-----------------------------------------------------------------------------
(* Paths.                                                                   *)

NoPath == <<>>

\* The paths one step longer, in the order in which Path looks at them.
Longer(E, kinds, min, path) ==
    LET next == SortEdges({e \in E : /\ e.kind \in ToSet(kinds)
                                     /\ e.from = Last(path)
                                     /\ e.strength >= min})
    IN [i \in DOMAIN next |-> Append(path, next[i].to)]

\* One step of Path's search: a concept is entered by the first path to it.
Enter(search, path) ==
    IF Last(path) \in search.visited THEN search
    ELSE [visited |-> search.visited \cup {Last(path)},
          layer   |-> Append(search.layer, path),
          found   |-> Append(search.found, path)]

EnterLayer(E, kinds, min, search) ==
    FoldLeft(Enter, [search EXCEPT !.layer = <<>>],
             FlattenSeq([i \in DOMAIN search.layer |-> Longer(E, kinds, min, search.layer[i])]))

Search(E, kinds, min, from, depth) ==
    LET searched[d \in 0..depth] ==
          IF d = 0 THEN [visited |-> {from}, layer |-> << <<from>> >>, found |-> <<>>]
                   ELSE EnterLayer(E, kinds, min, searched[d - 1])
    IN searched[depth]

\* Mutant of StudyOrder: the path is left as it was walked.
StudyOrderAsWalked(path) == path

StudyOrder(path) == Reverse(path)

\* Path walks from "from" towards foundations and answers in study order.
Path(E, from, to, opts) ==
    LET found == Search(E, Kinds(opts, CycleCheckedKinds), opts.min, from,
                        Depth(opts, MaxTraversalDepth)).found
        hits == {i \in DOMAIN found : Last(found[i]) = to}
    IN IF from = to THEN <<from>>
       ELSE IF hits = {} THEN NoPath ELSE StudyOrder(found[Min(hits)])

-----------------------------------------------------------------------------
(* Cycles.                                                                  *)

\* The cycle found at the edge u -> v: back from u to v by the parents.
Unwound(parent, u, v) ==
    LET back[k \in 0..Cardinality(DOMAIN parent)] ==
          IF k = 0 THEN <<u, v>>
          ELSE IF Head(back[k - 1]) = v THEN back[k - 1]
               ELSE <<parent[Head(back[k - 1])]>> \o back[k - 1]
    IN back[Cardinality(DOMAIN parent)]

\* Mutant of Entered: a concept is finished as soon as it is entered.
EnteredAsFinished(dfs, u) == [dfs EXCEPT !.color[u] = "black"]

Entered(dfs, u) == [dfs EXCEPT !.color[u] = "gray"]

DfsState(concepts) ==
    [color  : [concepts -> {"white", "gray", "black"}],
     parent : [concepts -> concepts],
     cycle  : Seq(concepts)]

\* An edge from u, which is gray, to v; "visit" is the search below.
Look(visit, dfs, u, v) ==
    IF dfs.cycle # <<>> \/ dfs.color[v] = "black" THEN dfs
    ELSE IF dfs.color[v] = "white" THEN visit[<<v, [dfs EXCEPT !.parent[v] = u]>>]
    ELSE [dfs EXCEPT !.cycle = Unwound(dfs.parent, u, v)]

\* The search from u.
Visit(E, kind, visit, u, dfs) ==
    LET done == FoldLeft(LAMBDA d, e : Look(visit, d, u, e.to), Entered(dfs, u), Out(E, kind, u))
    IN IF done.cycle # <<>> THEN done ELSE [done EXCEPT !.color[u] = "black"]

\* The search through n concepts that are new.
Visits(E, concepts, kind, n) ==
    LET visits[k \in 0..n] ==
          [call \in concepts \X DfsState(concepts) |->
             IF k = 0 THEN call[2] ELSE Visit(E, kind, visits[k - 1], call[1], call[2])]
    IN visits[n]

\* findCycle: depth first from every concept in turn, until the first cycle.
FindCycle(E, concepts, kind) ==
    LET visit == Visits(E, concepts, kind, Cardinality(concepts))
        start == [color  |-> [c \in concepts |-> "white"],
                  parent |-> [c \in concepts |-> c],
                  cycle  |-> <<>>]
    IN FoldLeft(LAMBDA d, u : IF d.cycle # <<>> \/ d.color[u] # "white" THEN d ELSE visit[<<u, d>>],
                start, Ordered(concepts, {p \in concepts \X concepts : p[1] < p[2]})).cycle

-----------------------------------------------------------------------------
(* Loading.                                                                 *)

\* Two edges LoadFile takes for the same one.
SameEdge(e, f) ==
    /\ e.kind = f.kind
    /\ \/ e.from = f.from /\ e.to = f.to
       \/ e.kind = "alternative" /\ e.from = f.to /\ e.to = f.from

\* LoadFile accepts the edges E over the concepts of the file.
Loads(E, concepts) ==
    /\ \A e \in E : e.from \in concepts /\ e.to \in concepts /\ e.from # e.to
    /\ \A e, f \in E : SameEdge(e, f) => e = f
    /\ \A k \in DOMAIN CycleCheckedKinds : FindCycle(E, concepts, CycleCheckedKinds[k]) = <<>>

-----------------------------------------------------------------------------
(* What the answers should be, by relations.                                *)

\* The pairs that one step of a traversal joins.
Steps(E, kinds, min, outgoing) ==
    {<<Near(e, outgoing), Peer(e, outgoing)>> :
       e \in {f \in E : f.kind \in kinds /\ f.strength >= min}}
    \cup {<<Peer(e, outgoing), Near(e, outgoing)>> :
       e \in {f \in E : f.kind = "alternative" /\ f.kind \in kinds /\ f.strength >= min}}

\* What n steps lead to.
After(R, id, n) ==
    LET reached[k \in 0..n] ==
          IF k = 0 THEN {id} ELSE {r[2] : r \in {s \in R : s[1] \in reached[k - 1]}}
    IN reached[n]

Within(R, id, n) == UNION {After(R, id, k) : k \in 1..n}

IsAtDepth(R, id, peer, n) == peer \in After(R, id, n) /\ peer \notin Within(R, id, n - 1)

\* A traversal answers what is within reach, each at its distance, or the
\* nearest of it if there is a limit.
IsTraversal(rels, R, id, opts) ==
    /\ \A i \in DOMAIN rels : IsAtDepth(R, id, rels[i].peer, rels[i].depth)
    /\ \A i, j \in DOMAIN rels : i < j => /\ rels[i].peer # rels[j].peer
                                          /\ rels[i].depth <= rels[j].depth
    /\ LET peers == {rels[i].peer : i \in DOMAIN rels}
           all == Within(R, id, Depth(opts, 1)) IN
       \/ peers = all
       \/ /\ IsFull(rels, opts) /\ Len(rels) = opts.limit
          /\ \A i \in DOMAIN rels : Within(R, id, rels[i].depth - 1) \subseteq peers

\* A study path: every concept rests on the one before it, and none is shorter.
IsStudyPath(path, R, from, to) ==
    /\ path[1] = to /\ path[Len(path)] = from
    /\ \A i \in 1..(Len(path) - 1) : <<path[i + 1], path[i]>> \in R
    /\ \A n \in 1..(Len(path) - 2) : to \notin After(R, from, n)

=============================================================================
