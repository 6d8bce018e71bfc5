------------------------------- MODULE Tutor -------------------------------
(***************************************************************************)
(* What the router knows of its students and tells them: the concepts they *)
(* visited, the subtopics they opened and their preference profile, the    *)
(* handlers that record them (internal/routerserver/server.go), and what   *)
(* is told from them: orientation before a node, a route between concepts  *)
(* and the progress through a node's tree of subtopics.                    *)
(*                                                                         *)
(* The curriculum is loaded once, at the start.  An orientation reads the  *)
(* visits one by one, without a lock, while other requests record more.    *)
(* Who a caller is belongs to Requests; how the stores reach the disk, to  *)
(* SnapshotStore; which nodes there are, to Catalog.  A handler writes its *)
(* stores in one step here: no answer reads two of them.                   *)
(***************************************************************************)
EXTENDS Curriculum, TeachingNode

CONSTANTS
    Concepts,       \* the concepts of the curriculum file
    Nodes,          \* teaching nodes
    Interactive,    \* those with a seed in the registry's directory
    Refs,           \* the concepts a node declares
    Cases,          \* what the process may start from: files and environment,
                    \* [edges, seed : [Interactive -> a teaching node], a11y]
    Strict,         \* AVLP_KNOWLEDGE_STRICT
    Subtopics,      \* subtopic ids
    OrbitDelta,     \* preference delta of a subtopic
    Variants, Formats,
    ClientDeltas,   \* deltas a client may send; the empty one is none
    VeDims, VeMax,  \* a profile is VeDims numbers from 0 to VeMax
    DefaultVe,
    Students, Askers

ASSUME TutorConstants ==
    /\ Concepts \subseteq ConceptIds /\ IsFiniteSet(Concepts)
    /\ Interactive \subseteq Nodes
    /\ Refs \in [Nodes -> SUBSET ConceptIds]
    /\ VeDims \in Nat \ {0} /\ VeMax \in Nat
    /\ DefaultVe \in [1..VeDims -> 0..VeMax]
    /\ OrbitDelta \in [Subtopics -> Seq(Int)]
    /\ ClientDeltas \subseteq Seq(Int)

\* What a file may hold: edges, trees, and deltas and vectors that are sequences
\* of numbers, of any length.
ASSUME TutorCases ==
    \A f \in Cases :
      /\ f.edges \subseteq Edge /\ IsFiniteSet(f.edges)
      /\ \A n \in Interactive :
           LET seed == f.seed[n] IN
           /\ seed.tree # NoTree => IsTree(seed.tree)
           /\ \A o \in ToSet(seed.schema.options) : o.delta \in Seq(Int)
           /\ \A b \in ContentButtons(seed) : b.delta \in Seq(Int)

VARIABLES
    file,        \* the files on disk, and AVLP_REQUIRE_MEDIA_A11Y
    graph,       \* the graph loaded: {} until then
    stage,       \* "starting", "serving", or "stopped" by log.Fatalf
    registered,  \* nodes in the registry
    indexed,     \* curated nodes of the vector index
    visits,      \* ConceptVisitStore
    opened,      \* InteractionStore.seen
    profile,     \* ProfileStore
    ask          \* requests for an orientation or a route, under way or answered

stores == <<visits, opened, profile>>
loaded == <<file, graph, stage, registered, indexed>>
vars == <<loaded, stores, ask>>

Idle == [phase |-> "idle"]

-----------------------------------------------------------------------------
(* Start: the registry (unless AVLP_INTERACTIVE_NODES disables it), the     *)
(* index, the curriculum and its bindings.                                  *)

TypeOK ==
    /\ file \in Cases
    /\ graph \subseteq Edge
    /\ stage \in {"starting", "serving", "stopped"}
    /\ registered \subseteq Interactive
    /\ indexed \subseteq Nodes
    /\ visits \in [Students -> SUBSET ConceptIds]
    /\ opened \in [Students \X Nodes -> SUBSET Subtopics]
    /\ profile \in [Students -> [1..VeDims -> 0..VeMax]]
    /\ \A a \in Askers : ask[a].phase \in {"idle", "asking", "told", "route"}

Init ==
    /\ file \in Cases
    /\ graph = {}
    /\ stage = "starting"
    /\ registered = {}
    /\ indexed = Nodes \ Interactive
    /\ visits = [s \in Students |-> {}]
    /\ opened = [k \in Students \X Nodes |-> {}]
    /\ profile = [s \in Students |-> DefaultVe]
    /\ ask = [a \in Askers |-> Idle]

\* Put refuses a node that is not valid, and LoadDir then gives up: the nodes
\* before it stay registered, and none is indexed.
LoadsNodes ==
    LET taken == {n \in Interactive : MayBePut(file.seed[n], file.a11y)} IN
    /\ stage = "starting" /\ registered = {}
    /\ IF taken = Interactive
         THEN /\ registered' = Interactive
              /\ indexed' = indexed \cup Interactive
         ELSE /\ registered' \in SUBSET taken
              /\ UNCHANGED indexed
    /\ UNCHANGED <<file, graph, stage, stores, ask>>

\* The resources that teach a concept, by the binder.
ResourcesFor(c) == {n \in registered \cup indexed : c \in Refs[n]}

MissingConceptRefs == UNION {Refs[n] : n \in registered \cup indexed} \ Concepts

\* ApplyBindingWarnings: warnings are errors in strict mode.
Binds == Strict => (\A c \in Concepts : ResourcesFor(c) # {}) /\ MissingConceptRefs = {}

LoadsGraph ==
    /\ stage = "starting"
    /\ IF Loads(file.edges, Concepts) /\ Binds
         THEN graph' = file.edges /\ stage' = "serving"
         ELSE graph' = {} /\ stage' = "stopped"
    /\ UNCHANGED <<file, registered, indexed, stores, ask>>

-----------------------------------------------------------------------------
(* What the handlers record.                                                *)

\* RecordConcepts; a ref to an unknown concept is recorded like any other.
Visited(s, refs) == visits' = [visits EXCEPT ![s] = @ \cup refs]

HasVisited(s, c) == c \in visits[s]

\* Mutant of Clamp: only the lower end.
ClampBelow(x) == IF x < 0 THEN 0 ELSE x

Clamp(x) == IF x < 0 THEN 0 ELSE IF x > VeMax THEN VeMax ELSE x

\* Mutant of Applied: a delta of another length is cut or filled, as the page
\* does for the estimate it shows.
AppliedCut(ve, delta) ==
    [i \in 1..VeDims |-> Clamp(ve[i] + IF i <= Len(delta) THEN delta[i] ELSE 0)]

\* ApplyDelta, by ProfileStore.Apply: a delta of another length is refused.
Applied(ve, delta) ==
    IF Len(delta) = VeDims THEN [i \in 1..VeDims |-> Clamp(ve[i] + delta[i])] ELSE ve

Learns(s, delta) ==
    profile' = IF delta = <<>> THEN profile ELSE [profile EXCEPT ![s] = Applied(@, delta)]

\* A query of the student is answered with node n.
QueryMatches(s, n) ==
    /\ stage = "serving"
    /\ n \in indexed
    /\ Visited(s, Refs[n])
    /\ UNCHANGED <<loaded, opened, profile, ask>>

RecordBotonera(s, n, v, f, client) ==
    /\ stage = "serving"
    /\ n \in registered
    /\ HasVariant(file.seed[n], v, f)
    /\ Learns(s, BotoneraDelta(file.seed[n], v, client))
    /\ Visited(s, Refs[n])
    /\ UNCHANGED <<loaded, opened, ask>>

Opened(ids, id) == ids \cup {id}

\* ResolveSubtopicDelta.
SubtopicDelta(id, client) == IF client # <<>> THEN client ELSE OrbitDelta[id]

RecordSubtopic(s, n, id, client) ==
    /\ stage = "serving"
    /\ n \in registered
    /\ Finds(file.seed[n].tree, id)
    /\ opened' = [opened EXCEPT ![<<s, n>>] = Opened(@, id)]
    /\ Learns(s, SubtopicDelta(id, client))
    /\ Visited(s, Refs[n])
    /\ UNCHANGED <<loaded, ask>>

-----------------------------------------------------------------------------
(* What they tell.                                                          *)

Requires(c) ==
    LET rels == Prerequisites(graph, c, NoOptions)
    IN {rels[i].peer : i \in DOMAIN rels}

\* The gaps before node n, as of now.
Gaps(s, n) == (UNION {Requires(c) : c \in Refs[n] \cap Concepts}) \ visits[s]

\* GetNodeOrientation of a node of the registry, or of one of the index that
\* has concepts.
OrientationBegins(a, s, n) ==
    /\ stage = "serving"
    /\ ask[a].phase = "idle"
    /\ n \in registered \/ (n \in indexed /\ Refs[n] # {})
    /\ ask' = [ask EXCEPT ![a] = [phase |-> "asking", student |-> s, node |-> n,
                                  focuses |-> Refs[n], rels |-> {}, gaps |-> {},
                                  before |-> Gaps(s, n)]]
    /\ UNCHANGED <<loaded, stores>>

\* Mutant of Focused: nothing is said of a concept the student has met.
FocusedUnlessMet(s, c) == IF HasVisited(s, c) THEN {} ELSE Requires(c)

Focused(s, c) == Requires(c)

\* Advise of the next concept: its direct prerequisites, none if it is unknown.
AdviseFocuses(a) ==
    /\ ask[a].phase = "asking" /\ ask[a].rels = {}
    /\ \E c \in ask[a].focuses :
         ask' = [ask EXCEPT ![a].focuses = @ \ {c},
                            ![a].rels = IF c \in Concepts THEN Focused(ask[a].student, c) ELSE {}]
    /\ UNCHANGED <<loaded, stores>>

\* HasVisited of one prerequisite.
AdviseChecks(a) ==
    /\ ask[a].phase = "asking"
    /\ \E c \in ask[a].rels :
         ask' = [ask EXCEPT ![a].rels = @ \ {c},
                            ![a].gaps = IF HasVisited(ask[a].student, c) THEN @
                                       ELSE @ \cup {c}]
    /\ UNCHANGED <<loaded, stores>>

OrientationIsTold(a) ==
    /\ ask[a].phase = "asking" /\ ask[a].focuses = {} /\ ask[a].rels = {}
    /\ ask' = [ask EXCEPT ![a].phase = "told"]
    /\ UNCHANGED <<loaded, stores>>

\* The caller gave up: the next traversal fails, and the answer is
\* available=false.
AdviseIsCancelled(a) ==
    /\ ask[a].phase = "asking" /\ ask[a].focuses # {} /\ ask[a].rels = {}
    /\ ask' = [ask EXCEPT ![a] = Idle]
    /\ UNCHANGED <<loaded, stores>>

\* GetSubtopicProgress of the subtopic at place p.
SubtopicProgress(s, n, p) == Progress(file.seed[n].tree, opened[<<s, n>>], p)

\* Advisor.Route, over the graph in memory; with a replica that answers, the
\* reader is GuardedGraph's.  No path is an answer too: an empty one.
Route(from, to) == Path(graph, from, to, NoOptions)

RouteIsAsked(a, from, to) ==
    /\ stage = "serving"
    /\ ask[a].phase = "idle"
    /\ from # to
    /\ ask' = [ask EXCEPT ![a] = [phase |-> "route", from |-> from, to |-> to,
                                  path |-> Route(from, to)]]
    /\ UNCHANGED <<loaded, stores>>

\* The same asker asks again.
Forgets(a) ==
    /\ ask[a].phase \in {"told", "route"}
    /\ ask' = [ask EXCEPT ![a] = Idle]
    /\ UNCHANGED <<loaded, stores>>

-----------------------------------------------------------------------------

Next ==
    \/ LoadsNodes
    \/ LoadsGraph
    \/ \E s \in Students, n \in Nodes :
         \/ QueryMatches(s, n)
         \/ \E v \in Variants, f \in Formats \cup {""}, client \in ClientDeltas :
              RecordBotonera(s, n, v, f, client)
         \/ \E id \in Subtopics, client \in ClientDeltas : RecordSubtopic(s, n, id, client)
         \/ \E a \in Askers : OrientationBegins(a, s, n)
    \/ \E a \in Askers :
         \/ AdviseFocuses(a)
         \/ AdviseChecks(a)
         \/ OrientationIsTold(a)
         \/ AdviseIsCancelled(a)
         \/ Forgets(a)
         \/ \E from, to \in Concepts : RouteIsAsked(a, from, to)

Spec == Init /\ [][Next]_vars

-----------------------------------------------------------------------------
(* Properties.                                                              *)

Opts == {NoOptions, [NoOptions EXCEPT !.depth = 3], [NoOptions EXCEPT !.depth = 3, !.limit = 2],
         [NoOptions EXCEPT !.depth = 2, !.min = 2, !.kinds = <<"requires", "alternative">>]}

\* Whatever file is loaded, and for as long as it is, a traversal answers what
\* is within reach, each concept once and at its distance, and the nearest if
\* there is a limit (graph.go traverse, incidentEdges).
TraversalsReach ==
    [][graph' # graph =>
         \A c \in Concepts, o \in Opts :
           /\ IsTraversal(Neighbors(graph', c, o),
                          Steps(graph', ToSet(Kinds(o, AllKinds)), o.min, TRUE), c, o)
           /\ IsTraversal(Dependents(graph', c, o),
                          Steps(graph', ToSet(Kinds(o, <<"requires">>)), o.min, FALSE), c, o)]_vars

\* A route starts at the concept asked for as foundation, every concept rests
\* on the one before it, and no shorter one exists; without a route there is
\* none within four steps (graph.go Path; knowledge-api/spec.md:29).
RoutesAreStudyPaths ==
    \A a \in Askers : ask[a].phase = "route" =>
      LET R == Steps(graph, ToSet(CycleCheckedKinds), 0, TRUE) IN
      IF ask[a].path = NoPath THEN ask[a].to \notin Within(R, ask[a].from, MaxTraversalDepth)
      ELSE IsStudyPath(ask[a].path, R, ask[a].from, ask[a].to)

\* A student who follows the advice is not sent round in a circle: where a
\* prerequisite is missing, one of those below is missing none itself
\* (load.go:158, graph.go findCycle, advisor.go Advise).
AdviceLeadsSomewhere ==
    \A s \in Students, c \in Concepts :
      Requires(c) \ visits[s] # {} =>
        \E d \in Within(Steps(graph, {"requires"}, 0, TRUE), c, Cardinality(Concepts)) \ visits[s] :
          Requires(d) \subseteq visits[s]

\* An orientation, put together while visits are recorded, names only what was
\* missing when it was asked for, and all that is still missing when it is
\* told.  What it names together need not have been missing together at any one
\* moment in between (advisor.go Advise, AdviseForConcepts).
AdviceIsBracketed ==
    \A a \in Askers : ask[a].phase = "told" =>
      /\ ask[a].gaps \subseteq ask[a].before
      /\ Gaps(ask[a].student, ask[a].node) \subseteq ask[a].gaps

\* For every subtopic of a registered tree, "visited", "partial" and
\* "unvisited" are what the set of opened subtopics below it says, and the
\* totals count each subtopic once (subtopic_progress.go, hierarchy.go Validate).
\* And what the page shows of a subtopic just opened, without asking, is what
\* the router would tell it (interactions.js:97, markSubtopicOpened).
ProgressIsExact ==
    \A s \in Students, n \in registered : stage = "serving" =>
      LET tree == file.seed[n].tree IN
      \A q \in ToSet(PreOrder(tree)) :
        LET ids == {tree.id[r] : r \in ToSet(Below(tree, q))}
            count == SubtopicProgress(s, n, q) IN
        /\ count.total = Cardinality(ids)
        /\ ProgressState(count) =
             CASE ids \subseteq opened[<<s, n>>] -> "visited"
               [] ids \cap opened[<<s, n>>] = {} -> "unvisited"
               [] OTHER                         -> "partial"
        /\ \A p \in ToSet(PreOrder(tree)) :
             Reflected(tree, opened[<<s, n>>], p, q) =
               ProgressState(Progress(tree, opened[<<s, n>>] \cup {tree.id[p]}, q))

\* The vector of a button that is shown, sent where a preference goes (rail.js:28).
IsContent(node, v, delta) ==
    \E c \in ContentButtons(node) : ~ c.asks /\ c.id = v /\ c.delta = delta

\* Whatever the page offers of a registered node is taken when it is touched,
\* and what it teaches, if anything, is a preference of an option of that id or
\* the content vector of a button of that id that is as long as a profile.  Only
\* its length keeps a content vector out (rail.js; preference_lookup.go, profile.go
\* ApplyDelta); nothing checks what a file or a live button carries (mutate.go:80-90,
\* interactive_node.go Validate).
OffersAreTaken ==
    \A s \in Students, n \in registered : stage = "serving" =>
      \A b \in Offers(file.seed[n]) :
        LET seed == file.seed[n]
            delta == BotoneraDelta(seed, b.variant, b.client) IN
        /\ HasVariant(seed, b.variant, b.format)
        /\ \/ Applied(profile[s], delta) = profile[s]
           \/ /\ seed.schema.kind \in PreferenceKind
              /\ \E o \in ToSet(seed.schema.options) : o.id = b.variant /\ o.delta = delta
           \/ Len(delta) = VeDims /\ IsContent(seed, b.variant, delta)

\* False: the vector of a content button is never applied to a profile, as
\* preference_lookup.go:11 and docs/adr/adr-002-espacios-vectoriales.md:22 have it.
\* One of the profile's length is.
ContentNeverTeaches ==
    \A s \in Students, n \in registered : stage = "serving" =>
      \A b \in Offers(file.seed[n]) :
        LET delta == BotoneraDelta(file.seed[n], b.variant, b.client) IN
        IsContent(file.seed[n], b.variant, delta) => Applied(profile[s], delta) = profile[s]

=============================================================================
