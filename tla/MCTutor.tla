------------------------------ MODULE MCTutor ------------------------------
(***************************************************************************)
(* Instances of Tutor for TLC: curriculum files over six concepts with a   *)
(* fixed seed file, or seed files with a curriculum of one edge.           *)
(***************************************************************************)
EXTENDS Tutor

CONSTANTS n1, n2

Arrow(a, b, k, s) == [from |-> a, to |-> b, kind |-> k, strength |-> s]

\* Four concepts; 4 -> 3 -> 2 -> 1 with a short cut, and arrows that close
\* cycles within a kind, across kinds, or join concepts both ways.
Pool == {Arrow(4, 3, "requires", 1), Arrow(3, 2, "requires", 2), Arrow(4, 2, "requires", 1),
         Arrow(2, 1, "requires", 2), Arrow(1, 3, "requires", 1), Arrow(4, 1, "deepens", 2),
         Arrow(2, 4, "alternative", 2)}

\* A chain longer than Path looks, which is MaxTraversalDepth.
Chain == {Arrow(c + 1, c, IF c = 3 THEN "continues" ELSE "requires", 1) : c \in 1..5}

\* Files that LoadFile refuses for a single edge.
BadEdges == {Arrow(2, 2, "requires", 1), Arrow(3, 2, "requires", 1),
             Arrow(4, 2, "alternative", 1), Arrow(4, 7, "deepens", 1)}

Tree(roots, kids, id) == [roots |-> roots, kids |-> kids, id |-> id, media |-> Places]

Leaf == Tree(<<1>>, [p \in Places |-> <<>>], [p \in Places |-> p])

\* Three places under every parent, with every naming but for the names
\* themselves, and a chain of four.
Namings == {id \in [1..3 -> 1..3] : id[1] = 1 /\ id[2] <= 2 /\ id[3] <= id[2] + 1}
Parents == {f \in [1..3 -> 0..2] : \A p \in 1..3 : f[p] < p}
Under(f, q) == SetToSortSeq({p \in 1..3 : f[p] = q}, <)
Trees ==
    {Tree(Under(f, 0), [p \in Places |-> IF p = 4 THEN <<>> ELSE Under(f, p)],
          [p \in Places |-> IF p = 4 THEN 1 ELSE id[p]]) : f \in Parents, id \in Namings}
      \cup {Tree(<<1>>, [p \in Places |-> IF p = 4 THEN <<>> ELSE <<p + 1>>],
                 [p \in Places |-> p]),
            [Leaf EXCEPT !.media = {}]}

Option(id, delta) == [id |-> id, delta |-> delta, complete |-> TRUE, asks |-> FALSE]
Hasty(o) == [o EXCEPT !.complete = FALSE]
Ask == [Option("ask", <<1>>) EXCEPT !.asks = TRUE]
Grid(kind, options) ==
    [kind |-> kind, options |-> options, depths |-> {}, formats |-> {}, cells |-> <<>>]
Cell(d, f) == [depth |-> d, format |-> f, complete |-> TRUE]
Matrix(depths, cells) ==
    [Grid("combined", <<>>) EXCEPT !.depths = depths, !.formats = {"text", "clip"}, !.cells = cells]
Medium(of, format, url) ==
    [of |-> of, format |-> format, url |-> url, told |-> FALSE, described |-> TRUE]

\* A vector of the content space, which has one dimension more than VeDims.
Vector == <<1, 1>>
Old == Option("old", Vector)
\* And one that is as long as a profile, which nothing refuses.
SameLength == Option("near", <<-1>>)
Core1 == Option("core", <<1>>)

Seed(schema, tree, own, media) ==
    [named |-> TRUE, schema |-> schema, tree |-> tree, own |-> own, media |-> media]

\* Grids of every kind, with too little in them, with ids that are repeated or
\* missing, cells that are off the axes or left out.
Grids ==
    {Grid(k, <<>>) : k \in {"flat", "depth", "cognitive", "mosaic"}}
      \cup {Grid(k, <<Core1>>) : k \in {"depth", "emergency", "mosaic"}}
      \cup {Grid("depth", <<Core1, Option(id, <<>>)>>) : id \in {"core", "express"}}
      \cup {Grid("depth", <<Core1, Hasty(Option("express", <<>>))>>)}
      \cup {Grid("cognitive", <<Option("core", d), Option("core", e)>>) :
               d, e \in {<<>>, <<-1>>, Vector}}
      \cup {Grid("flat", <<Old, Ask>>), Grid("flat", <<SameLength, Old>>)}
      \cup {Matrix({"core", "old"}, cells) :
               cells \in {<<>>, <<Cell("core", "text")>>,
                          <<Cell("core", "text"), Cell("deep", "text")>>}}

Media ==
    {Medium(of, f, u) : of \in {"stage", "option", "button"},
                        f \in {"diagram", "text_hint", ""}, u \in {"clip", "page"}}

Seeds ==
    {Seed(g, NoTree, own, {}) : g \in Grids, own \in {<<>>, <<Ask, Old>>}}
      \cup {Seed(NoSchema, NoTree, own, {}) : own \in {<<>>, <<Ask, Ask>>, <<Hasty(Old)>>,
                                                  <<Old, SameLength>>}}
      \cup {[Seed(NoSchema, Leaf, <<>>, {}) EXCEPT !.named = FALSE]}
      \cup {Seed(NoSchema, NoTree, <<Ask, Old>>, {m}) : m \in Media}

Small(seed, a11y) ==
    [edges |-> {Arrow(4, 3, "requires", 1)}, seed |-> [n \in Interactive |-> seed], a11y |-> a11y]
\* The nodes under a graph have no subtopics: those do not touch its answers.
Curricula(E) == [Small(Seed(NoSchema, NoTree, <<>>, {}), FALSE) EXCEPT !.edges = E]

MCCases ==
    {Curricula(E) : E \in SUBSET Pool \cup {Chain}}
      \cup {Curricula((Pool \ {Arrow(1, 3, "requires", 1)}) \cup {e}) : e \in BadEdges}
      \cup {Small(Seed(NoSchema, t, <<>>, {}), FALSE) : t \in Trees}
      \cup {Small(seed, TRUE) : seed \in Seeds}

MCRefs == [n \in Nodes |-> IF n = n1 THEN {4, 3} ELSE {2, 7}]

MCOrbitDelta == [t \in Subtopics |-> IF t = 1 THEN <<-1>> ELSE <<>>]
MCDefaultVe == <<1>>
MCClientDeltas == {<<>>, <<1>>, <<1, 1>>}

=============================================================================
