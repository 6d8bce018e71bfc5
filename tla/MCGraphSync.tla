---------------------------- MODULE MCGraphSync ----------------------------
(***************************************************************************)
(* Instances of GraphSync for TLC: two valid files that share an edge with *)
(* different strengths, disagree on an edge between concepts of both and   *)
(* on a concept with an edge of its own, and a file with a cycle.          *)
(***************************************************************************)
EXTENDS GraphSync, TLC

MCSymmetry == Permutations(Runs)

Arrow(a, b, k, s) == [from |-> a, to |-> b, kind |-> k, strength |-> s]

MCFiles ==
    {[concepts |-> {1, 2}, edges |-> {Arrow(2, 1, "requires", 1)}],
     [concepts |-> {1, 2, 3},
      edges |-> {Arrow(2, 1, "requires", 2), Arrow(3, 1, "alternative", 1),
                 Arrow(1, 2, "alternative", 1)}],
     [concepts |-> {1, 2}, edges |-> {Arrow(2, 1, "requires", 1), Arrow(1, 2, "requires", 1)}]}

MCHandKeys == {<<2, 1, "requires">>, <<1, 2, "requires">>}

=============================================================================
