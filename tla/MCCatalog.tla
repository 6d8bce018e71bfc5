----------------------------- MODULE MCCatalog -----------------------------
(***************************************************************************)
(* Instances of Catalog for TLC: two hand-written seeds that share a ULID, *)
(* a demo node and a station.  Embeddings are points of a line, and        *)
(* similarity is 10 less their distance.                                   *)
(***************************************************************************)
EXTENDS Catalog, TLC

CONSTANTS sA, sB, d, t1, t2, uSeed, uDemo, u1, u2

\* Calls of Mutate differ only in their node.
MCSymmetry == Permutations(Buttons)

MCUlidOf == [n \in Nodes |-> CASE n \in Seeds -> uSeed
                               [] n \in Demo  -> uDemo
                               [] n = t1      -> u1
                               [] OTHER       -> u2]

MCSim == [p \in Points \X Points |->
            10 - (IF p[1] < p[2] THEN p[2] - p[1] ELSE p[1] - p[2])]

MCHome == [n \in Seeds \cup Demo |-> IF n = d THEN 3 ELSE 0]

\* promoted-*.json sorts between the two seeds.
MCRank == [n \in Files |-> IF n = sA THEN 1 ELSE IF n = sB THEN 4 ELSE 2]

=============================================================================
