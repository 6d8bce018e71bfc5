----------------------------- MODULE TutorProofs -----------------------------
(***************************************************************************)
(* What holds of Tutor for every curriculum, every file and every number   *)
(* of students and requests: the types, that an orientation tells no gap   *)
(* but one of its beginning and every gap of its end, that whatever the    *)
(* page offers is taken, that a traversal of the graph that                *)
(* was loaded answers what is within reach, that a route is a shortest     *)
(* study path, that the cycle check is exact, that the advice leads        *)
(* somewhere, and that the progress told counts each subtopic of a tree    *)
(* once.                                                                   *)
(*                                                                         *)
(* The algorithms of Curriculum and TeachingNode are recursive functions   *)
(* and folds over lists. The first part shows that these equal what they   *)
(* make of their input one step at a time; the next ones find, for each    *)
(* algorithm of the graph, what every step keeps; then come the state      *)
(* machine's own, and last a tree and the progress through it.             *)
(***************************************************************************)
EXTENDS Tutor, TLAPS, NaturalsInduction, WellFoundedInduction, FiniteSetTheorems

-----------------------------------------------------------------------------
(* Recursion and folds.                                                     *)

\* A set that holds 0 and, with a number, the next up to n.
LEMMA UpTo ==
  ASSUME NEW n \in Nat, NEW P, 0 \in P, \A k \in 1..n : k - 1 \in P => k \in P
  PROVE  \A k \in 0..n : k \in P
  <1>. DEFINE T == {k \in 0..n : k \notin P}
  <1>. SUFFICES ASSUME T # {} PROVE FALSE
    OBVIOUS
  <1>1. T \subseteq Nat /\ T # {}
    OBVIOUS
  <1>2. PICK k \in T : \A j \in T : ~ (<<j, k>> \in OpToRel(<, Nat))
    <2>1. IsWellFoundedOn(OpToRel(<, Nat), Nat)
      BY NatLessThanWellFounded
    <2>. HIDE DEF T
    <2>. QED BY <1>1, <2>1, WFMin
  <1>3. k # 0 /\ k - 1 \in 0..n /\ k - 1 < k
    OBVIOUS
  <1>4. \A j \in T : ~ (j < k)
    BY <1>1, <1>2 DEF OpToRel
  <1>. QED BY <1>3, <1>4

\* Numbers up to n.
LEMMA Indices ==
  ASSUME NEW n \in Nat
  PROVE  /\ 0 \in 0..n /\ n \in 0..n
         /\ \A k \in 1..n : k \in Nat /\ k # 0 /\ k \in 0..n /\ k - 1 \in 0..n /\ k - 1 \in Nat
         /\ \A k \in 1..n : k # 1 => k - 1 \in 1..n
  OBVIOUS

\* f is what G makes of base over n steps.
IsRecursion(f, n, A, base, G) ==
    /\ f \in [0..n -> A]
    /\ f[0] = base
    /\ \A k \in 1..n : f[k] = G[<<f[k - 1], k>>]

\* Recursion over numbers up to n.
LEMMA RecursionExists ==
  ASSUME NEW n \in Nat, NEW A, NEW base \in A, NEW G \in [A \X (1..n) -> A]
  PROVE  \E f : IsRecursion(f, n, A, base, G)
  <1>. DEFINE Upto(m) == \E f \in [0..m -> A] :
                           \A k \in 0..m : f[k] = IF k = 0 THEN base ELSE G[<<f[k - 1], k>>]
              P == {m \in 0..n : Upto(m)}
  <1>1. 0 \in P
    <2>. DEFINE h == [k \in 0..0 |-> base]
    <2>1. h \in [0..0 -> A] /\ \A k \in 0..0 : k = 0 /\ h[k] = base
      OBVIOUS
    <2>. HIDE DEF h
    <2>. QED BY <2>1
  <1>2. ASSUME NEW m \in 1..n, m - 1 \in P PROVE m \in P
    <2>1. PICK f \in [0..(m - 1) -> A] :
            \A k \in 0..(m - 1) : f[k] = IF k = 0 THEN base ELSE G[<<f[k - 1], k>>]
      BY <1>2
    <2>. DEFINE h == [k \in 0..m |-> IF k = m THEN G[<<f[m - 1], m>>] ELSE f[k]]
    <2>2. h \in [0..m -> A]
      OBVIOUS
    <2>3. ASSUME NEW k \in 0..m PROVE h[k] = IF k = 0 THEN base ELSE G[<<h[k - 1], k>>]
      <3>1. CASE k = m
        <4>1. m # 0 /\ m \in 0..m /\ m - 1 \in 0..m /\ m - 1 # m
          OBVIOUS
        <4>2. h[m] = G[<<f[m - 1], m>>] /\ h[m - 1] = f[m - 1]
          BY <4>1
        <4>. QED BY <3>1, <4>1, <4>2
      <3>2. CASE k # m
        <4>1. k \in 0..(m - 1) /\ (k # 0 => k - 1 \in 0..m /\ k - 1 # m)
          BY <3>2
        <4>2. h[k] = f[k] /\ (k # 0 => h[k - 1] = f[k - 1])
          BY <3>2, <4>1
        <4>3. f[k] = IF k = 0 THEN base ELSE G[<<f[k - 1], k>>]
          BY <2>1, <4>1
        <4>. QED BY <4>2, <4>3
      <3>. QED BY <3>1, <3>2
    <2>. HIDE DEF h
    <2>. QED BY <2>2, <2>3
  <1>3. n \in P
    <2>. HIDE DEF P
    <2>. QED BY <1>1, <1>2, UpTo
  <1>4. PICK f \in [0..n -> A] : \A k \in 0..n : f[k] = IF k = 0 THEN base ELSE G[<<f[k - 1], k>>]
    BY <1>3
  <1>. QED BY <1>4, Indices DEF IsRecursion

\* The greatest of a set of numbers up to n.
LEMMA MaxOf ==
  ASSUME NEW n \in Nat, NEW t \in SUBSET (1..n), t # {}
  PROVE  Max(t) \in t /\ \A k \in t : k <= Max(t)
  <1>. DEFINE P == {k \in 0..n : t \cap (1..k) # {} =>
                       \E x \in t \cap (1..k) : \A y \in t \cap (1..k) : y <= x}
  <1>1. 0 \in P
    OBVIOUS
  <1>2. ASSUME NEW k \in 1..n, k - 1 \in P PROVE k \in P
    <2>1. CASE k \in t
      BY <2>1
    <2>2. CASE k \notin t
      <3>1. t \cap (1..k) = t \cap (1..(k - 1))
        BY <2>2
      <3>. QED BY <1>2, <3>1
    <2>. QED BY <2>1, <2>2
  <1>3. n \in P
    <2>. HIDE DEF P
    <2>. QED BY <1>1, <1>2, UpTo
  <1>4. t \cap (1..n) = t
    OBVIOUS
  <1>5. \E x \in t : \A y \in t : x >= y
    BY <1>3, <1>4
  <1>. QED BY <1>5 DEF Max

\* The greatest of the numbers up to k is k.
LEMMA MaxOfInterval ==
  ASSUME NEW k \in Nat \ {0}
  PROVE  Max(1..k) = k /\ (1..k) \ {Max(1..k)} = 1..(k - 1)
  <1>1. k \in 1..k /\ 1..k # {} /\ 1..k \in SUBSET (1..k)
    OBVIOUS
  <1>2. Max(1..k) \in 1..k /\ k <= Max(1..k)
    BY <1>1, MaxOf
  <1>. QED BY <1>2

\* it is what G makes of base over each set of indices, by the greatest first.
IsIteration(it, n, A, base, G) ==
    /\ it \in [SUBSET (1..n) -> A]
    /\ \A t \in SUBSET (1..n) :
         it[t] = IF t = {} THEN base ELSE G[<<it[t \ {Max(t)}], Max(t)>>]

\* What a fold iterates, over the sets of indices.
LEMMA IterationExists ==
  ASSUME NEW n \in Nat, NEW A, NEW base \in A, NEW G \in [A \X (1..n) -> A]
  PROVE  \E it : IsIteration(it, n, A, base, G)
  <1>. DEFINE IsIter(it, m) == \A t \in SUBSET (1..m) :
                it[t] = IF t = {} THEN base ELSE G[<<it[t \ {Max(t)}], Max(t)>>]
              P == {m \in 0..n : \E it \in [SUBSET (1..m) -> A] : IsIter(it, m)}
  <1>1. 0 \in P
    <2>. DEFINE jt == [t \in SUBSET (1..0) |-> base]
    <2>1. jt \in [SUBSET (1..0) -> A] /\ \A t \in SUBSET (1..0) : t = {} /\ jt[t] = base
      OBVIOUS
    <2>2. IsIter(jt, 0)
      BY <2>1
    <2>. HIDE DEF jt, IsIter
    <2>. QED BY <2>1, <2>2
  <1>2. ASSUME NEW m \in 1..n, m - 1 \in P PROVE m \in P
    <2>1. PICK it \in [SUBSET (1..(m - 1)) -> A] : IsIter(it, m - 1)
      BY <1>2 DEF IsIter
    <2>. DEFINE jt == [t \in SUBSET (1..m) |->
                         IF m \in t THEN G[<<it[t \ {m}], m>>] ELSE it[t]]
    <2>2. ASSUME NEW t \in SUBSET (1..m)
          PROVE  /\ t \ {m} \in SUBSET (1..(m - 1))
                 /\ m \notin t => t \in SUBSET (1..(m - 1))
                 /\ m \in t => Max(t) = m
      <3>1. m \in Nat /\ \A x \in 1..m : x # m => x \in 1..(m - 1)
        OBVIOUS
      <3>2. ASSUME m \in t PROVE Max(t) = m
        <4>1. Max(t) \in t /\ m <= Max(t)
          BY <3>1, <3>2, MaxOf
        <4>2. Max(t) \in 1..m
          BY <4>1
        <4>. QED BY <4>1, <4>2
      <3>. QED BY <3>1, <3>2
    <2>3. jt \in [SUBSET (1..m) -> A]
      BY <2>2
    <2>4. ASSUME NEW t \in SUBSET (1..m), t # {} PROVE jt[t] = G[<<jt[t \ {Max(t)}], Max(t)>>]
      <3>1. CASE m \in t
        BY <2>2, <3>1
      <3>2. CASE m \notin t
        <4>1. t \ {Max(t)} \in SUBSET (1..m) /\ m \notin t \ {Max(t)}
          BY <3>2
        <4>. QED BY <2>1, <2>2, <2>4, <3>2, <4>1
      <3>. QED BY <3>1, <3>2
    <2>5. jt[{}] = base
      BY <2>1
    <2>6. IsIter(jt, m)
      BY <2>4, <2>5
    <2>. HIDE DEF jt, IsIter
    <2>. QED BY <2>3, <2>6
  <1>3. n \in P
    <2>. HIDE DEF P
    <2>. QED BY <1>1, <1>2, UpTo
  <1>. QED BY <1>3 DEF IsIteration

\* What the steps keep, the whole has.
LEMMA StepsType ==
  ASSUME NEW n \in Nat, NEW A, NEW g, g = [k \in 0..n |-> g[k]],
         g[0] \in A, \A k \in 1..n : g[k - 1] \in A => g[k] \in A
  PROVE  g \in [0..n -> A]
  <1>. DEFINE P == {k \in 0..n : g[k] \in A}
  <1>1. 0 \in P
    OBVIOUS
  <1>2. \A k \in 1..n : k - 1 \in P => k \in P
    OBVIOUS
  <1>3. \A k \in 0..n : k \in P
    <2>. HIDE DEF P
    <2>. QED BY <1>1, <1>2, UpTo
  <1>. QED BY <1>3

\* g is what Op makes of base over the elements of a sequence, one by one.
IsFold(g, Op(_, _), A, base, seq) ==
    /\ g \in [0..Len(seq) -> A]
    /\ g[0] = base
    /\ \A k \in 1..Len(seq) : g[k] = Op(g[k - 1], seq[k])

\* What is known of an iteration whose values need not be of A.
Iterates(it, n, A, base, G) ==
    /\ it[{}] = base
    /\ \A t \in SUBSET (1..n) :
         t # {} /\ it[t \ {Max(t)}] \in A => it[t] = G[<<it[t \ {Max(t)}], Max(t)>>]

\* What an iteration comes to.
Final(it, n) == it[1..n]

\* What is iterated over the sets of indices goes through them in turn.
LEMMA IterationTurns ==
  ASSUME NEW n \in Nat, NEW A, NEW base \in A, NEW G \in [A \X (1..n) -> A], NEW it,
         Iterates(it, n, A, base, G)
  PROVE  \E g : IsRecursion(g, n, A, base, G) /\ g[n] = Final(it, n)
  <1>. DEFINE g == [k \in 0..n |-> it[1..k]]
  <1>1. g[0] = base /\ g[n] = it[1..n] /\ g = [k \in 0..n |-> g[k]]
    <2>1. 1..0 = {}
      OBVIOUS
    <2>. QED BY <2>1 DEF Iterates
  <1>2. ASSUME NEW k \in 1..n, g[k - 1] \in A PROVE g[k] = G[<<g[k - 1], k>>] /\ g[k] \in A
    <2>1. /\ 1..k # {} /\ 1..k \in SUBSET (1..n)
          /\ Max(1..k) = k /\ (1..k) \ {Max(1..k)} = 1..(k - 1)
      BY MaxOfInterval
    <2>2. g[k] = it[1..k] /\ g[k - 1] = it[1..(k - 1)]
      BY Indices
    <2>. HIDE DEF g
    <2>3. g[k] = G[<<g[k - 1], k>>]
      BY <1>2, <2>1, <2>2 DEF Iterates
    <2>. QED BY <1>2, <2>3
  <1>. HIDE DEF g
  <1>3. g \in [0..n -> A]
    BY <1>1, <1>2, StepsType
  <1>4. \A k \in 1..n : g[k - 1] \in A
    BY <1>3, Indices
  <1>. QED BY <1>1, <1>2, <1>3, <1>4 DEF IsRecursion, Final

\* Enter, path by path.
LEMMA EnterFolds ==
  ASSUME NEW A, NEW B, NEW seq \in Seq(B), NEW base \in A,
         \A a \in A, b \in B : Enter(a, b) \in A
  PROVE  \E g : /\ IsFold(g, Enter, A, base, seq)
                /\ FoldLeft(Enter, base, seq) = g[Len(seq)]
  <1>. DEFINE n == Len(seq)
              Op(a, b) == Enter(a, b)
              G == [q \in A \X (1..n) |-> Op(q[1], seq[q[2]])]
              IsIter(it) == it = [t \in SUBSET DOMAIN seq |->
                 IF t = {} THEN base ELSE Op(it[t \ {Max(t)}], seq[Max(t)])]
              it == CHOOSE it : IsIter(it)
  <1>1. /\ \A a \in A, b \in B : Op(a, b) \in A
        /\ FoldLeft(Enter, base, seq) = it[DOMAIN seq]
    BY DEF FoldLeft, MapThenFoldSet
  <1>. HIDE DEF Op
  <1>2. /\ n \in Nat /\ DOMAIN seq = 1..n /\ G \in [A \X (1..n) -> A]
        /\ \A a \in A, k \in 1..n : G[<<a, k>>] = Op(a, seq[k])
    <2>1. n \in Nat /\ DOMAIN seq = 1..n /\ \A k \in 1..n : seq[k] \in B
      OBVIOUS
    <2>. HIDE DEF n
    <2>. QED BY <1>1, <2>1
  <1>. HIDE DEF n, G
  <1>3. \A t \in SUBSET (1..n) : t # {} => Max(t) \in 1..n /\ t \ {Max(t)} \in SUBSET (1..n)
    BY <1>2, MaxOf
  <1>4. IsIter(it)
    <2>1. PICK jt : IsIteration(jt, n, A, base, G)
      BY <1>2, IterationExists
    <2>2. IsIter(jt)
      BY <1>2, <1>3, <2>1 DEF IsIteration
    <2>. HIDE DEF IsIter
    <2>. QED BY <2>2
  <1>. HIDE DEF it
  <1>5. Iterates(it, n, A, base, G)
    BY <1>2, <1>3, <1>4 DEF Iterates
  <1>. HIDE DEF IsIter
  <1>6. PICK g : IsRecursion(g, n, A, base, G) /\ g[n] = Final(it, n)
    <2>1. n \in Nat /\ G \in [A \X (1..n) -> A] /\ base \in A
      BY <1>2
    <2>. QED BY <2>1, <1>5, IterationTurns
  <1>7. \A k \in 1..n : g[k - 1] \in A
    BY <1>2, <1>6, Indices DEF IsRecursion
  <1>8. IsFold(g, Enter, A, base, seq)
    BY <1>2, <1>6, <1>7 DEF IsRecursion, IsFold, n, Op
  <1>. QED BY <1>1, <1>2, <1>6, <1>8 DEF n, Final

-----------------------------------------------------------------------------
(* Sequences of sequences.                                                  *)

\* FlattenSeq appends one after the other.
LEMMA FlattenSteps ==
  ASSUME NEW X, NEW ss \in Seq(Seq(X))
  PROVE  \E f \in [0..Len(ss) -> Seq(X)] :
           /\ f[0] = <<>>
           /\ \A i \in 1..Len(ss) : f[i] = f[i - 1] \o ss[i]
           /\ FlattenSeq(ss) = f[Len(ss)]
  <1>. DEFINE n == Len(ss)
              A == Seq(X)
              G == [q \in A \X (1..n) |-> q[1] \o ss[q[2]]]
              IsFlat(f) == f = [i \in 1..n |-> IF i = 1 THEN ss[i] ELSE f[i - 1] \o ss[i]]
              flat == CHOOSE f : IsFlat(f)
  <1>1. n \in Nat /\ <<>> \in A /\ G \in [A \X (1..n) -> A]
    OBVIOUS
  <1>2. \A i \in 1..n : ss[i] \in A /\ <<>> \o ss[i] = ss[i]
    OBVIOUS
  <1>3. /\ n = 0 => FlattenSeq(ss) = <<>>
        /\ n # 0 => FlattenSeq(ss) = flat[n]
    BY DEF FlattenSeq
  <1>4. \E f : IsRecursion(f, n, A, <<>>, G)
    <2>. HIDE DEF n, G, A
    <2>. QED BY <1>1, RecursionExists
  <1>5. PICK f \in [0..n -> A] : f[0] = <<>> /\ \A i \in 1..n : f[i] = f[i - 1] \o ss[i]
    <2>1. PICK f : IsRecursion(f, n, A, <<>>, G)
      BY <1>4
    <2>2. /\ f \in [0..n -> A] /\ f[0] = <<>>
          /\ \A i \in 1..n : f[i] = G[<<f[i - 1], i>>]
      BY <2>1 DEF IsRecursion
    <2>3. \A i \in 1..n : f[i - 1] \in A
      <3>. HIDE DEF n, A, G
      <3>. QED BY <1>1, <2>2, Indices
    <2>. QED BY <2>2, <2>3
  <1>. HIDE DEF n, A, G
  <1>6. ASSUME NEW i \in 1..n, i = 1 PROVE f[i] = ss[i]
    <2>1. i - 1 = 0
      BY <1>1, <1>6
    <2>2. f[i] = f[i - 1] \o ss[i]
      BY <1>5
    <2>3. f[i] = <<>> \o ss[i]
      BY <1>5, <2>1, <2>2
    <2>. QED BY <1>2, <2>3
  <1>7. IsFlat([i \in 1..n |-> f[i]])
    <2>. DEFINE h == [i \in 1..n |-> f[i]]
    <2>1. ASSUME NEW i \in 1..n PROVE h[i] = IF i = 1 THEN ss[i] ELSE h[i - 1] \o ss[i]
      <3>1. CASE i = 1
        BY <1>2, <1>6, <3>1
      <3>2. CASE i # 1
        BY <1>1, <1>5, <3>2, Indices
      <3>. QED BY <3>1, <3>2
    <2>. QED BY <2>1
  <1>8. IsFlat(flat)
    <2>. HIDE DEF IsFlat
    <2>. QED BY <1>7
  <1>. HIDE DEF flat
  <1>9. n # 0 => flat[n] = f[n]
    <2>. DEFINE P == {i \in 0..n : i = 0 \/ flat[i] = f[i]}
    <2>1. 0 \in P
      BY <1>1
    <2>2. ASSUME NEW i \in 1..n, i - 1 \in P PROVE i \in P
      <3>1. CASE i = 1
        <4>1. flat[i] = ss[i] /\ f[i] = ss[i]
          BY <1>2, <1>6, <1>8, <3>1
        <4>. QED BY <4>1, <1>1, Indices
      <3>2. CASE i # 1
        <4>1. flat[i] = flat[i - 1] \o ss[i] /\ f[i] = f[i - 1] \o ss[i]
          BY <1>5, <1>8, <3>2
        <4>2. i - 1 # 0 /\ i \in 0..n
          BY <1>1, <3>2, Indices
        <4>. QED BY <2>2, <4>1, <4>2
      <3>. QED BY <3>1, <3>2
    <2>3. \A i \in 0..n : i \in P
      <3>. HIDE DEF P
      <3>. QED BY <1>1, <2>1, <2>2, UpTo
    <2>. QED BY <1>1, <2>3, Indices
  <1>10. FlattenSeq(ss) = f[n]
    BY <1>3, <1>5, <1>9
  <1>. QED BY <1>5, <1>10 DEF n, A

\* A concatenation has the elements of its parts.
LEMMA ConcatElements ==
  ASSUME NEW X, NEW s \in Seq(X), NEW t \in Seq(X)
  PROVE  ToSet(s \o t) = ToSet(s) \cup ToSet(t)
  <1>1. DOMAIN s = 1..Len(s) /\ DOMAIN t = 1..Len(t) /\ DOMAIN (s \o t) = 1..(Len(s) + Len(t))
    OBVIOUS
  <1>2. ASSUME NEW i \in 1..(Len(s) + Len(t)) PROVE (s \o t)[i] \in ToSet(s) \cup ToSet(t)
    BY <1>1 DEF ToSet
  <1>3. ASSUME NEW i \in 1..Len(s) PROVE s[i] \in ToSet(s \o t)
    <2>1. (s \o t)[i] = s[i] /\ i \in 1..(Len(s) + Len(t))
      OBVIOUS
    <2>. QED BY <1>1, <2>1 DEF ToSet
  <1>4. ASSUME NEW i \in 1..Len(t) PROVE t[i] \in ToSet(s \o t)
    <2>1. (s \o t)[Len(s) + i] = t[i] /\ Len(s) + i \in 1..(Len(s) + Len(t))
      OBVIOUS
    <2>. QED BY <1>1, <2>1 DEF ToSet
  <1>. QED BY <1>1, <1>2, <1>3, <1>4 DEF ToSet

\* FlattenSeq has the elements of the sequences it joins.
LEMMA Flattened ==
  ASSUME NEW X, NEW ss \in Seq(Seq(X))
  PROVE  /\ FlattenSeq(ss) \in Seq(X)
         /\ ToSet(FlattenSeq(ss)) = UNION {ToSet(ss[i]) : i \in DOMAIN ss}
  <1>1. PICK f \in [0..Len(ss) -> Seq(X)] :
           /\ f[0] = <<>>
           /\ \A i \in 1..Len(ss) : f[i] = f[i - 1] \o ss[i]
           /\ FlattenSeq(ss) = f[Len(ss)]
    BY FlattenSteps
  <1>. DEFINE n == Len(ss)
              A == Seq(X)
              Upto(k) == UNION {ToSet(ss[i]) : i \in 1..k}
              P == {k \in 0..n : ToSet(f[k]) = Upto(k)}
  <1>2. n \in Nat /\ DOMAIN ss = 1..n
    OBVIOUS
  <1>3. \A i \in 1..n : ss[i] \in A
    OBVIOUS
  <1>4. /\ f \in [0..n -> A] /\ f[0] = <<>> /\ FlattenSeq(ss) = f[n]
        /\ \A i \in 1..n : f[i] = f[i - 1] \o ss[i]
    BY <1>1
  <1>. HIDE DEF n
  <1>5. 0 \in P
    <2>1. ToSet(<<>>) = {} /\ Upto(0) = {}
      BY DEF ToSet
    <2>. QED BY <1>2, <1>4, <2>1, Indices
  <1>6. ASSUME NEW k \in 1..n, k - 1 \in P PROVE k \in P
    <2>1. f[k - 1] \in A /\ ss[k] \in A /\ f[k] = f[k - 1] \o ss[k]
      <3>. HIDE DEF A
      <3>. QED BY <1>2, <1>3, <1>4, Indices
    <2>2. ToSet(f[k]) = ToSet(f[k - 1]) \cup ToSet(ss[k])
      BY <2>1, ConcatElements
    <2>3. Upto(k) = Upto(k - 1) \cup ToSet(ss[k])
      <3>1. 1..k = (1..(k - 1)) \cup {k}
        BY <1>2
      <3>. QED BY <3>1
    <2>. HIDE DEF Upto
    <2>. QED BY <1>2, <1>6, <2>2, <2>3, Indices
  <1>7. \A k \in 0..n : k \in P
    <2>. HIDE DEF P
    <2>. QED BY <1>2, <1>5, <1>6, UpTo
  <1>8. ToSet(f[n]) = Upto(n) /\ f[n] \in A
    <2>. HIDE DEF A, Upto
    <2>. QED BY <1>2, <1>4, <1>7, Indices
  <1>. QED BY <1>2, <1>4, <1>8

-----------------------------------------------------------------------------
(* Sets in order.                                                           *)

\* less orders the elements of S, each before or after every other.
IsOrder(less, S) ==
    /\ \A x \in S : <<x, x>> \notin less
    /\ \A x, y \in S : x # y => <<x, y>> \in less \/ <<y, x>> \in less
    /\ \A x, y, z \in S : <<x, y>> \in less /\ <<y, z>> \in less => <<x, z>> \in less

\* How many of S come before an element.
RankIn(S, less) == [x \in S |-> Cardinality({y \in S : <<y, x>> \in less})]

\* In a finite set in order, every place is some element's.
LEMMA Ranks ==
  ASSUME NEW S, IsFiniteSet(S), NEW less, IsOrder(less, S)
  PROVE  /\ RankIn(S, less) \in [S -> 0..(Cardinality(S) - 1)]
         /\ \A x, y \in S : <<x, y>> \in less => RankIn(S, less)[x] < RankIn(S, less)[y]
         /\ \A i \in 0..(Cardinality(S) - 1) : \E x \in S : RankIn(S, less)[x] = i
  <1>. DEFINE below(x) == {y \in S : <<y, x>> \in less}
              rank == [x \in S |-> Cardinality(below(x))]
              n == Cardinality(S)
  <1>1. n \in Nat
    BY FS_CardinalityType
  <1>2. ASSUME NEW x \in S
        PROVE IsFiniteSet(below(x)) /\ Cardinality(below(x)) \in Nat /\ Cardinality(below(x)) < n
    <2>1. below(x) \in SUBSET S /\ below(x) # S
      BY DEF IsOrder
    <2>. HIDE DEF below
    <2>2. IsFiniteSet(below(x)) /\ Cardinality(below(x)) <= n /\ Cardinality(below(x)) # n
      BY <2>1, FS_Subset
    <2>3. Cardinality(below(x)) \in Nat
      BY <2>2, FS_CardinalityType
    <2>. QED BY <2>2, <2>3, <1>1
  <1>3. ASSUME NEW x \in S, NEW y \in S, <<x, y>> \in less PROVE rank[x] < rank[y]
    <2>1. below(x) \in SUBSET below(y) /\ below(x) # below(y)
      BY <1>3 DEF IsOrder
    <2>. HIDE DEF below
    <2>2. /\ Cardinality(below(x)) <= Cardinality(below(y))
          /\ Cardinality(below(x)) # Cardinality(below(y))
      BY <1>2, <2>1, FS_Subset
    <2>. QED BY <1>2, <2>2
  <1>4. rank \in [S -> 0..(n - 1)]
    <2>. HIDE DEF below
    <2>1. \A x \in S : Cardinality(below(x)) \in 0..(n - 1)
      BY <1>1, <1>2
    <2>. QED BY <2>1
  <1>5. rank \in Injection(S, 0..(n - 1))
    <2>1. ASSUME NEW x \in S, NEW y \in S, rank[x] = rank[y] PROVE x = y
      <3>1. rank[x] \in Int /\ ~ (rank[x] < rank[y]) /\ ~ (rank[y] < rank[x])
        BY <2>1, <1>4
      <3>. HIDE DEF rank
      <3>. QED BY <3>1, <1>3 DEF IsOrder
    <2>. HIDE DEF rank
    <2>. QED BY <1>4, <2>1 DEF Injection, IsInjective
  <1>6. IsFiniteSet(0..(n - 1)) /\ Cardinality(0..(n - 1)) = n
    <2>1. n - 1 \in Int /\ 0 \in Int
      BY <1>1
    <2>2. /\ IsFiniteSet(0..(n - 1))
          /\ Cardinality(0..(n - 1)) = IF 0 > n - 1 THEN 0 ELSE n - 1 - 0 + 1
      BY <2>1, FS_Interval
    <2>. QED BY <1>1, <2>2
  <1>7. rank \in Surjection(S, 0..(n - 1))
    <2>. HIDE DEF rank
    <2>. QED BY <1>5, <1>6, FS_Injection
  <1>8. RankIn(S, less) = rank
    BY DEF RankIn
  <1>. HIDE DEF rank
  <1>. QED BY <1>3, <1>4, <1>7, <1>8 DEF Surjection

\* s lists S in the order less, each element once.
IsListOf(s, S, less) ==
    /\ s \in Seq(S) /\ Len(s) = Cardinality(S) /\ DOMAIN s = 1..Cardinality(S)
    /\ ToSet(s) = S
    /\ \A i, j \in DOMAIN s : i < j => <<s[i], s[j]>> \in less

\* Ordered lists a finite set in its order.
LEMMA OrderedLists ==
  ASSUME NEW S, IsFiniteSet(S), NEW less, IsOrder(less, S)
  PROVE  IsListOf(Ordered(S, less), S, less)
  <1>. DEFINE rank == RankIn(S, less)
              n == Cardinality(S)
              s == Ordered(S, less)
  <1>1. /\ rank \in [S -> 0..(n - 1)]
        /\ \A x, y \in S : <<x, y>> \in less => rank[x] < rank[y]
        /\ \A i \in 0..(n - 1) : \E x \in S : rank[x] = i
    BY Ranks
  <1>2. s = [i \in 1..n |->
               CHOOSE x \in S : Cardinality({y \in S : <<y, x>> \in less}) = i - 1]
    BY DEF Ordered
  <1>3. \A x \in S : Cardinality({y \in S : <<y, x>> \in less}) = rank[x]
    BY DEF RankIn
  <1>4. n \in Nat
    BY FS_CardinalityType
  <1>. HIDE DEF rank, n, s
  <1>5. ASSUME NEW i \in 1..n PROVE s[i] \in S /\ rank[s[i]] = i - 1
    <2>1. i - 1 \in 0..(n - 1)
      BY <1>4
    <2>2. \E x \in S : rank[x] = i - 1
      BY <1>1, <2>1
    <2>3. \E x \in S : Cardinality({y \in S : <<y, x>> \in less}) = i - 1
      BY <1>3, <2>2
    <2>4. /\ s[i] \in S
          /\ Cardinality({y \in S : <<y, s[i]>> \in less}) = i - 1
      BY <1>2, <2>3
    <2>. QED BY <1>3, <2>4
  <1>6. s \in Seq(S) /\ Len(s) = n /\ DOMAIN s = 1..n
    <2>. DEFINE at(i) == CHOOSE x \in S : Cardinality({y \in S : <<y, x>> \in less}) = i - 1
    <2>1. s = [i \in 1..n |-> at(i)]
      BY <1>2
    <2>2. s = [i \in 1..n |-> s[i]]
      <3>. HIDE DEF at
      <3>. QED BY <2>1
    <2>3. s \in [1..n -> S]
      BY <1>5, <2>2
    <2>. QED BY <1>4, <2>3
  <1>7. ASSUME NEW x \in S PROVE \E i \in 1..n : s[i] = x
    <2>1. PICK i \in 1..n : rank[x] = i - 1
      BY <1>1, <1>4
    <2>2. s[i] \in S /\ rank[s[i]] = rank[x]
      BY <1>5, <2>1
    <2>. DEFINE y == s[i]
    <2>3. y = x
      <3>1. rank[x] \in Int /\ rank[y] = rank[x]
        BY <1>1, <2>2
      <3>2. ~ (rank[x] < rank[y]) /\ ~ (rank[y] < rank[x])
        BY <3>1
      <3>3. y \in S
        BY <2>2
      <3>. HIDE DEF y
      <3>. QED BY <1>1, <3>2, <3>3 DEF IsOrder
    <2>. QED BY <2>3
  <1>8. ASSUME NEW i \in 1..n, NEW j \in 1..n, i < j PROVE <<s[i], s[j]>> \in less
    <2>1. rank[s[i]] < rank[s[j]] /\ rank[s[i]] \in Int /\ rank[s[j]] \in Int
      BY <1>5, <1>8
    <2>2. s[i] # s[j] /\ <<s[j], s[i]>> \notin less
      <3>1. ~ (rank[s[j]] < rank[s[i]])
        BY <2>1
      <3>. QED BY <1>1, <1>5, <2>1, <3>1
    <2>. QED BY <1>5, <2>2 DEF IsOrder
  <1>9. ToSet(s) = S
    BY <1>5, <1>6, <1>7 DEF ToSet
  <1>. QED BY <1>6, <1>8, <1>9 DEF IsListOf, s, n

-----------------------------------------------------------------------------
(* The orders in which the code looks at edges and answers.                 *)

\* Where a concatenation has the elements of its parts.
LEMMA ConcatAt ==
  ASSUME NEW X, NEW s \in Seq(X), NEW t \in Seq(X)
  PROVE  /\ s \o t \in Seq(X) /\ Len(s \o t) = Len(s) + Len(t)
         /\ DOMAIN (s \o t) = 1..(Len(s) + Len(t))
         /\ \A i \in 1..Len(s) : (s \o t)[i] = s[i]
         /\ \A i \in 1..Len(t) : (s \o t)[Len(s) + i] = t[i]
  OBVIOUS

\* Every kind has a rank of its own in the order of AllKinds (kindRank).
LEMMA KindRanks ==
  /\ \A k \in EdgeKind : KindRank(k) \in 1..4
  /\ \A k, l \in EdgeKind : KindRank(k) = KindRank(l) => k = l
  /\ ToSet(AllKinds) = EdgeKind /\ ToSet(CycleCheckedKinds) \subseteq EdgeKind
  <1>. DEFINE a == <<"requires", "deepens", "continues">>
              b == <<"alternative">>
  <1>1. /\ a \in Seq(EdgeKind) /\ b \in Seq(EdgeKind) /\ Len(a) = 3 /\ Len(b) = 1
        /\ a[1] = "requires" /\ a[2] = "deepens" /\ a[3] = "continues" /\ b[1] = "alternative"
    <2>1. a \in Seq(EdgeKind) /\ Len(a) = 3
      BY DEF EdgeKind
    <2>2. b \in Seq(EdgeKind) /\ Len(b) = 1
      BY DEF EdgeKind
    <2>3. a[1] = "requires" /\ a[2] = "deepens" /\ a[3] = "continues"
      OBVIOUS
    <2>4. b[1] = "alternative"
      OBVIOUS
    <2>. QED BY <2>1, <2>2, <2>3, <2>4
  <1>2. AllKinds = a \o b
    BY DEF AllKinds, CycleCheckedKinds
  <1>3. /\ DOMAIN AllKinds = 1..4 /\ AllKinds[1] = "requires" /\ AllKinds[2] = "deepens"
        /\ AllKinds[3] = "continues" /\ AllKinds[4] = "alternative"
    <2>. HIDE DEF a, b
    <2>1. /\ DOMAIN (a \o b) = 1..(Len(a) + Len(b))
          /\ \A i \in 1..Len(a) : (a \o b)[i] = a[i]
          /\ \A i \in 1..Len(b) : (a \o b)[Len(a) + i] = b[i]
      <3>1. a \in Seq(EdgeKind) /\ b \in Seq(EdgeKind)
        BY <1>1
      <3>. QED BY <3>1
    <2>2. /\ DOMAIN (a \o b) = 1..(3 + 1) /\ \A i \in 1..3 : (a \o b)[i] = a[i]
          /\ \A i \in 1..1 : (a \o b)[3 + i] = b[i]
      BY <1>1, <2>1
    <2>3. 1 \in 1..3 /\ 2 \in 1..3 /\ 3 \in 1..3 /\ 1 \in 1..1 /\ 3 + 1 = 4
      OBVIOUS
    <2>4. (a \o b)[4] = b[1]
      BY <2>2, <2>3
    <2>. QED BY <1>1, <1>2, <2>2, <2>3, <2>4
  <1>4. \A k \in EdgeKind : \E r \in DOMAIN AllKinds : AllKinds[r] = k
    BY <1>3 DEF EdgeKind
  <1>5. \A k \in EdgeKind : KindRank(k) \in DOMAIN AllKinds /\ AllKinds[KindRank(k)] = k
    BY <1>4 DEF KindRank
  <1>6. ToSet(AllKinds) = EdgeKind
    <2>1. \A r \in 1..4 : r = 1 \/ r = 2 \/ r = 3 \/ r = 4
      OBVIOUS
    <2>. QED BY <1>3, <2>1 DEF ToSet, EdgeKind
  <1>7. ToSet(CycleCheckedKinds) \subseteq EdgeKind
    <2>1. \A r \in 1..3 : r = 1 \/ r = 2 \/ r = 3
      BY DEF EdgeKind
    <2>2. DOMAIN CycleCheckedKinds = 1..3
      BY DEF CycleCheckedKinds
    <2>. QED BY <2>1, <2>2 DEF ToSet, EdgeKind, CycleCheckedKinds
  <1>. QED BY <1>3, <1>5, <1>6, <1>7

\* Of two different edges one is before the other (sortEdges).
LEMMA EdgesAreOrdered ==
  ASSUME NEW S \in SUBSET Edge
  PROVE  IsOrder({p \in S \X S : EdgeIsBefore(p[1], p[2])}, S)
  <1>. DEFINE less == {p \in S \X S : EdgeIsBefore(p[1], p[2])}
  <1>1. ASSUME NEW e \in S
        PROVE  /\ e.from \in Int /\ e.to \in Int /\ e.strength \in Int /\ e.kind \in EdgeKind
               /\ KindRank(e.kind) \in Int
               /\ e = [from |-> e.from, to |-> e.to, kind |-> e.kind, strength |-> e.strength]
    <2>1. e \in Edge
      OBVIOUS
    <2>2. /\ e.from \in ConceptIds /\ e.to \in ConceptIds /\ e.strength \in 1..MaxStrength
          /\ e.kind \in EdgeKind
          /\ e = [from |-> e.from, to |-> e.to, kind |-> e.kind, strength |-> e.strength]
      BY <2>1 DEF Edge
    <2>3. KindRank(e.kind) \in 1..4
      BY <2>2, KindRanks
    <2>4. e.strength \in Int
      BY <2>2, CurriculumConstants
    <2>5. e.from \in Int /\ e.to \in Int
      <3>1. \A x \in ConceptIds : x \in Int
        BY CurriculumConstants
      <3>. QED BY <2>2, <3>1
    <2>6. KindRank(e.kind) \in Int
      BY <2>3
    <2>. QED BY <2>2, <2>4, <2>5, <2>6
  <1>2. \A e, f \in S : <<e, f>> \in less <=> EdgeIsBefore(e, f)
    OBVIOUS
  <1>3. ASSUME NEW e \in S PROVE ~ EdgeIsBefore(e, e)
    BY <1>1 DEF EdgeIsBefore
  <1>4. ASSUME NEW e \in S, NEW f \in S, e # f PROVE EdgeIsBefore(e, f) \/ EdgeIsBefore(f, e)
    <2>1. e.from # f.from \/ e.to # f.to \/ e.kind # f.kind \/ e.strength # f.strength
      BY <1>1, <1>4
    <2>2. e.kind # f.kind => KindRank(e.kind) # KindRank(f.kind)
      BY <1>1, KindRanks
    <2>. QED BY <1>1, <2>1, <2>2 DEF EdgeIsBefore
  <1>5. ASSUME NEW e \in S, NEW f \in S, NEW g \in S, EdgeIsBefore(e, f), EdgeIsBefore(f, g)
        PROVE  EdgeIsBefore(e, g)
    BY <1>1, <1>5 DEF EdgeIsBefore
  <1>. HIDE DEF less
  <1>. QED BY <1>2, <1>3, <1>4, <1>5 DEF IsOrder, less

\* The edges of a file in the order in which the code looks at them.
LEMMA EdgesAreListed ==
  ASSUME NEW S \in SUBSET Edge, IsFiniteSet(S)
  PROVE  SortEdges(S) \in Seq(S) /\ ToSet(SortEdges(S)) = S
  BY EdgesAreOrdered, OrderedLists DEF SortEdges, IsListOf

\* What of a relation its place depends on is of its type.
IsAnswered(r) == r.peer \in ConceptIds /\ r.depth \in Nat /\ r.strength \in Nat

\* Relations to different concepts in the order in which they are answered.
LEMMA RelationsAreListed ==
  ASSUME NEW S, NEW rels \in Seq(S), IsFiniteSet(ToSet(rels)),
         \A r \in ToSet(rels) : IsAnswered(r),
         \A r, s \in ToSet(rels) : r.peer = s.peer => r = s
  PROVE  /\ SortRelations(rels) \in Seq(ToSet(rels))
         /\ Len(SortRelations(rels)) = Cardinality(ToSet(rels))
         /\ ToSet(SortRelations(rels)) = ToSet(rels)
         /\ \A i, j \in DOMAIN SortRelations(rels) :
              i < j => RelationIsBefore(SortRelations(rels)[i], SortRelations(rels)[j])
  <1>. DEFINE R == ToSet(rels)
              less == {p \in R \X R : RelationIsBefore(p[1], p[2])}
  <1>1. ASSUME NEW r \in R PROVE r.peer \in Int /\ r.depth \in Int /\ r.strength \in Int
    <2>1. \A x \in ConceptIds : x \in Int
      BY CurriculumConstants
    <2>2. r.peer \in ConceptIds /\ r.depth \in Nat /\ r.strength \in Nat
      BY DEF IsAnswered
    <2>3. \A x \in Nat : x \in Int
      OBVIOUS
    <2>. QED BY <2>1, <2>2, <2>3
  <1>2. \A r, s \in R : <<r, s>> \in less <=> RelationIsBefore(r, s)
    OBVIOUS
  <1>3. SortRelations(rels) = Ordered(R, less)
    BY DEF SortRelations
  <1>. HIDE DEF R
  <1>4. \A r \in R : ~ RelationIsBefore(r, r)
    BY <1>1 DEF RelationIsBefore
  <1>5. ASSUME NEW r \in R, NEW s \in R, r # s
        PROVE RelationIsBefore(r, s) \/ RelationIsBefore(s, r)
    <2>1. r.peer # s.peer
      BY <1>5 DEF R
    <2>. QED BY <1>1, <2>1 DEF RelationIsBefore
  <1>6. ASSUME NEW r \in R, NEW s \in R, NEW t \in R, RelationIsBefore(r, s), RelationIsBefore(s, t)
        PROVE  RelationIsBefore(r, t)
    BY <1>1, <1>6 DEF RelationIsBefore
  <1>. HIDE DEF less
  <1>7. IsOrder(less, R)
    BY <1>2, <1>4, <1>5, <1>6 DEF IsOrder
  <1>8. IsListOf(SortRelations(rels), R, less)
    BY <1>3, <1>7, OrderedLists DEF R
  <1>9. \A i, j \in DOMAIN SortRelations(rels) :
              i < j => RelationIsBefore(SortRelations(rels)[i], SortRelations(rels)[j])
    BY <1>8, <1>2 DEF IsListOf, less
  <1>. QED BY <1>8, <1>9 DEF IsListOf, R

-----------------------------------------------------------------------------
(* What so many steps lead to.                                              *)

\* R is a relation of C.
IsRelation(R, C) == R \in SUBSET (C \X C)

\* What R leads to from S.
Onward(R, S) == {r[2] : r \in {s \in R : s[1] \in S}}

\* f is what R leads to from id in so many steps.
IsReach(f, n, C, R, id) ==
    /\ f \in [0..n -> SUBSET C] /\ f[0] = {id}
    /\ \A k \in 1..n : f[k] = Onward(R, f[k - 1])

\* After goes step by step.
LEMMA AfterRuns ==
  ASSUME NEW C, NEW R \in SUBSET (C \X C), NEW id \in C, NEW n \in Nat
  PROVE  \E f : IsReach(f, n, C, R, id) /\ After(R, id, n) = f[n]
  <1>. DEFINE A == SUBSET C
              G == [q \in A \X (1..n) |-> Onward(R, q[1])]
              IsReached(f) == f = [k \in 0..n |->
                 IF k = 0 THEN {id} ELSE {r[2] : r \in {s \in R : s[1] \in f[k - 1]}}]
              f == CHOOSE f : IsReached(f)
  <1>1. \A S : Onward(R, S) \in A
    BY DEF Onward
  <1>2. {id} \in A /\ G \in [A \X (1..n) -> A]
    BY <1>1
  <1>3. PICK g : IsRecursion(g, n, A, {id}, G)
    <2>. HIDE DEF A, G
    <2>. QED BY <1>2, RecursionExists
  <1>4. /\ g \in [0..n -> A] /\ g[0] = {id}
        /\ \A k \in 1..n : k - 1 \in 0..n /\ g[k] = Onward(R, g[k - 1])
    <2>1. /\ g \in [0..n -> A] /\ g[0] = {id}
          /\ \A k \in 1..n : k - 1 \in 0..n /\ k \in 0..n /\ g[k] = G[<<g[k - 1], k>>]
      <3>. HIDE DEF A, G
      <3>. QED BY <1>3, Indices DEF IsRecursion
    <2>2. \A k \in 1..n : g[k - 1] \in A
      <3>. HIDE DEF A, G
      <3>. QED BY <2>1
    <2>. HIDE DEF A
    <2>. QED BY <2>1, <2>2
  <1>. HIDE DEF A, G
  <1>5. IsReached(g)
    <2>1. ASSUME NEW k \in 0..n
          PROVE g[k] = IF k = 0 THEN {id} ELSE {r[2] : r \in {s \in R : s[1] \in g[k - 1]}}
      <3>1. CASE k = 0
        BY <1>4, <3>1
      <3>2. CASE k # 0
        <4>1. k \in 1..n
          BY <3>2
        <4>. QED BY <1>4, <3>2, <4>1 DEF Onward
      <3>. QED BY <3>1, <3>2
    <2>. QED BY <1>4, <2>1
  <1>6. IsReached(f)
    <2>. HIDE DEF IsReached
    <2>. QED BY <1>5
  <1>7. After(R, id, n) = f[n]
    BY DEF After
  <1>. HIDE DEF f
  <1>8. f[0] = {id} /\ \A k \in 1..n : f[k] = Onward(R, f[k - 1])
    <2>1. 0 \in 0..n /\ \A k \in 1..n : k \in 0..n /\ k # 0
      OBVIOUS
    <2>. QED BY <1>6, <2>1 DEF Onward
  <1>9. f \in [0..n -> A]
    <2>1. f = [k \in 0..n |-> f[k]] /\ f[0] \in A /\ \A k \in 1..n : f[k] \in A
      <3>1. f = [k \in 0..n |-> f[k]]
        BY <1>6
      <3>. QED BY <1>1, <1>2, <1>8, <3>1
    <2>2. \A k \in 0..n : f[k] \in A
      <3>1. \A k \in 0..n : k = 0 \/ k \in 1..n
        OBVIOUS
      <3>. QED BY <2>1, <3>1
    <2>. QED BY <2>1, <2>2
  <1>. QED BY <1>7, <1>8, <1>9 DEF IsReach, A

\* What n steps lead to, step by step.
LEMMA AfterSteps ==
  ASSUME NEW C, NEW R, IsRelation(R, C), NEW id \in C
  PROVE  /\ After(R, id, 0) = {id}
         /\ \A n \in Nat : /\ After(R, id, n) \in SUBSET C
                           /\ After(R, id, n + 1) = Onward(R, After(R, id, n))
  <1>1. ASSUME NEW n \in Nat
        PROVE  \E f : IsReach(f, n, C, R, id) /\ After(R, id, n) = f[n]
    BY AfterRuns DEF IsRelation
  <1>2. After(R, id, 0) = {id}
    <2>1. PICK f : IsReach(f, 0, C, R, id) /\ After(R, id, 0) = f[0]
      BY <1>1
    <2>. QED BY <2>1 DEF IsReach
  <1>3. ASSUME NEW n \in Nat
        PROVE After(R, id, n) \in SUBSET C /\ After(R, id, n + 1) = Onward(R, After(R, id, n))
    <2>1. n + 1 \in Nat /\ n \in 0..n /\ n + 1 \in 1..(n + 1) /\ (n + 1) - 1 = n
      OBVIOUS
    <2>2. PICK f : IsReach(f, n, C, R, id) /\ After(R, id, n) = f[n]
      BY <1>1
    <2>3. PICK g : IsReach(g, n + 1, C, R, id) /\ After(R, id, n + 1) = g[n + 1]
      BY <1>1, <2>1
    <2>. DEFINE P == {k \in 0..n : g[k] = f[k]}
    <2>4. 0 \in P
      BY <2>1, <2>2, <2>3, Indices DEF IsReach
    <2>5. ASSUME NEW k \in 1..n, k - 1 \in P PROVE k \in P
      <3>1. k \in 1..(n + 1) /\ k \in 0..n
        OBVIOUS
      <3>. QED BY <2>2, <2>3, <2>5, <3>1 DEF IsReach
    <2>6. g[n] = f[n]
      <3>1. n \in P
        <4>. HIDE DEF P
        <4>. QED BY <2>1, <2>4, <2>5, UpTo
      <3>. QED BY <3>1
    <2>. QED BY <2>1, <2>2, <2>3, <2>6 DEF IsReach
  <1>. QED BY <1>2, <1>3

-----------------------------------------------------------------------------
(* Path: a layer of the search for a route.                                 *)

\* Append adds an element.
LEMMA AppendElements ==
  ASSUME NEW X, NEW s \in Seq(X), NEW x \in X
  PROVE  Append(s, x) \in Seq(X) /\ ToSet(Append(s, x)) = ToSet(s) \cup {x}
  <1>1. /\ DOMAIN s = 1..Len(s) /\ DOMAIN Append(s, x) = 1..(Len(s) + 1)
        /\ \A i \in 1..Len(s) : Append(s, x)[i] = s[i]
        /\ Append(s, x)[Len(s) + 1] = x
        /\ Append(s, x) \in Seq(X)
        /\ Len(s) \in Nat
    OBVIOUS
  <1>2. \A i \in 1..(Len(s) + 1) : i \in 1..Len(s) \/ i = Len(s) + 1
    BY <1>1
  <1>3. Len(s) + 1 \in 1..(Len(s) + 1) /\ \A i \in 1..Len(s) : i \in 1..(Len(s) + 1)
    BY <1>1
  <1>. QED BY <1>1, <1>2, <1>3 DEF ToSet

\* Paths: sequences of concepts that are not empty.
Paths == {p \in Seq(ConceptIds) : p # <<>>}
\* Where paths end.
Lasts(S) == {Last(p) : p \in S}
\* What a search for routes keeps.
Searches == [visited : SUBSET ConceptIds, layer : Seq(Paths), found : Seq(Paths)]

\* A path has a last concept.
LEMMA LastOfPath ==
  ASSUME NEW p \in Paths
  PROVE  Len(p) \in Nat \ {0} /\ Last(p) \in ConceptIds /\ p[Len(p)] = Last(p)
  BY DEF Paths, Last

\* Entering the candidates cand one after the other.
LEMMA Entering ==
  ASSUME NEW start \in Searches, NEW cand \in Seq(Paths), start.layer = <<>>
  PROVE  LET s == FoldLeft(Enter, start, cand) IN
         /\ s \in Searches
         /\ s.visited = start.visited \cup Lasts(ToSet(cand))
         /\ ToSet(s.layer) \subseteq ToSet(cand)
         /\ Lasts(ToSet(s.layer)) = Lasts(ToSet(cand)) \ start.visited
         /\ ToSet(s.found) = ToSet(start.found) \cup ToSet(s.layer)
  <1>1. ASSUME NEW s \in Searches, NEW p \in Paths
        PROVE  /\ Enter(s, p) \in Searches
               /\ Last(p) \in s.visited => Enter(s, p) = s
               /\ Last(p) \notin s.visited =>
                    /\ Enter(s, p).visited = s.visited \cup {Last(p)}
                    /\ ToSet(Enter(s, p).layer) = ToSet(s.layer) \cup {p}
                    /\ ToSet(Enter(s, p).found) = ToSet(s.found) \cup {p}
    <2>1. s.layer \in Seq(Paths) /\ s.found \in Seq(Paths) /\ s.visited \in SUBSET ConceptIds
      BY DEF Searches
    <2>2. CASE Last(p) \in s.visited
      BY <2>2 DEF Enter
    <2>3. CASE Last(p) \notin s.visited
      <3>1. Enter(s, p) = [visited |-> s.visited \cup {Last(p)},
                           layer |-> Append(s.layer, p), found |-> Append(s.found, p)]
        BY <2>3 DEF Enter
      <3>2. /\ Append(s.layer, p) \in Seq(Paths)
            /\ ToSet(Append(s.layer, p)) = ToSet(s.layer) \cup {p}
            /\ Append(s.found, p) \in Seq(Paths)
            /\ ToSet(Append(s.found, p)) = ToSet(s.found) \cup {p}
        BY <2>1, AppendElements
      <3>3. s.visited \cup {Last(p)} \in SUBSET ConceptIds
        BY <2>1, LastOfPath
      <3>. QED BY <2>3, <3>1, <3>2, <3>3 DEF Searches
    <2>. QED BY <2>2, <2>3
  <1>. DEFINE n == Len(cand)
              seen(k) == {cand[i] : i \in 1..k}
  <1>2. n \in Nat /\ DOMAIN cand = 1..n /\ \A i \in 1..n : cand[i] \in Paths
    OBVIOUS
  <1>3. PICK g : IsFold(g, Enter, Searches, start, cand) /\ FoldLeft(Enter, start, cand) = g[n]
    <2>1. \A s \in Searches, p \in Paths : Enter(s, p) \in Searches
      BY <1>1
    <2>. QED BY <2>1, EnterFolds
  <1>4. /\ g \in [0..n -> Searches] /\ g[0] = start
        /\ \A k \in 1..n : g[k] = Enter(g[k - 1], cand[k])
    BY <1>3 DEF IsFold
  <1>. HIDE DEF n
  <1>. DEFINE Entered1(k) ==
                /\ g[k].visited = start.visited \cup Lasts(seen(k))
                /\ ToSet(g[k].layer) \subseteq seen(k)
                /\ Lasts(ToSet(g[k].layer)) = Lasts(seen(k)) \ start.visited
                /\ ToSet(g[k].found) = ToSet(start.found) \cup ToSet(g[k].layer)
              P == {k \in 0..n : Entered1(k)}
  <1>5. 0 \in P
    <2>1. seen(0) = {} /\ Lasts({}) = {} /\ ToSet(<<>>) = {}
      BY DEF Lasts, ToSet
    <2>2. Entered1(0)
      BY <1>4, <2>1
    <2>. HIDE DEF Entered1
    <2>. QED BY <1>2, <2>2, Indices
  <1>6. ASSUME NEW k \in 1..n, k - 1 \in P PROVE k \in P
    <2>1. g[k - 1] \in Searches /\ cand[k] \in Paths /\ g[k] = Enter(g[k - 1], cand[k])
      BY <1>2, <1>4, Indices
    <2>2. Entered1(k - 1)
      BY <1>6
    <2>3. seen(k) = seen(k - 1) \cup {cand[k]}
      <3>1. 1..k = (1..(k - 1)) \cup {k}
        BY <1>2
      <3>. QED BY <3>1
    <2>4. Lasts(seen(k)) = Lasts(seen(k - 1)) \cup {Last(cand[k])}
      BY <2>3 DEF Lasts
    <2>. HIDE DEF seen
    <2>5. CASE Last(cand[k]) \in g[k - 1].visited
      <3>1. g[k] = g[k - 1]
        BY <1>1, <2>1, <2>5
      <3>2. Entered1(k)
        BY <2>2, <2>3, <2>4, <2>5, <3>1
      <3>. HIDE DEF Entered1
      <3>. QED BY <1>2, <3>2, Indices
    <2>6. CASE Last(cand[k]) \notin g[k - 1].visited
      <3>1. /\ g[k].visited = g[k - 1].visited \cup {Last(cand[k])}
            /\ ToSet(g[k].layer) = ToSet(g[k - 1].layer) \cup {cand[k]}
            /\ ToSet(g[k].found) = ToSet(g[k - 1].found) \cup {cand[k]}
        <4>. DEFINE t == g[k - 1]
                    p == cand[k]
        <4>1. t \in Searches /\ p \in Paths /\ g[k] = Enter(t, p) /\ Last(p) \notin t.visited
          BY <2>1, <2>6
        <4>. HIDE DEF t, p
        <4>2. /\ g[k].visited = t.visited \cup {Last(p)}
              /\ ToSet(g[k].layer) = ToSet(t.layer) \cup {p}
              /\ ToSet(g[k].found) = ToSet(t.found) \cup {p}
          BY <1>1, <4>1
        <4>. QED BY <4>2 DEF t, p
      <3>2. Lasts(ToSet(g[k].layer)) = Lasts(ToSet(g[k - 1].layer)) \cup {Last(cand[k])}
        BY <3>1 DEF Lasts
      <3>3. Entered1(k)
        <4>1. g[k].visited = start.visited \cup Lasts(seen(k))
          BY <2>2, <2>4, <3>1
        <4>2. ToSet(g[k].layer) \subseteq seen(k)
          BY <2>2, <2>3, <3>1
        <4>3. Last(cand[k]) \notin start.visited
          BY <2>2, <2>6
        <4>4. Lasts(ToSet(g[k].layer)) = Lasts(seen(k)) \ start.visited
          BY <2>2, <2>4, <3>2, <4>3
        <4>5. ToSet(g[k].found) = ToSet(start.found) \cup ToSet(g[k].layer)
          BY <2>2, <3>1
        <4>. QED BY <4>1, <4>2, <4>4, <4>5
      <3>. HIDE DEF Entered1
      <3>. QED BY <1>2, <3>3, Indices
    <2>. QED BY <2>5, <2>6
  <1>7. Entered1(n)
    <2>1. n \in P
      <3>. HIDE DEF P
      <3>. QED BY <1>2, <1>5, <1>6, UpTo, Indices
    <2>. HIDE DEF Entered1
    <2>. QED BY <2>1
  <1>8. seen(n) = ToSet(cand)
    BY <1>2 DEF ToSet
  <1>9. g[n] \in Searches
    BY <1>2, <1>4, Indices
  <1>. HIDE DEF seen
  <1>. QED BY <1>3, <1>7, <1>8, <1>9

\* The arrows a walk may follow.
Followed(E, K, min) == {<<e.from, e.to>> : e \in {f \in E : f.kind \in K /\ f.strength >= min}}

\* Edges are followed between concepts.
LEMMA FollowedIds ==
  ASSUME NEW E \in SUBSET Edge, NEW K, NEW min
  PROVE  IsRelation(Followed(E, K, min), ConceptIds)
  BY DEF Followed, Edge, IsRelation

\* The paths one step longer than p.
NextPaths(R, p) == {Append(p, c) : c \in Onward(R, {Last(p)})}

\* Longer lists a path's continuations, by the edges that are strong enough.
LEMMA LongerPaths ==
  ASSUME NEW E \in SUBSET Edge, IsFiniteSet(E), NEW kinds, NEW min, NEW p \in Paths
  PROVE  /\ Longer(E, kinds, min, p) \in Seq(Paths)
         /\ ToSet(Longer(E, kinds, min, p)) = NextPaths(Followed(E, ToSet(kinds), min), p)
  <1>. DEFINE R == Followed(E, ToSet(kinds), min)
              S == {e \in E : e.kind \in ToSet(kinds) /\ e.from = Last(p) /\ e.strength >= min}
              next == SortEdges(S)
  <1>1. next \in Seq(S) /\ ToSet(next) = S /\ DOMAIN next = 1..Len(next)
    <2>1. S \in SUBSET Edge /\ S \in SUBSET E
      OBVIOUS
    <2>. HIDE DEF S
    <2>2. IsFiniteSet(S)
      BY <2>1, FS_Subset
    <2>. QED BY <2>1, <2>2, EdgesAreListed
  <1>2. Longer(E, kinds, min, p) = [i \in 1..Len(next) |-> Append(p, next[i].to)]
    BY <1>1 DEF Longer
  <1>3. \A e \in S : e.to \in ConceptIds
    BY DEF Edge
  <1>4. {e.to : e \in S} = Onward(R, {Last(p)})
    <2>1. ASSUME NEW e \in S PROVE e.to \in Onward(R, {Last(p)})
      <3>1. <<e.from, e.to>> \in R /\ e.from = Last(p)
        BY DEF Followed
      <3>. QED BY <3>1 DEF Onward
    <2>2. ASSUME NEW c \in Onward(R, {Last(p)}) PROVE c \in {e.to : e \in S}
      <3>1. PICK r \in R : r[1] = Last(p) /\ c = r[2]
        BY DEF Onward
      <3>2. PICK e \in E : e.kind \in ToSet(kinds) /\ e.strength >= min /\ r = <<e.from, e.to>>
        BY <3>1 DEF Followed
      <3>3. e \in S /\ e.to = c
        BY <3>1, <3>2
      <3>. QED BY <3>3
    <2>. HIDE DEF S, R
    <2>. QED BY <2>1, <2>2
  <1>5. ASSUME NEW c \in ConceptIds PROVE Append(p, c) \in Paths
    BY DEF Paths
  <1>. HIDE DEF S, R, next
  <1>6. \A i \in 1..Len(next) : next[i] \in S
    BY <1>1
  <1>7. Len(next) \in Nat
    BY <1>1
  <1>8. Longer(E, kinds, min, p) \in Seq(Paths)
    BY <1>2, <1>3, <1>5, <1>6, <1>7
  <1>9. ToSet(Longer(E, kinds, min, p)) = {Append(p, next[i].to) : i \in 1..Len(next)}
    BY <1>2 DEF ToSet
  <1>10. S = {next[i] : i \in 1..Len(next)}
    BY <1>1 DEF ToSet
  <1>11. {Append(p, next[i].to) : i \in 1..Len(next)} = {Append(p, e.to) : e \in S}
    BY <1>10
  <1>12. {Append(p, e.to) : e \in S} = {Append(p, c) : c \in {e.to : e \in S}}
    OBVIOUS
  <1>. QED BY <1>4, <1>8, <1>9, <1>11, <1>12 DEF R, NextPaths

\* The continuations of a layer's paths, in the order in which they are tried.
CandidatesOf(E, kinds, min, layer) ==
    FlattenSeq([i \in DOMAIN layer |-> Longer(E, kinds, min, layer[i])])

\* Every path of qs is one of ps with a step of R after it.
AreNext(qs, ps, R) ==
    \A q \in qs : \E p \in ps, c \in ConceptIds : <<Last(p), c>> \in R /\ q = Append(p, c)

\* The candidates of a layer.
LEMMA Candidates ==
  ASSUME NEW E \in SUBSET Edge, IsFiniteSet(E), NEW kinds, NEW min, NEW layer \in Seq(Paths)
  PROVE  /\ CandidatesOf(E, kinds, min, layer) \in Seq(Paths)
         /\ AreNext(ToSet(CandidatesOf(E, kinds, min, layer)), ToSet(layer),
                    Followed(E, ToSet(kinds), min))
         /\ Lasts(ToSet(CandidatesOf(E, kinds, min, layer))) =
              Onward(Followed(E, ToSet(kinds), min), Lasts(ToSet(layer)))
  <1>. DEFINE R == Followed(E, ToSet(kinds), min)
              ss == [i \in DOMAIN layer |-> Longer(E, kinds, min, layer[i])]
              cand == FlattenSeq(ss)
              long(p) == NextPaths(R, p)
  <1>1. /\ DOMAIN layer = 1..Len(layer) /\ Len(layer) \in Nat
        /\ \A i \in DOMAIN layer : layer[i] \in Paths
    OBVIOUS
  <1>2. \A i \in DOMAIN layer : ss[i] \in Seq(Paths) /\ ToSet(ss[i]) = long(layer[i])
    <2>1. ASSUME NEW i \in DOMAIN layer PROVE ss[i] \in Seq(Paths) /\ ToSet(ss[i]) = long(layer[i])
      <3>. DEFINE p == layer[i]
      <3>1. p \in Paths /\ ss[i] = Longer(E, kinds, min, p)
        BY <1>1
      <3>. HIDE DEF p, ss
      <3>2. ss[i] \in Seq(Paths) /\ ToSet(ss[i]) = long(p)
        BY <3>1, LongerPaths
      <3>. QED BY <3>2 DEF p
    <2>. HIDE DEF ss, long
    <2>. QED BY <2>1
  <1>3. ss \in Seq(Seq(Paths)) /\ DOMAIN ss = DOMAIN layer
    <2>1. ss = [i \in 1..Len(layer) |-> ss[i]]
      BY <1>1
    <2>. HIDE DEF ss
    <2>2. DOMAIN ss = 1..Len(layer)
      BY <2>1
    <2>3. \A i \in 1..Len(layer) : ss[i] \in Seq(Paths)
      BY <1>1, <1>2
    <2>4. ss \in [1..Len(layer) -> Seq(Paths)]
      BY <2>1, <2>3
    <2>. QED BY <1>1, <2>2, <2>4
  <1>. HIDE DEF ss
  <1>4. cand \in Seq(Paths) /\ ToSet(cand) = UNION {ToSet(ss[i]) : i \in DOMAIN layer}
    BY <1>3, Flattened
  <1>. HIDE DEF cand
  <1>5. ToSet(cand) = UNION {long(p) : p \in ToSet(layer)}
    <2>. HIDE DEF long
    <2>1. \A i \in DOMAIN layer : layer[i] \in ToSet(layer)
      BY DEF ToSet
    <2>2. \A p \in ToSet(layer) : \E i \in DOMAIN layer : p = layer[i]
      BY DEF ToSet
    <2>3. \A q : q \in ToSet(cand) <=> \E i \in DOMAIN layer : q \in long(layer[i])
      BY <1>2, <1>4
    <2>4. \A q : q \in ToSet(cand) <=> \E p \in ToSet(layer) : q \in long(p)
      BY <2>1, <2>2, <2>3
    <2>. QED BY <2>4
  <1>6. ToSet(layer) \in SUBSET Paths
    BY <1>1 DEF ToSet
  <1>7. ASSUME NEW p \in Paths, NEW c \in ConceptIds PROVE Last(Append(p, c)) = c
    BY DEF Paths, Last
  <1>8. R \in SUBSET (ConceptIds \X ConceptIds)
    BY FollowedIds DEF IsRelation
  <1>. HIDE DEF R
  <1>9. ASSUME NEW q \in ToSet(cand)
        PROVE \E p \in ToSet(layer), c \in ConceptIds : <<Last(p), c>> \in R /\ q = Append(p, c)
    <2>1. PICK p \in ToSet(layer) : q \in long(p)
      BY <1>5
    <2>2. PICK r \in R : r[1] = Last(p) /\ q = Append(p, r[2])
      BY <2>1 DEF Onward, NextPaths
    <2>3. r = <<Last(p), r[2]>> /\ r[2] \in ConceptIds
      BY <1>8, <2>2
    <2>. QED BY <2>2, <2>3
  <1>10. Lasts(ToSet(cand)) = Onward(R, Lasts(ToSet(layer)))
    <2>1. ASSUME NEW q \in ToSet(cand) PROVE Last(q) \in Onward(R, Lasts(ToSet(layer)))
      <3>1. PICK p \in ToSet(layer), c \in ConceptIds : <<Last(p), c>> \in R /\ q = Append(p, c)
        BY <1>9
      <3>2. Last(q) = c /\ Last(p) \in Lasts(ToSet(layer))
        BY <1>6, <1>7, <3>1 DEF Lasts
      <3>. QED BY <3>1, <3>2 DEF Onward
    <2>2. ASSUME NEW c \in Onward(R, Lasts(ToSet(layer))) PROVE c \in Lasts(ToSet(cand))
      <3>1. PICK r \in R : r[1] \in Lasts(ToSet(layer)) /\ c = r[2]
        BY DEF Onward
      <3>2. PICK p \in ToSet(layer) : r[1] = Last(p)
        BY <3>1 DEF Lasts
      <3>3. c \in Onward(R, {Last(p)})
        BY <3>1, <3>2 DEF Onward
      <3>4. Append(p, c) \in ToSet(cand)
        <4>1. Append(p, c) \in long(p)
          BY <3>3 DEF NextPaths
        <4>. HIDE DEF long
        <4>. QED BY <1>5, <4>1
      <3>5. Last(Append(p, c)) = c
        BY <1>6, <1>7, <1>8, <3>1
      <3>. QED BY <3>4, <3>5 DEF Lasts
    <2>. QED BY <2>1, <2>2 DEF Lasts
  <1>11. cand = CandidatesOf(E, kinds, min, layer)
    BY DEF cand, ss, CandidatesOf
  <1>12. AreNext(ToSet(cand), ToSet(layer), R)
    BY <1>9 DEF AreNext
  <1>. QED BY <1>4, <1>10, <1>11, <1>12 DEF R

\* What up to k steps lead to, from itself.
UpToAfter(R, id, k) == UNION {After(R, id, j) : j \in 0..k}

\* What up to k steps lead to spreads by one step of R each time.
LEMMA Spread ==
  ASSUME NEW C, NEW R, IsRelation(R, C), NEW id \in C, NEW k \in Nat
  PROVE  /\ UpToAfter(R, id, k) = UpToAfter(R, id, k - 1) \cup After(R, id, k)
         /\ Onward(R, UpToAfter(R, id, k)) \subseteq UpToAfter(R, id, k + 1)
         /\ UpToAfter(R, id, k) \in SUBSET C
         /\ UpToAfter(R, id, k) = {id} \cup Within(R, id, k)
  <1>1. /\ After(R, id, 0) = {id}
        /\ \A n \in Nat : /\ After(R, id, n) \in SUBSET C
                          /\ After(R, id, n + 1) = Onward(R, After(R, id, n))
    BY AfterSteps
  <1>2. 0..k = (0..(k - 1)) \cup {k} /\ 0..k = {0} \cup (1..k)
    OBVIOUS
  <1>3. UpToAfter(R, id, k) = UpToAfter(R, id, k - 1) \cup After(R, id, k)
    BY <1>2 DEF UpToAfter
  <1>4. ASSUME NEW x \in Onward(R, UpToAfter(R, id, k)) PROVE x \in UpToAfter(R, id, k + 1)
    <2>1. PICK r \in R : r[1] \in UpToAfter(R, id, k) /\ x = r[2]
      BY DEF Onward
    <2>2. PICK j \in 0..k : r[1] \in After(R, id, j)
      BY <2>1 DEF UpToAfter
    <2>3. x \in After(R, id, j + 1)
      <3>1. After(R, id, j + 1) = Onward(R, After(R, id, j))
        BY <1>1
      <3>. QED BY <2>1, <2>2, <3>1 DEF Onward
    <2>4. j + 1 \in 0..(k + 1)
      OBVIOUS
    <2>. QED BY <2>3, <2>4 DEF UpToAfter
  <1>5. UpToAfter(R, id, k) \in SUBSET C
    <2>1. \A j \in 0..k : After(R, id, j) \in SUBSET C
      BY <1>1
    <2>. QED BY <2>1 DEF UpToAfter
  <1>6. UpToAfter(R, id, k) = {id} \cup Within(R, id, k)
    <2>1. After(R, id, 0) = {id}
      BY <1>1
    <2>. QED BY <1>2, <2>1 DEF UpToAfter, Within
  <1>. QED BY <1>3, <1>4, <1>5, <1>6

\* A layer of Path: what is new of the continuations is visited, and found.
LEMMA EnterLayers ==
  ASSUME NEW E \in SUBSET Edge, IsFiniteSet(E), NEW kinds, NEW min, NEW s \in Searches
  PROVE  LET R == Followed(E, ToSet(kinds), min)
             t == EnterLayer(E, kinds, min, s) IN
         /\ t \in Searches
         /\ t.visited = s.visited \cup Onward(R, Lasts(ToSet(s.layer)))
         /\ AreNext(ToSet(t.layer), ToSet(s.layer), R)
         /\ Lasts(ToSet(t.layer)) = Onward(R, Lasts(ToSet(s.layer))) \ s.visited
         /\ ToSet(t.found) = ToSet(s.found) \cup ToSet(t.layer)
  <1>. DEFINE R == Followed(E, ToSet(kinds), min)
              start == [s EXCEPT !.layer = <<>>]
              cand == CandidatesOf(E, kinds, min, s.layer)
              t == FoldLeft(Enter, start, cand)
  <1>1. s.layer \in Seq(Paths)
    BY DEF Searches
  <1>2. /\ start \in Searches /\ start.layer = <<>> /\ start.visited = s.visited
        /\ start.found = s.found
    <2>1. <<>> \in Seq(Paths)
      OBVIOUS
    <2>2. start = [visited |-> s.visited, layer |-> <<>>, found |-> s.found]
      BY DEF Searches
    <2>3. s.visited \in SUBSET ConceptIds /\ s.found \in Seq(Paths)
      BY DEF Searches
    <2>. QED BY <2>1, <2>2, <2>3 DEF Searches
  <1>3. /\ cand \in Seq(Paths)
        /\ AreNext(ToSet(cand), ToSet(s.layer), R)
        /\ Lasts(ToSet(cand)) = Onward(R, Lasts(ToSet(s.layer)))
    BY <1>1, Candidates
  <1>4. t = EnterLayer(E, kinds, min, s)
    BY DEF EnterLayer, CandidatesOf
  <1>. HIDE DEF start, cand
  <1>5. /\ t \in Searches
        /\ t.visited = start.visited \cup Lasts(ToSet(cand))
        /\ ToSet(t.layer) \subseteq ToSet(cand)
        /\ Lasts(ToSet(t.layer)) = Lasts(ToSet(cand)) \ start.visited
        /\ ToSet(t.found) = ToSet(start.found) \cup ToSet(t.layer)
    BY <1>2, <1>3, Entering
  <1>. HIDE DEF t, R
  <1>6. AreNext(ToSet(t.layer), ToSet(s.layer), R)
    BY <1>3, <1>5 DEF AreNext
  <1>. QED BY <1>2, <1>3, <1>4, <1>5, <1>6 DEF R

\* f is what Search knows after each layer.
IsSearch(f, n, E, kinds, min, from) ==
    /\ f \in [0..n -> Searches]
    /\ f[0] = [visited |-> {from}, layer |-> << <<from>> >>, found |-> <<>>]
    /\ \A k \in 1..n : f[k] = EnterLayer(E, kinds, min, f[k - 1])

\* Search goes layer by layer.
LEMMA SearchRuns ==
  ASSUME NEW E \in SUBSET Edge, IsFiniteSet(E), NEW kinds, NEW min, NEW from \in ConceptIds,
         NEW n \in Nat
  PROVE  \E f : IsSearch(f, n, E, kinds, min, from) /\ Search(E, kinds, min, from, n) = f[n]
  <1>. DEFINE start == [visited |-> {from}, layer |-> << <<from>> >>, found |-> <<>>]
              G == [q \in Searches \X (1..n) |-> EnterLayer(E, kinds, min, q[1])]
              IsSearched(f) == f = [d \in 0..n |->
                 IF d = 0 THEN [visited |-> {from}, layer |-> << <<from>> >>, found |-> <<>>]
                          ELSE EnterLayer(E, kinds, min, f[d - 1])]
              f == CHOOSE f : IsSearched(f)
  <1>1. start \in Searches
    <2>1. <<from>> \in Paths
      BY DEF Paths
    <2>. QED BY <2>1 DEF Searches
  <1>2. G \in [Searches \X (1..n) -> Searches]
    <2>1. \A s \in Searches : EnterLayer(E, kinds, min, s) \in Searches
      BY EnterLayers
    <2>. QED BY <2>1
  <1>. HIDE DEF start
  <1>3. PICK g : IsRecursion(g, n, Searches, start, G)
    <2>. HIDE DEF G
    <2>. QED BY <1>1, <1>2, RecursionExists
  <1>4. /\ g \in [0..n -> Searches] /\ g[0] = start
        /\ \A k \in 1..n : g[k] = EnterLayer(E, kinds, min, g[k - 1])
    <2>1. /\ g \in [0..n -> Searches] /\ g[0] = start
          /\ \A k \in 1..n : k - 1 \in 0..n /\ g[k] = G[<<g[k - 1], k>>]
      <3>. HIDE DEF G
      <3>. QED BY <1>3, Indices DEF IsRecursion
    <2>2. \A k \in 1..n : g[k - 1] \in Searches
      <3>. HIDE DEF G
      <3>. QED BY <2>1
    <2>. QED BY <2>1, <2>2
  <1>. HIDE DEF G
  <1>5. IsSearched(g)
    <2>1. ASSUME NEW k \in 0..n
          PROVE g[k] = IF k = 0 THEN start ELSE EnterLayer(E, kinds, min, g[k - 1])
      <3>1. CASE k = 0
        BY <1>4, <3>1
      <3>2. CASE k # 0
        <4>1. k \in 1..n
          BY <3>2
        <4>. QED BY <1>4, <3>2, <4>1
      <3>. QED BY <3>1, <3>2
    <2>. QED BY <1>4, <2>1 DEF start
  <1>6. IsSearched(f)
    <2>. HIDE DEF IsSearched
    <2>. QED BY <1>5
  <1>7. Search(E, kinds, min, from, n) = f[n]
    BY DEF Search
  <1>. HIDE DEF f
  <1>8. f[0] = start /\ \A k \in 1..n : f[k] = EnterLayer(E, kinds, min, f[k - 1])
    <2>1. 0 \in 0..n /\ \A k \in 1..n : k \in 0..n /\ k # 0
      OBVIOUS
    <2>. QED BY <1>6, <2>1 DEF start
  <1>9. f \in [0..n -> Searches]
    <2>1. f = [k \in 0..n |-> f[k]]
      <3>. DEFINE step(k) == IF k = 0 THEN start ELSE EnterLayer(E, kinds, min, f[k - 1])
      <3>1. f = [k \in 0..n |-> step(k)]
        BY <1>6 DEF start
      <3>. HIDE DEF step
      <3>. QED BY <3>1
    <2>2. \A s \in Searches : EnterLayer(E, kinds, min, s) \in Searches
      BY EnterLayers
    <2>3. \A k \in 1..n : f[k - 1] \in Searches => f[k] \in Searches
      BY <1>8, <2>2
    <2>. HIDE DEF IsSearched
    <2>. QED BY <1>1, <1>8, <2>1, <2>3, StepsType
  <1>. QED BY <1>7, <1>8, <1>9 DEF IsSearch, start

-----------------------------------------------------------------------------
(* Path: what the search knows after any number of layers.                  *)

\* A walk of k steps of R.
IsWalk(p, R, from, k) ==
    /\ p \in Paths /\ Len(p) = k + 1 /\ p[1] = from
    /\ \A i \in 1..k : <<p[i], p[i + 1]>> \in R

\* A walk and one step more is a walk.
LEMMA WalksGrow ==
  ASSUME NEW R, NEW from, NEW k \in Nat, NEW p, IsWalk(p, R, from, k),
         NEW c \in ConceptIds, <<Last(p), c>> \in R
  PROVE  IsWalk(Append(p, c), R, from, k + 1) /\ Last(Append(p, c)) = c
  <1>. DEFINE q == Append(p, c)
  <1>1. p \in Seq(ConceptIds) /\ Len(p) = k + 1 /\ p[1] = from /\ p[k + 1] = Last(p)
    BY DEF IsWalk, Paths, Last
  <1>2. /\ q \in Seq(ConceptIds) /\ q # <<>> /\ Len(q) = k + 2 /\ q[k + 2] = c
        /\ \A i \in 1..(k + 1) : q[i] = p[i]
    BY <1>1
  <1>3. q \in Paths /\ Len(q) = (k + 1) + 1
    BY <1>2 DEF Paths
  <1>4. q[1] = from
    BY <1>1, <1>2
  <1>5. ASSUME NEW i \in 1..(k + 1) PROVE <<q[i], q[i + 1]>> \in R
    <2>1. CASE i = k + 1
      <3>1. q[i] = Last(p) /\ q[i + 1] = c
        BY <1>1, <1>2, <2>1
      <3>. QED BY <3>1
    <2>2. CASE i # k + 1
      <3>1. i \in 1..k /\ i + 1 \in 1..(k + 1)
        BY <2>2
      <3>2. q[i] = p[i] /\ q[i + 1] = p[i + 1]
        BY <1>2, <3>1
      <3>. QED BY <3>1, <3>2 DEF IsWalk
    <2>. QED BY <2>1, <2>2
  <1>6. Last(q) = c
    BY <1>2 DEF Last
  <1>. HIDE DEF q
  <1>. QED BY <1>3, <1>4, <1>5, <1>6 DEF IsWalk, q

\* A search k layers deep.
Searched(s, R, from, k) ==
    /\ s.visited = UpToAfter(R, from, k)
    /\ \A p \in ToSet(s.layer) : IsWalk(p, R, from, k)
    /\ Lasts(ToSet(s.layer)) = After(R, from, k) \ UpToAfter(R, from, k - 1)
    /\ \A q \in ToSet(s.found) :
         \E j \in 1..k : IsWalk(q, R, from, j) /\ Last(q) \notin UpToAfter(R, from, j - 1)
    /\ s.visited = {from} \cup Lasts(ToSet(s.found))

\* A layer more keeps that.
LEMMA SearchedSteps ==
  ASSUME NEW E \in SUBSET Edge, IsFiniteSet(E), NEW kinds, NEW min, NEW from \in ConceptIds,
         NEW k \in Nat, NEW s \in Searches,
         Searched(s, Followed(E, ToSet(kinds), min), from, k)
  PROVE  Searched(EnterLayer(E, kinds, min, s), Followed(E, ToSet(kinds), min), from, k + 1)
  <1>. DEFINE R == Followed(E, ToSet(kinds), min)
              t == EnterLayer(E, kinds, min, s)
              W(n) == After(R, from, n)
              U(n) == UpToAfter(R, from, n)
  <1>1. /\ t \in Searches
        /\ t.visited = s.visited \cup Onward(R, Lasts(ToSet(s.layer)))
        /\ AreNext(ToSet(t.layer), ToSet(s.layer), R)
        /\ Lasts(ToSet(t.layer)) = Onward(R, Lasts(ToSet(s.layer))) \ s.visited
        /\ ToSet(t.found) = ToSet(s.found) \cup ToSet(t.layer)
    BY EnterLayers
  <1>2. IsRelation(R, ConceptIds)
    BY FollowedIds
  <1>. HIDE DEF R, t
  <1>3. W(k + 1) = Onward(R, W(k))
    BY <1>2, AfterSteps
  <1>4. /\ U(k) = U(k - 1) \cup W(k)
        /\ U(k + 1) = U(k) \cup W(k + 1)
        /\ Onward(R, U(k - 1)) \subseteq U(k)
    <2>1. k + 1 \in Nat /\ (k + 1) - 1 = k
      OBVIOUS
    <2>2. U(k) = U(k - 1) \cup W(k) /\ Onward(R, U(k)) \subseteq U(k + 1)
      BY <1>2, Spread
    <2>3. U(k + 1) = U(k) \cup W(k + 1)
      <3>1. U(k + 1) = U((k + 1) - 1) \cup W(k + 1)
        BY <1>2, <2>1, Spread
      <3>. QED BY <2>1, <3>1
    <2>4. Onward(R, U(k - 1)) \subseteq U(k)
      <3>1. CASE k = 0
        <4>1. U(k - 1) = {}
          BY <3>1 DEF UpToAfter
        <4>. QED BY <4>1 DEF Onward
      <3>2. CASE k # 0
        <4>1. k - 1 \in Nat /\ (k - 1) + 1 = k
          BY <3>2
        <4>2. Onward(R, U(k - 1)) \subseteq U((k - 1) + 1)
          BY <1>2, <4>1, Spread
        <4>. QED BY <4>1, <4>2
      <3>. QED BY <3>1, <3>2
    <2>. QED BY <2>2, <2>3, <2>4
  <1>. HIDE DEF W, U
  <1>5. /\ s.visited = U(k) /\ Lasts(ToSet(s.layer)) = W(k) \ U(k - 1)
        /\ \A p \in ToSet(s.layer) : IsWalk(p, R, from, k)
        /\ \A q \in ToSet(s.found) :
             \E j \in 1..k : IsWalk(q, R, from, j) /\ Last(q) \notin U(j - 1)
        /\ s.visited = {from} \cup Lasts(ToSet(s.found))
    BY DEF Searched, R, U, W
  <1>6. Onward(R, W(k) \ U(k - 1)) \ U(k) = W(k + 1) \ U(k)
    <2>1. Onward(R, W(k)) \subseteq Onward(R, W(k) \ U(k - 1)) \cup Onward(R, U(k - 1))
      BY DEF Onward
    <2>2. Onward(R, W(k) \ U(k - 1)) \subseteq Onward(R, W(k))
      BY DEF Onward
    <2>. QED BY <1>3, <1>4, <2>1, <2>2
  <1>7. t.visited = U(k + 1)
    BY <1>1, <1>4, <1>5, <1>6
  <1>8. Lasts(ToSet(t.layer)) = W(k + 1) \ U(k)
    BY <1>1, <1>5, <1>6
  <1>9. ASSUME NEW q \in ToSet(t.layer) PROVE IsWalk(q, R, from, k + 1)
    <2>1. PICK p \in ToSet(s.layer), c \in ConceptIds : <<Last(p), c>> \in R /\ q = Append(p, c)
      BY <1>1 DEF AreNext
    <2>2. IsWalk(p, R, from, k)
      BY <1>5
    <2>. QED BY <2>1, <2>2, WalksGrow
  <1>10. ASSUME NEW q \in ToSet(t.found)
         PROVE \E j \in 1..(k + 1) : IsWalk(q, R, from, j) /\ Last(q) \notin U(j - 1)
    <2>1. CASE q \in ToSet(s.found)
      <3>1. PICK j \in 1..k : IsWalk(q, R, from, j) /\ Last(q) \notin U(j - 1)
        BY <1>5, <2>1
      <3>2. j \in 1..(k + 1)
        OBVIOUS
      <3>. QED BY <3>1, <3>2
    <2>2. CASE q \in ToSet(t.layer)
      <3>1. k + 1 \in 1..(k + 1) /\ (k + 1) - 1 = k
        OBVIOUS
      <3>2. Last(q) \notin U(k)
        BY <1>8, <2>2 DEF Lasts
      <3>3. IsWalk(q, R, from, k + 1) /\ Last(q) \notin U((k + 1) - 1)
        BY <1>9, <2>2, <3>1, <3>2
      <3>. QED BY <3>1, <3>3
    <2>. QED BY <1>1, <2>1, <2>2
  <1>11. t.visited = {from} \cup Lasts(ToSet(t.found))
    <2>1. Lasts(ToSet(t.found)) = Lasts(ToSet(s.found)) \cup Lasts(ToSet(t.layer))
      BY <1>1 DEF Lasts
    <2>. QED BY <1>4, <1>5, <1>7, <1>8, <2>1
  <1>12. (k + 1) - 1 = k
    OBVIOUS
  <1>. QED BY <1>7, <1>8, <1>9, <1>10, <1>11, <1>12 DEF Searched, R, t, U, W

\* After any number of layers the search knows that.
LEMMA SearchFinds ==
  ASSUME NEW E \in SUBSET Edge, IsFiniteSet(E), NEW kinds, NEW min, NEW from \in ConceptIds,
         NEW n \in Nat
  PROVE  /\ Search(E, kinds, min, from, n) \in Searches
         /\ Searched(Search(E, kinds, min, from, n), Followed(E, ToSet(kinds), min), from, n)
  <1>. DEFINE R == Followed(E, ToSet(kinds), min)
  <1>1. PICK f : IsSearch(f, n, E, kinds, min, from) /\ Search(E, kinds, min, from, n) = f[n]
    BY SearchRuns
  <1>2. /\ f \in [0..n -> Searches]
        /\ f[0] = [visited |-> {from}, layer |-> << <<from>> >>, found |-> <<>>]
        /\ \A k \in 1..n : f[k] = EnterLayer(E, kinds, min, f[k - 1])
    BY <1>1 DEF IsSearch
  <1>. DEFINE P == {k \in 0..n : Searched(f[k], R, from, k)}
  <1>3. Searched(f[0], R, from, 0)
    <2>1. IsRelation(R, ConceptIds)
      BY FollowedIds
    <2>. HIDE DEF R
    <2>2. After(R, from, 0) = {from}
      BY <2>1, AfterSteps
    <2>3. UpToAfter(R, from, 0) = {from} /\ UpToAfter(R, from, 0 - 1) = {}
      <3>1. 0..0 = {0} /\ 0..(0 - 1) = {}
        OBVIOUS
      <3>. QED BY <2>2, <3>1 DEF UpToAfter
    <2>4. f[0].visited = {from} /\ f[0].layer = << <<from>> >> /\ f[0].found = <<>>
      BY <1>2
    <2>5. ToSet(f[0].layer) = {<<from>>} /\ ToSet(f[0].found) = {}
      BY <2>4 DEF ToSet
    <2>6. Last(<<from>>) = from /\ <<from>> \in Paths /\ Len(<<from>>) = 1 /\ <<from>>[1] = from
      BY DEF Last, Paths
    <2>7. IsWalk(<<from>>, R, from, 0)
      BY <2>6 DEF IsWalk
    <2>8. Lasts({<<from>>}) = {from} /\ Lasts({}) = {}
      BY <2>6 DEF Lasts
    <2>. QED BY <2>2, <2>3, <2>4, <2>5, <2>7, <2>8 DEF Searched
  <1>. HIDE DEF R
  <1>4. 0 \in P
    BY <1>3
  <1>5. ASSUME NEW k \in 1..n, k - 1 \in P PROVE k \in P
    <2>1. k - 1 \in Nat /\ (k - 1) + 1 = k /\ k \in 0..n /\ k - 1 \in 0..n
      OBVIOUS
    <2>2. f[k - 1] \in Searches /\ Searched(f[k - 1], R, from, k - 1)
      BY <1>2, <1>5, <2>1
    <2>3. Searched(EnterLayer(E, kinds, min, f[k - 1]), R, from, (k - 1) + 1)
      BY <2>1, <2>2, SearchedSteps DEF R
    <2>4. Searched(f[k], R, from, k)
      BY <1>2, <2>1, <2>3
    <2>. QED BY <2>1, <2>4
  <1>6. n \in P
    <2>. HIDE DEF P
    <2>. QED BY <1>4, <1>5, UpTo, Indices
  <1>. QED BY <1>1, <1>2, <1>6, Indices DEF R

\* The least of a set of numbers.
LEMMA MinOf ==
  ASSUME NEW t \in SUBSET Nat, t # {}
  PROVE  Min(t) \in t /\ \A k \in t : Min(t) <= k
  <1>1. PICK k \in t : \A j \in t : ~ (<<j, k>> \in OpToRel(<, Nat))
    <2>1. IsWellFoundedOn(OpToRel(<, Nat), Nat)
      BY NatLessThanWellFounded
    <2>. QED BY <2>1, WFMin
  <1>2. k \in Nat /\ \A j \in t : j \in Nat
    OBVIOUS
  <1>3. \A j \in t : ~ (j < k)
    BY <1>2, <1>1 DEF OpToRel
  <1>4. \A j \in t : k <= j
    BY <1>2, <1>3
  <1>5. \E x \in t : \A y \in t : x <= y
    BY <1>4
  <1>. QED BY <1>5 DEF Min

\* Path answers the walk turned round, and only if there is none of that
\* length answers none.
LEMMA PathsAreFound ==
  ASSUME NEW E \in SUBSET Edge, IsFiniteSet(E), NEW from \in ConceptIds, NEW to \in ConceptIds,
         from # to, NEW opts, Depth(opts, MaxTraversalDepth) \in Nat
  PROVE  LET R == Followed(E, ToSet(Kinds(opts, CycleCheckedKinds)), opts.min)
             path == Path(E, from, to, opts) IN
         IF path = NoPath THEN to \notin Within(R, from, Depth(opts, MaxTraversalDepth))
         ELSE IsStudyPath(path, R, from, to)
  <1>. DEFINE kinds == Kinds(opts, CycleCheckedKinds)
              depth == Depth(opts, MaxTraversalDepth)
              R == Followed(E, ToSet(kinds), opts.min)
              s == Search(E, kinds, opts.min, from, depth)
              hits == {i \in DOMAIN s.found : Last(s.found[i]) = to}
              path == Path(E, from, to, opts)
  <1>1. s \in Searches /\ Searched(s, R, from, depth) /\ depth \in Nat
    BY SearchFinds
  <1>2. path = IF hits = {} THEN NoPath ELSE StudyOrder(s.found[Min(hits)])
    BY DEF Path
  <1>3. IsRelation(R, ConceptIds)
    BY FollowedIds
  <1>4. /\ s.found \in Seq(Paths) /\ DOMAIN s.found \in SUBSET Nat
        /\ UpToAfter(R, from, depth) = {from} \cup Lasts(ToSet(s.found))
        /\ \A q \in ToSet(s.found) :
             \E j \in 1..depth : IsWalk(q, R, from, j) /\ Last(q) \notin UpToAfter(R, from, j - 1)
    BY <1>1 DEF Searched, Searches
  <1>. HIDE DEF s, R, kinds, path, depth
  <1>5. CASE hits = {}
    <2>1. to \notin Lasts(ToSet(s.found))
      BY <1>5 DEF Lasts, ToSet
    <2>2. to \notin UpToAfter(R, from, depth)
      BY <1>4, <2>1
    <2>3. to \notin Within(R, from, depth)
      BY <1>1, <1>3, <2>2, Spread
    <2>. QED BY <1>2, <1>5, <2>3 DEF R, path, kinds, depth
  <1>6. CASE hits # {}
    <2>. DEFINE i == Min(hits)
                q == s.found[i]
    <2>1. i \in DOMAIN s.found /\ Last(q) = to
      <3>1. hits \in SUBSET Nat
        BY <1>4
      <3>2. Min(hits) \in hits
        <4>. HIDE DEF hits
        <4>. QED BY <1>6, <3>1, MinOf
      <3>. QED BY <3>2
    <2>2. q \in ToSet(s.found)
      BY <2>1 DEF ToSet
    <2>3. path = Reverse(q)
      BY <1>2, <1>6 DEF StudyOrder
    <2>. HIDE DEF q, hits, i
    <2>4. PICK k \in 1..depth : IsWalk(q, R, from, k) /\ to \notin UpToAfter(R, from, k - 1)
      BY <1>4, <2>1, <2>2
    <2>5. /\ q \in Seq(ConceptIds) /\ Len(q) = k + 1 /\ k \in Nat /\ q[1] = from /\ q[k + 1] = to
          /\ \A n \in 1..k : <<q[n], q[n + 1]>> \in R
      BY <1>1, <2>1, <2>4 DEF IsWalk, Paths, Last
    <2>6. /\ DOMAIN path = 1..(k + 1) /\ Len(path) = k + 1
          /\ \A n \in 1..(k + 1) : path[n] = q[(k + 1 - n) + 1]
      BY <2>3, <2>5 DEF Reverse
    <2>7. path # NoPath
      BY <2>5, <2>6 DEF NoPath
    <2>8. path[1] = to /\ path[Len(path)] = from
      <3>1. 1 \in 1..(k + 1) /\ k + 1 \in 1..(k + 1)
            /\ (k + 1 - 1) + 1 = k + 1 /\ (k + 1 - (k + 1)) + 1 = 1
        BY <2>5
      <3>. QED BY <2>5, <2>6, <3>1
    <2>9. ASSUME NEW n \in 1..(Len(path) - 1) PROVE <<path[n + 1], path[n]>> \in R
      <3>1. /\ n \in 1..(k + 1) /\ n + 1 \in 1..(k + 1) /\ k + 1 - n \in 1..k
            /\ (k + 1 - (n + 1)) + 1 = k + 1 - n
        BY <2>5, <2>6
      <3>2. path[n + 1] = q[k + 1 - n] /\ path[n] = q[(k + 1 - n) + 1]
        BY <2>6, <3>1
      <3>. QED BY <2>5, <3>1, <3>2
    <2>10. ASSUME NEW n \in 1..(Len(path) - 2) PROVE to \notin After(R, from, n)
      <3>1. n \in 0..(k - 1)
        BY <2>5, <2>6
      <3>. QED BY <2>4, <3>1 DEF UpToAfter
    <2>11. IsStudyPath(path, R, from, to)
      BY <2>8, <2>9, <2>10 DEF IsStudyPath
    <2>. QED BY <2>7, <2>11 DEF path, R, kinds
  <1>. QED BY <1>5, <1>6

\* What a walk along the cycle-checked kinds follows is one way.
LEMMA StepsOneWay ==
  ASSUME NEW E \in SUBSET Edge
  PROVE  /\ Steps(E, ToSet(CycleCheckedKinds), 0, TRUE) = Followed(E, ToSet(CycleCheckedKinds), 0)
         /\ Steps(E, {"requires"}, 0, TRUE) = Followed(E, {"requires"}, 0)
  <1>1. ASSUME NEW K, "alternative" \notin K
        PROVE  Steps(E, K, 0, TRUE) = Followed(E, K, 0)
    <2>1. {e \in E : e.kind = "alternative" /\ e.kind \in K /\ e.strength >= 0} = {}
      BY <1>1
    <2>. QED BY <2>1 DEF Steps, Followed, Near, Peer
  <1>2. "alternative" \notin ToSet(CycleCheckedKinds)
    <2>1. \A r \in 1..3 : r = 1 \/ r = 2 \/ r = 3
      OBVIOUS
    <2>2. DOMAIN CycleCheckedKinds = 1..3
      BY DEF CycleCheckedKinds
    <2>. QED BY <2>1, <2>2 DEF ToSet, CycleCheckedKinds
  <1>. QED BY <1>1, <1>2

-----------------------------------------------------------------------------
(* Traversals: an edge, a concept and a layer at a time.                    *)

\* Edges taken in turn at a depth, and the walks they make.
Taken(seq, base, depth, opts, outgoing) ==
    FoldLeft(LAMBDA w, e : Take(w, e, depth, opts, outgoing), base, seq)

\* g is what taking each edge in turn comes to.
TakesInTurn(g, A, base, seq, depth, opts, outgoing) ==
    /\ g \in [0..Len(seq) -> A]
    /\ g[0] = base
    /\ \A k \in 1..Len(seq) : g[k] = Take(g[k - 1], seq[k], depth, opts, outgoing)

\* Taken takes the edges in turn.
LEMMA TakeFolds ==
  ASSUME NEW A, NEW B, NEW seq \in Seq(B), NEW base \in A, NEW depth, NEW opts, NEW outgoing,
         \A a \in A, b \in B : Take(a, b, depth, opts, outgoing) \in A
  PROVE  \E g : /\ TakesInTurn(g, A, base, seq, depth, opts, outgoing)
                /\ Taken(seq, base, depth, opts, outgoing) = g[Len(seq)]
  <1>. DEFINE n == Len(seq)
              Op(a, b) == Take(a, b, depth, opts, outgoing)
              G == [q \in A \X (1..n) |-> Op(q[1], seq[q[2]])]
              IsIter(it) == it = [t \in SUBSET DOMAIN seq |->
                 IF t = {} THEN base ELSE Op(it[t \ {Max(t)}], seq[Max(t)])]
              it == CHOOSE it : IsIter(it)
  <1>1. /\ \A a \in A, b \in B : Op(a, b) \in A
        /\ Taken(seq, base, depth, opts, outgoing) = it[DOMAIN seq]
    BY DEF Taken, FoldLeft, MapThenFoldSet
  <1>. HIDE DEF Op
  <1>2. /\ n \in Nat /\ DOMAIN seq = 1..n /\ G \in [A \X (1..n) -> A]
        /\ \A a \in A, k \in 1..n : G[<<a, k>>] = Op(a, seq[k])
    <2>1. n \in Nat /\ DOMAIN seq = 1..n /\ \A k \in 1..n : seq[k] \in B
      OBVIOUS
    <2>. HIDE DEF n
    <2>. QED BY <1>1, <2>1
  <1>. HIDE DEF n, G
  <1>3. \A t \in SUBSET (1..n) : t # {} => Max(t) \in 1..n /\ t \ {Max(t)} \in SUBSET (1..n)
    BY <1>2, MaxOf
  <1>4. IsIter(it)
    <2>1. PICK jt : IsIteration(jt, n, A, base, G)
      BY <1>2, IterationExists
    <2>2. IsIter(jt)
      BY <1>2, <1>3, <2>1 DEF IsIteration
    <2>. HIDE DEF IsIter
    <2>. QED BY <2>2
  <1>. HIDE DEF it
  <1>5. Iterates(it, n, A, base, G)
    BY <1>2, <1>3, <1>4 DEF Iterates
  <1>. HIDE DEF IsIter
  <1>6. PICK g : IsRecursion(g, n, A, base, G) /\ g[n] = Final(it, n)
    <2>1. n \in Nat /\ G \in [A \X (1..n) -> A] /\ base \in A
      BY <1>2
    <2>. QED BY <2>1, <1>5, IterationTurns
  <1>7. \A k \in 1..n : g[k - 1] \in A
    BY <1>2, <1>6, Indices DEF IsRecursion
  <1>8. TakesInTurn(g, A, base, seq, depth, opts, outgoing)
    BY <1>2, <1>6, <1>7 DEF IsRecursion, TakesInTurn, n, Op
  <1>. QED BY <1>1, <1>2, <1>6, <1>8 DEF n, Final

\* A function has finitely many values on a finite set.
LEMMA FiniteImage ==
  ASSUME NEW S, IsFiniteSet(S), NEW f, f = [x \in S |-> f[x]]
  PROVE  IsFiniteSet({f[x] : x \in S}) /\ Cardinality({f[x] : x \in S}) <= Cardinality(S)
  <1>. DEFINE T == {f[x] : x \in S}
  <1>1. f \in Surjection(S, T)
    <2>1. f \in [S -> T]
      OBVIOUS
    <2>2. \A y \in T : \E x \in S : f[x] = y
      OBVIOUS
    <2>. HIDE DEF T
    <2>. QED BY <2>1, <2>2 DEF Surjection
  <1>. HIDE DEF T
  <1>. QED BY <1>1, FS_Surjection DEF T

\* A sequence of a set is one of a larger set.
LEMMA SeqWithin ==
  ASSUME NEW S, NEW T, S \subseteq T, NEW s \in Seq(S)
  PROVE  s \in Seq(T)
  OBVIOUS

\* The edges at a concept, seen from it.
IncidentSet(E, id, kind, outgoing) ==
    {e \in E : e.kind = kind /\ Near(e, outgoing) = id}
      \cup {Turned(e) : e \in {f \in E : /\ f.kind = "alternative"
                                         /\ f.kind = kind
                                         /\ Peer(f, outgoing) = id}}

\* An alternative, turned, is an edge with its ends exchanged.
LEMMA TurnedEdge ==
  ASSUME NEW e \in Edge
  PROVE  /\ Turned(e) \in Edge /\ Turned(e).kind = e.kind /\ Turned(e).strength = e.strength
         /\ \A outgoing \in BOOLEAN : /\ Near(Turned(e), outgoing) = Peer(e, outgoing)
                                      /\ Peer(Turned(e), outgoing) = Near(e, outgoing)
  <1>1. Turned(e) = [from |-> e.to, to |-> e.from, kind |-> e.kind, strength |-> e.strength]
    <2>1. PICK a, b, k, s : e = [from |-> a, to |-> b, kind |-> k, strength |-> s]
      BY DEF Edge
    <2>2. e.from = a /\ e.to = b /\ e.kind = k /\ e.strength = s
      BY <2>1
    <2>3. Turned(e) = [e EXCEPT !.from = b, !.to = a]
      BY <2>2 DEF Turned
    <2>. QED BY <2>1, <2>2, <2>3
  <1>2. /\ e.from \in ConceptIds /\ e.to \in ConceptIds /\ e.kind \in EdgeKind
        /\ e.strength \in 1..MaxStrength
    BY DEF Edge
  <1>. QED BY <1>1, <1>2 DEF Edge, Near, Peer

\* Incident lists the edges at a concept: its own, and the alternatives turned.
LEMMA IncidentEdges ==
  ASSUME NEW E \in SUBSET Edge, IsFiniteSet(E), NEW id, NEW kind, NEW outgoing \in BOOLEAN
  PROVE  /\ Incident(E, id, kind, outgoing) \in Seq(Edge)
         /\ ToSet(Incident(E, id, kind, outgoing)) = IncidentSet(E, id, kind, outgoing)
  <1>. DEFINE F == {e \in E : e.kind = kind /\ Near(e, outgoing) = id}
              G == {f \in E : f.kind = "alternative" /\ f.kind = kind /\ Peer(f, outgoing) = id}
              turn == [e \in G |-> Turned(e)]
              T == {turn[e] : e \in G}
  <1>1. F \in SUBSET E /\ G \in SUBSET E
    OBVIOUS
  <1>2. T = {Turned(e) : e \in G}
    OBVIOUS
  <1>3. turn = [e \in G |-> turn[e]]
    OBVIOUS
  <1>4. IncidentSet(E, id, kind, outgoing) = F \cup T
    BY <1>2 DEF IncidentSet
  <1>5. Incident(E, id, kind, outgoing) = SortEdges(F \cup T)
    BY <1>2 DEF Incident
  <1>6. T \in SUBSET Edge
    BY <1>1, <1>2, TurnedEdge
  <1>. HIDE DEF F, G, turn
  <1>7. IsFiniteSet(F) /\ IsFiniteSet(T)
    BY <1>1, <1>3, FS_Subset, FiniteImage
  <1>. HIDE DEF T
  <1>8. IsFiniteSet(F \cup T) /\ F \cup T \in SUBSET Edge
    BY <1>1, <1>6, <1>7, FS_Union
  <1>9. SortEdges(F \cup T) \in Seq(F \cup T) /\ ToSet(SortEdges(F \cup T)) = F \cup T
    BY <1>8, EdgesAreListed
  <1>10. SortEdges(F \cup T) \in Seq(Edge)
    BY <1>8, <1>9, SeqWithin
  <1>. QED BY <1>4, <1>5, <1>9, <1>10

\* The edges of kinds K at a concept, seen from it.
Around(E, id, K, outgoing) == UNION {IncidentSet(E, id, kind, outgoing) : kind \in K}

\* What edges that are strong enough lead to.
LeadTo(hits, min, outgoing) == {Peer(e, outgoing) : e \in {f \in hits : f.strength >= min}}

\* The edges at a concept lead where Steps leads.
LEMMA StepsAt ==
  ASSUME NEW E \in SUBSET Edge, NEW K, NEW min, NEW outgoing \in BOOLEAN, NEW id
  PROVE  LeadTo(Around(E, id, K, outgoing), min, outgoing)
           = Onward(Steps(E, K, min, outgoing), {id})
  <1>. DEFINE H == Around(E, id, K, outgoing)
              R == Steps(E, K, min, outgoing)
  <1>1. ASSUME NEW e \in H, e.strength >= min PROVE Peer(e, outgoing) \in Onward(R, {id})
    <2>1. PICK kind \in K : e \in IncidentSet(E, id, kind, outgoing)
      BY DEF Around
    <2>2. CASE e \in E /\ e.kind = kind /\ Near(e, outgoing) = id
      <3>1. <<Near(e, outgoing), Peer(e, outgoing)>> \in R
        BY <1>1, <2>2 DEF Steps
      <3>. HIDE DEF R
      <3>. QED BY <2>2, <3>1 DEF Onward
    <2>3. ASSUME NEW f \in E, f.kind = "alternative", f.kind = kind, Peer(f, outgoing) = id,
                 e = Turned(f)
          PROVE  Peer(e, outgoing) \in Onward(R, {id})
      <3>1. f.strength = e.strength /\ Peer(e, outgoing) = Near(f, outgoing)
        BY <2>3, TurnedEdge
      <3>2. <<Peer(f, outgoing), Near(f, outgoing)>> \in R
        BY <1>1, <2>3, <3>1 DEF Steps
      <3>. HIDE DEF R
      <3>. QED BY <2>3, <3>1, <3>2 DEF Onward
    <2>. QED BY <2>1, <2>2, <2>3 DEF IncidentSet
  <1>2. ASSUME NEW c \in Onward(R, {id}) PROVE c \in LeadTo(H, min, outgoing)
    <2>1. PICK r \in R : r[1] = id /\ r[2] = c
      BY DEF Onward
    <2>2. CASE \E e \in E : /\ e.kind \in K /\ e.strength >= min
                            /\ r = <<Near(e, outgoing), Peer(e, outgoing)>>
      <3>1. PICK e \in E : /\ e.kind \in K /\ e.strength >= min
                           /\ r = <<Near(e, outgoing), Peer(e, outgoing)>>
        BY <2>2
      <3>2. e \in IncidentSet(E, id, e.kind, outgoing)
        BY <2>1, <3>1 DEF IncidentSet
      <3>3. e \in H
        BY <3>1, <3>2 DEF Around
      <3>. HIDE DEF H
      <3>. QED BY <2>1, <3>1, <3>3 DEF LeadTo
    <2>3. CASE \E e \in E : /\ e.kind = "alternative" /\ e.kind \in K /\ e.strength >= min
                            /\ r = <<Peer(e, outgoing), Near(e, outgoing)>>
      <3>1. PICK e \in E : /\ e.kind = "alternative" /\ e.kind \in K /\ e.strength >= min
                           /\ r = <<Peer(e, outgoing), Near(e, outgoing)>>
        BY <2>3
      <3>2. Turned(e) \in IncidentSet(E, id, e.kind, outgoing)
        BY <2>1, <3>1 DEF IncidentSet
      <3>3. Turned(e) \in H
        BY <3>1, <3>2 DEF Around
      <3>4. Turned(e).strength >= min /\ Peer(Turned(e), outgoing) = c
        BY <2>1, <3>1, TurnedEdge
      <3>. HIDE DEF H
      <3>. QED BY <3>3, <3>4 DEF LeadTo
    <2>. QED BY <2>1, <2>2, <2>3 DEF Steps
  <1>. HIDE DEF H, R
  <1>3. LeadTo(H, min, outgoing) = Onward(R, {id})
    BY <1>1, <1>2 DEF LeadTo
  <1>. QED BY <1>3 DEF H, R

\* Hits lists edges that lead where Steps leads from a concept.
LEMMA HitsLead ==
  ASSUME NEW E \in SUBSET Edge, IsFiniteSet(E), NEW id, NEW X, NEW kinds \in Seq(X), NEW min,
         NEW outgoing \in BOOLEAN
  PROVE  /\ Hits(E, id, kinds, outgoing) \in Seq(Edge)
         /\ LeadTo(ToSet(Hits(E, id, kinds, outgoing)), min, outgoing)
              = Onward(Steps(E, ToSet(kinds), min, outgoing), {id})
  <1>. DEFINE ss == [k \in DOMAIN kinds |-> Incident(E, id, kinds[k], outgoing)]
  <1>1. DOMAIN kinds = 1..Len(kinds) /\ Len(kinds) \in Nat
    OBVIOUS
  <1>2. \A k \in DOMAIN kinds : /\ ss[k] \in Seq(Edge)
                                /\ ToSet(ss[k]) = IncidentSet(E, id, kinds[k], outgoing)
    BY IncidentEdges
  <1>3. ss \in Seq(Seq(Edge)) /\ DOMAIN ss = DOMAIN kinds
    <2>1. ss = [k \in 1..Len(kinds) |-> ss[k]]
      BY <1>1
    <2>. HIDE DEF ss
    <2>2. ss \in [1..Len(kinds) -> Seq(Edge)]
      BY <1>1, <1>2, <2>1
    <2>. QED BY <1>1, <2>1, <2>2
  <1>4. Hits(E, id, kinds, outgoing) = FlattenSeq(ss)
    BY DEF Hits
  <1>. HIDE DEF ss
  <1>5. /\ FlattenSeq(ss) \in Seq(Edge)
        /\ ToSet(FlattenSeq(ss)) = UNION {ToSet(ss[k]) : k \in DOMAIN ss}
    BY <1>3, Flattened
  <1>6. ToSet(FlattenSeq(ss)) = Around(E, id, ToSet(kinds), outgoing)
    <2>1. ToSet(FlattenSeq(ss))
             = UNION {IncidentSet(E, id, kinds[k], outgoing) : k \in DOMAIN kinds}
      BY <1>2, <1>3, <1>5
    <2>. QED BY <2>1 DEF ToSet, Around
  <1>7. LeadTo(Around(E, id, ToSet(kinds), outgoing), min, outgoing)
          = Onward(Steps(E, ToSet(kinds), min, outgoing), {id})
    BY StepsAt
  <1>. QED BY <1>4, <1>5, <1>6, <1>7

\* What a traversal answers with.
Relations == [kind : EdgeKind, strength : 1..MaxStrength, peer : ConceptIds, depth : Nat]
\* What a traversal keeps.
Walks == [out : Seq(Relations), seen : SUBSET ConceptIds, layer : Seq(ConceptIds)]

\* The concepts that relations are about.
Peers(S) == {r.peer : r \in S}
\* A concept is answered once.
OncePerPeer(out) == \A i, j \in DOMAIN out : out[i].peer = out[j].peer => i = j

\* What a walk has taken is at its distance, each concept once, nothing nearer
\* is left out, and there is no more than the limit.
IsSound(w, d, R, id, opts) ==
    /\ OncePerPeer(w.out)
    /\ w.seen = Peers(ToSet(w.out))
    /\ \A r \in ToSet(w.out) : /\ r.depth \in 1..d
                               /\ IsAtDepth(R, id, r.peer, r.depth)
                               /\ Within(R, id, r.depth - 1) \subseteq w.seen
    /\ ToSet(w.layer) \subseteq After(R, id, d)
    /\ opts.limit > 0 => Len(w.out) <= opts.limit

\* The walk is full, or has seen V before the layer and F in it.
HasSeen(w, V, F, opts) ==
    IsFull(w.out, opts) \/ (w.seen = V \cup F /\ ToSet(w.layer) = F \ V)

\* A relation to a new concept keeps each once.
LEMMA AppendOnce ==
  ASSUME NEW out \in Seq(Relations), OncePerPeer(out), NEW r \in Relations,
         r.peer \notin Peers(ToSet(out))
  PROVE  OncePerPeer(Append(out, r))
  <1>. DEFINE s == Append(out, r)
  <1>1. /\ Len(out) \in Nat /\ DOMAIN out = 1..Len(out) /\ DOMAIN s = 1..(Len(out) + 1)
        /\ s[Len(out) + 1] = r /\ \A i \in 1..Len(out) : s[i] = out[i]
    OBVIOUS
  <1>2. \A i \in 1..Len(out) : out[i].peer # r.peer
    BY <1>1 DEF Peers, ToSet
  <1>3. \A i \in 1..(Len(out) + 1) : i \in 1..Len(out) \/ i = Len(out) + 1
    BY <1>1
  <1>. HIDE DEF s
  <1>4. ASSUME NEW i \in DOMAIN s, NEW j \in DOMAIN s, s[i].peer = s[j].peer PROVE i = j
    BY <1>1, <1>2, <1>3, <1>4 DEF OncePerPeer
  <1>. QED BY <1>4 DEF OncePerPeer, s

\* Take keeps what a traversal keeps of its type.
LEMMA TakeType ==
  ASSUME NEW w \in Walks, NEW e \in Edge, NEW d \in Nat, NEW opts, NEW outgoing \in BOOLEAN
  PROVE  /\ Take(w, e, d, opts, outgoing) \in Walks
         /\ Peer(e, outgoing) \in ConceptIds
  <1>1. /\ w.out \in Seq(Relations) /\ w.seen \in SUBSET ConceptIds /\ w.layer \in Seq(ConceptIds)
        /\ e.kind \in EdgeKind /\ e.strength \in 1..MaxStrength /\ Peer(e, outgoing) \in ConceptIds
    BY DEF Walks, Edge, Peer
  <1>. DEFINE r == [kind |-> e.kind, strength |-> e.strength, peer |-> Peer(e, outgoing),
                    depth |-> d]
              t == [out |-> Append(w.out, r), seen |-> w.seen \cup {Peer(e, outgoing)},
                    layer |-> Append(w.layer, Peer(e, outgoing))]
  <1>2. r \in Relations
    BY <1>1 DEF Relations
  <1>3. Take(w, e, d, opts, outgoing) \in {w, t}
    BY DEF Take
  <1>. HIDE DEF r
  <1>4. t \in Walks
    <2>1. /\ Append(w.out, r) \in Seq(Relations)
          /\ Append(w.layer, Peer(e, outgoing)) \in Seq(ConceptIds)
      BY <1>1, <1>2
    <2>2. w.seen \cup {Peer(e, outgoing)} \in SUBSET ConceptIds
      BY <1>1
    <2>. QED BY <2>1, <2>2 DEF Walks
  <1>. HIDE DEF t
  <1>. QED BY <1>1, <1>3, <1>4

\* One edge at depth d.
LEMMA TakeKeeps ==
  ASSUME NEW w \in Walks, NEW e \in Edge, NEW d \in Nat \ {0}, NEW outgoing \in BOOLEAN,
         NEW opts, opts.min \in Nat, opts.limit \in Nat, NEW R, NEW id, NEW F,
         IsSound(w, d, R, id, opts), HasSeen(w, Within(R, id, d - 1), F, opts),
         ~ IsFull(w.out, opts) /\ e.strength >= opts.min => Peer(e, outgoing) \in After(R, id, d)
  PROVE  LET t == Take(w, e, d, opts, outgoing) IN
         /\ IsSound(t, d, R, id, opts)
         /\ HasSeen(t, Within(R, id, d - 1), F \cup LeadTo({e}, opts.min, outgoing), opts)
  <1>. DEFINE t == Take(w, e, d, opts, outgoing)
              V == Within(R, id, d - 1)
              peer == Peer(e, outgoing)
              r == [kind |-> e.kind, strength |-> e.strength, peer |-> peer, depth |-> d]
              L == LeadTo({e}, opts.min, outgoing)
  <1>1. /\ w.out \in Seq(Relations) /\ w.seen \in SUBSET ConceptIds /\ w.layer \in Seq(ConceptIds)
        /\ e.kind \in EdgeKind /\ e.strength \in 1..MaxStrength /\ peer \in ConceptIds
    BY DEF Walks, Edge, Peer
  <1>2. L = IF e.strength >= opts.min THEN {peer} ELSE {}
    BY DEF LeadTo
  <1>3. CASE IsFull(w.out, opts)
    <2>1. t = w
      BY <1>3 DEF Take
    <2>. QED BY <1>3, <2>1 DEF HasSeen
  <1>4. CASE ~ IsFull(w.out, opts) /\ ~ (e.strength >= opts.min)
    <2>1. e.strength < opts.min
      BY <1>1, <1>4, CurriculumConstants
    <2>2. t = w
      BY <2>1 DEF Take
    <2>3. F \cup L = F
      BY <1>2, <1>4
    <2>. QED BY <2>2, <2>3
  <1>5. CASE ~ IsFull(w.out, opts) /\ e.strength >= opts.min /\ peer \in w.seen
    <2>1. t = w
      BY <1>5 DEF Take
    <2>2. w.seen = V \cup F /\ ToSet(w.layer) = F \ V
      BY <1>5 DEF HasSeen
    <2>3. w.seen = V \cup (F \cup L) /\ ToSet(w.layer) = (F \cup L) \ V
      BY <1>2, <1>5, <2>2
    <2>. QED BY <2>1, <2>3 DEF HasSeen
  <1>6. CASE ~ IsFull(w.out, opts) /\ e.strength >= opts.min /\ peer \notin w.seen
    <2>1. ~ (e.strength < opts.min)
      BY <1>1, <1>6, CurriculumConstants
    <2>2. t = [out |-> Append(w.out, r), seen |-> w.seen \cup {peer},
               layer |-> Append(w.layer, peer)]
      BY <1>6, <2>1 DEF Take
    <2>3. w.seen = V \cup F /\ ToSet(w.layer) = F \ V /\ peer \in After(R, id, d)
      BY <1>6 DEF HasSeen
    <2>4. r \in Relations /\ r.peer = peer /\ r.depth = d
      BY <1>1 DEF Relations
    <2>. HIDE DEF r
    <2>5. /\ ToSet(t.out) = ToSet(w.out) \cup {r} /\ ToSet(t.layer) = ToSet(w.layer) \cup {peer}
          /\ t.seen = w.seen \cup {peer} /\ Len(t.out) = Len(w.out) + 1
      BY <1>1, <2>2, <2>4, AppendElements
    <2>6. OncePerPeer(t.out)
      BY <1>1, <1>6, <2>2, <2>4, AppendOnce DEF IsSound
    <2>7. t.seen = Peers(ToSet(t.out))
      BY <2>4, <2>5 DEF IsSound, Peers
    <2>8. ASSUME NEW q \in ToSet(t.out)
          PROVE  /\ q.depth \in 1..d /\ IsAtDepth(R, id, q.peer, q.depth)
                 /\ Within(R, id, q.depth - 1) \subseteq t.seen
      <3>1. CASE q \in ToSet(w.out)
        BY <2>5, <3>1 DEF IsSound
      <3>2. CASE q = r
        <4>1. d \in 1..d
          OBVIOUS
        <4>2. IsAtDepth(R, id, peer, d)
          BY <1>6, <2>3 DEF IsAtDepth
        <4>. QED BY <2>3, <2>4, <2>5, <3>2, <4>1, <4>2
      <3>. QED BY <2>5, <3>1, <3>2
    <2>9. ToSet(t.layer) \subseteq After(R, id, d)
      BY <2>3, <2>5 DEF IsSound
    <2>10. opts.limit > 0 => Len(t.out) <= opts.limit
      BY <1>1, <1>6, <2>5 DEF IsFull
    <2>11. HasSeen(t, V, F \cup L, opts)
      BY <1>2, <1>6, <2>3, <2>5 DEF HasSeen
    <2>. HIDE DEF t
    <2>12. IsSound(t, d, R, id, opts)
      BY <2>6, <2>7, <2>8, <2>9, <2>10 DEF IsSound
    <2>. QED BY <2>11, <2>12 DEF t
  <1>. QED BY <1>3, <1>4, <1>5, <1>6

\* The edges at a layer, in the order in which they are taken.
LayerHits(E, kinds, outgoing, layer) ==
    FlattenSeq([i \in DOMAIN layer |-> Hits(E, layer[i], kinds, outgoing)])

\* The edges at a layer lead where Steps leads from the layer.
LEMMA LayerHitsLead ==
  ASSUME NEW E \in SUBSET Edge, IsFiniteSet(E), NEW X, NEW kinds \in Seq(X), NEW min,
         NEW outgoing \in BOOLEAN, NEW layer \in Seq(ConceptIds)
  PROVE  /\ LayerHits(E, kinds, outgoing, layer) \in Seq(Edge)
         /\ LeadTo(ToSet(LayerHits(E, kinds, outgoing, layer)), min, outgoing)
              = Onward(Steps(E, ToSet(kinds), min, outgoing), ToSet(layer))
  <1>. DEFINE ss == [i \in DOMAIN layer |-> Hits(E, layer[i], kinds, outgoing)]
              R == Steps(E, ToSet(kinds), min, outgoing)
  <1>1. DOMAIN layer = 1..Len(layer) /\ Len(layer) \in Nat
    OBVIOUS
  <1>2. \A i \in DOMAIN layer : /\ ss[i] \in Seq(Edge)
                                /\ LeadTo(ToSet(ss[i]), min, outgoing) = Onward(R, {layer[i]})
    BY HitsLead
  <1>. HIDE DEF R
  <1>3. ss \in Seq(Seq(Edge)) /\ DOMAIN ss = DOMAIN layer
    <2>1. ss = [i \in 1..Len(layer) |-> ss[i]]
      BY <1>1
    <2>. HIDE DEF ss
    <2>2. ss \in [1..Len(layer) -> Seq(Edge)]
      BY <1>1, <1>2, <2>1
    <2>. QED BY <1>1, <2>1, <2>2
  <1>4. LayerHits(E, kinds, outgoing, layer) = FlattenSeq(ss)
    BY DEF LayerHits
  <1>. HIDE DEF ss
  <1>5. /\ FlattenSeq(ss) \in Seq(Edge)
        /\ ToSet(FlattenSeq(ss)) = UNION {ToSet(ss[k]) : k \in DOMAIN ss}
    BY <1>3, Flattened
  <1>6. ASSUME NEW c
        PROVE  c \in LeadTo(ToSet(FlattenSeq(ss)), min, outgoing)
                 <=> \E i \in DOMAIN layer : c \in LeadTo(ToSet(ss[i]), min, outgoing)
    BY <1>3, <1>5 DEF LeadTo
  <1>7. ASSUME NEW c
        PROVE  c \in Onward(R, ToSet(layer)) <=> \E i \in DOMAIN layer : c \in Onward(R, {layer[i]})
    BY DEF Onward, ToSet
  <1>8. LeadTo(ToSet(FlattenSeq(ss)), min, outgoing) = Onward(R, ToSet(layer))
    <2>. DEFINE A == LeadTo(ToSet(FlattenSeq(ss)), min, outgoing)
                B == Onward(R, ToSet(layer))
                L(i) == LeadTo(ToSet(ss[i]), min, outgoing)
                O(i) == Onward(R, {layer[i]})
    <2>1. \A i \in DOMAIN layer : L(i) = O(i)
      BY <1>2
    <2>2. \A c : c \in A <=> \E i \in DOMAIN layer : c \in L(i)
      BY <1>6
    <2>3. \A c : c \in B <=> \E i \in DOMAIN layer : c \in O(i)
      BY <1>7
    <2>. HIDE DEF A, B, L, O
    <2>4. \A c : c \in A <=> c \in B
      BY <2>1, <2>2, <2>3
    <2>5. A = B
      BY <2>4
    <2>. QED BY <2>5 DEF A, B
  <1>. QED BY <1>4, <1>5, <1>8 DEF R

\* Within reaches one step further each time.
LEMMA WithinSpreads ==
  ASSUME NEW C, NEW R, IsRelation(R, C), NEW id \in C, NEW k \in Nat
  PROVE  /\ Within(R, id, k + 1) = Within(R, id, k) \cup After(R, id, k + 1)
         /\ Onward(R, Within(R, id, k)) \subseteq Within(R, id, k + 1)
         /\ Within(R, id, k) \in SUBSET C
  <1>1. \A n \in Nat : /\ After(R, id, n) \in SUBSET C
                       /\ After(R, id, n + 1) = Onward(R, After(R, id, n))
    BY AfterSteps
  <1>2. 1..(k + 1) = (1..k) \cup {k + 1}
    OBVIOUS
  <1>3. Within(R, id, k + 1) = Within(R, id, k) \cup After(R, id, k + 1)
    BY <1>2 DEF Within
  <1>4. ASSUME NEW x \in Onward(R, Within(R, id, k)) PROVE x \in Within(R, id, k + 1)
    <2>1. PICK r \in R : r[1] \in Within(R, id, k) /\ x = r[2]
      BY DEF Onward
    <2>2. PICK j \in 1..k : r[1] \in After(R, id, j)
      BY <2>1 DEF Within
    <2>3. x \in After(R, id, j + 1)
      BY <1>1, <2>1, <2>2 DEF Onward
    <2>4. j + 1 \in 1..(k + 1)
      OBVIOUS
    <2>. QED BY <2>3, <2>4 DEF Within
  <1>5. Within(R, id, k) \in SUBSET C
    BY <1>1 DEF Within
  <1>. QED BY <1>3, <1>4, <1>5

\* A walk d layers deep.
IsWalked(w, d, R, id, opts) ==
    /\ IsSound(w, d, R, id, opts)
    /\ IsFull(w.out, opts) \/ /\ w.seen = Within(R, id, d)
                              /\ ToSet(w.layer) = After(R, id, d) \ Within(R, id, d - 1)

\* A layer more keeps the walk sound and complete.
LEMMA ExpandKeeps ==
  ASSUME NEW E \in SUBSET Edge, IsFiniteSet(E), NEW X, NEW kinds \in Seq(X), NEW id \in ConceptIds,
         NEW outgoing \in BOOLEAN, NEW opts, opts.min \in Nat, opts.limit \in Nat,
         NEW w \in Walks, NEW d \in Nat, NEW R, R = Steps(E, ToSet(kinds), opts.min, outgoing),
         IsRelation(R, ConceptIds), IsWalked(w, d, R, id, opts)
  PROVE  /\ Expand(E, kinds, opts, outgoing, w, d + 1) \in Walks
         /\ IsWalked(Expand(E, kinds, opts, outgoing, w, d + 1), d + 1, R, id, opts)
  <1>. DEFINE hits == LayerHits(E, kinds, outgoing, w.layer)
              start == [w EXCEPT !.layer = <<>>]
              n == Len(hits)
              V == Within(R, id, d)
              L(k) == LeadTo({hits[i] : i \in 1..k}, opts.min, outgoing)
  <1>1. /\ w.out \in Seq(Relations) /\ w.seen \in SUBSET ConceptIds /\ w.layer \in Seq(ConceptIds)
        /\ start = [out |-> w.out, seen |-> w.seen, layer |-> <<>>]
    BY DEF Walks
  <1>2. start \in Walks
    <2>1. <<>> \in Seq(ConceptIds)
      OBVIOUS
    <2>. QED BY <1>1, <2>1 DEF Walks
  <1>3. hits \in Seq(Edge) /\ LeadTo(ToSet(hits), opts.min, outgoing) = Onward(R, ToSet(w.layer))
    BY <1>1, LayerHitsLead
  <1>4. Expand(E, kinds, opts, outgoing, w, d + 1)
          = Taken(hits, start, d + 1, opts, outgoing)
    BY DEF Expand, LayerHits, Taken
  <1>. HIDE DEF start, hits
  <1>5. PICK g : /\ TakesInTurn(g, Walks, start, hits, d + 1, opts, outgoing)
                 /\ Taken(hits, start, d + 1, opts, outgoing) = g[n]
    <2>1. \A a \in Walks, e \in Edge : Take(a, e, d + 1, opts, outgoing) \in Walks
      BY TakeType
    <2>. QED BY <1>2, <1>3, <2>1, TakeFolds
  <1>6. /\ g \in [0..n -> Walks] /\ g[0] = start
        /\ \A k \in 1..n : g[k] = Take(g[k - 1], hits[k], d + 1, opts, outgoing)
    BY <1>5 DEF TakesInTurn
  <1>7. n \in Nat /\ DOMAIN hits = 1..n /\ \A k \in 1..n : hits[k] \in Edge
    BY <1>3
  <1>. HIDE DEF n
  <1>8. After(R, id, d + 1) = Onward(R, After(R, id, d))
    BY AfterSteps
  <1>9. \/ IsFull(w.out, opts)
        \/ w.seen = V /\ ToSet(w.layer) = After(R, id, d) \ Within(R, id, d - 1)
    BY DEF IsWalked
  <1>10. ASSUME NEW k \in 1..n, hits[k].strength >= opts.min
         PROVE  Peer(hits[k], outgoing) \in After(R, id, d + 1)
    <2>1. hits[k] \in ToSet(hits)
      BY <1>7 DEF ToSet
    <2>2. Peer(hits[k], outgoing) \in Onward(R, ToSet(w.layer))
      BY <1>3, <1>10, <2>1 DEF LeadTo
    <2>. QED BY <1>8, <2>2 DEF Onward, IsWalked, IsSound
  <1>. DEFINE P == {k \in 0..n : /\ IsSound(g[k], d + 1, R, id, opts)
                                 /\ HasSeen(g[k], V, L(k), opts)}
  <1>11. 0 \in P
    <2>1. L(0) = {} /\ ToSet(<<>>) = {}
      BY DEF LeadTo, ToSet
    <2>2. \A r \in ToSet(w.out) : r.depth \in 1..(d + 1)
      BY DEF IsWalked, IsSound
    <2>3. IsSound(start, d + 1, R, id, opts)
      BY <1>1, <2>1, <2>2 DEF IsWalked, IsSound
    <2>4. HasSeen(start, V, {}, opts)
      BY <1>1, <1>9, <2>1 DEF HasSeen
    <2>. HIDE DEF L
    <2>. QED BY <1>6, <1>7, <2>1, <2>3, <2>4, Indices
  <1>12. ASSUME NEW k \in 1..n, k - 1 \in P PROVE k \in P
    <2>. DEFINE a == g[k - 1]
                e == hits[k]
    <2>1. /\ a \in Walks /\ e \in Edge /\ d + 1 \in Nat \ {0} /\ (d + 1) - 1 = d
          /\ k \in 0..n /\ g[k] = Take(a, e, d + 1, opts, outgoing)
      BY <1>6, <1>7, Indices
    <2>2. /\ IsSound(a, d + 1, R, id, opts) /\ HasSeen(a, V, L(k - 1), opts)
          /\ e.strength >= opts.min => Peer(e, outgoing) \in After(R, id, d + 1)
      BY <1>10, <1>12
    <2>3. L(k) = L(k - 1) \cup LeadTo({e}, opts.min, outgoing)
      <3>1. 1..k = (1..(k - 1)) \cup {k}
        BY <1>7
      <3>2. {hits[i] : i \in 1..k} = {hits[i] : i \in 1..(k - 1)} \cup {e}
        BY <3>1
      <3>. HIDE DEF e
      <3>. QED BY <3>2 DEF LeadTo
    <2>. HIDE DEF a, e, L, V
    <2>4. /\ IsSound(g[k], d + 1, R, id, opts)
          /\ HasSeen(g[k], V, L(k - 1) \cup LeadTo({e}, opts.min, outgoing), opts)
      <3>1. /\ IsSound(Take(a, e, d + 1, opts, outgoing), d + 1, R, id, opts)
            /\ HasSeen(Take(a, e, d + 1, opts, outgoing), Within(R, id, (d + 1) - 1),
                       L(k - 1) \cup LeadTo({e}, opts.min, outgoing), opts)
        BY <2>1, <2>2, TakeKeeps DEF V
      <3>. QED BY <2>1, <3>1 DEF V
    <2>. QED BY <2>1, <2>3, <2>4
  <1>13. /\ g[n] \in Walks /\ IsSound(g[n], d + 1, R, id, opts) /\ HasSeen(g[n], V, L(n), opts)
    <2>1. n \in P
      <3>. HIDE DEF P
      <3>. QED BY <1>7, <1>11, <1>12, UpTo, Indices
    <2>. HIDE DEF L, V
    <2>. QED BY <1>6, <1>7, <2>1, Indices
  <1>14. L(n) = Onward(R, ToSet(w.layer))
    BY <1>3, <1>7 DEF ToSet
  <1>15. ~ IsFull(g[n].out, opts) => ~ IsFull(w.out, opts)
    <2>. DEFINE Q == {k \in 0..n : IsFull(w.out, opts) => IsFull(g[k].out, opts)}
    <2>1. 0 \in Q
      BY <1>1, <1>6, <1>7, Indices
    <2>2. ASSUME NEW k \in 1..n, k - 1 \in Q PROVE k \in Q
      <3>1. CASE IsFull(g[k - 1].out, opts)
        <4>1. g[k] = g[k - 1]
          BY <1>6, <3>1 DEF Take
        <4>. QED BY <1>7, <3>1, <4>1, Indices
      <3>2. CASE ~ IsFull(g[k - 1].out, opts)
        BY <1>7, <2>2, <3>2, Indices
      <3>. QED BY <3>1, <3>2
    <2>3. n \in Q
      <3>. HIDE DEF Q
      <3>. QED BY <1>7, <2>1, <2>2, UpTo, Indices
    <2>. QED BY <2>3
  <1>16. ASSUME ~ IsFull(g[n].out, opts)
         PROVE  /\ g[n].seen = Within(R, id, d + 1)
                /\ ToSet(g[n].layer) = After(R, id, d + 1) \ Within(R, id, d)
    <2>1. ToSet(w.layer) = After(R, id, d) \ Within(R, id, d - 1)
      BY <1>9, <1>15, <1>16
    <2>2. /\ g[n].seen = V \cup Onward(R, ToSet(w.layer))
          /\ ToSet(g[n].layer) = Onward(R, ToSet(w.layer)) \ V
      BY <1>13, <1>14, <1>16 DEF HasSeen
    <2>3. Onward(R, Within(R, id, d - 1)) \subseteq V
      <3>1. CASE d = 0
        <4>1. Within(R, id, d - 1) = {}
          <5>1. 1..(d - 1) = {}
            BY <3>1
          <5>. QED BY <5>1 DEF Within
        <4>. QED BY <4>1 DEF Onward
      <3>2. CASE d # 0
        <4>1. d - 1 \in Nat /\ (d - 1) + 1 = d
          BY <3>2
        <4>2. Onward(R, Within(R, id, d - 1)) \subseteq Within(R, id, (d - 1) + 1)
          BY <4>1, WithinSpreads
        <4>. QED BY <4>1, <4>2
      <3>. QED BY <3>1, <3>2
    <2>4. Within(R, id, d + 1) = V \cup After(R, id, d + 1)
      BY WithinSpreads
    <2>. HIDE DEF V
    <2>5. Onward(R, ToSet(w.layer)) \ V = After(R, id, d + 1) \ V
      <3>1. Onward(R, After(R, id, d))
              \subseteq Onward(R, ToSet(w.layer)) \cup Onward(R, Within(R, id, d - 1))
        BY <2>1 DEF Onward
      <3>2. Onward(R, ToSet(w.layer)) \subseteq Onward(R, After(R, id, d))
        BY <2>1 DEF Onward
      <3>. QED BY <1>8, <2>3, <3>1, <3>2
    <2>6. g[n].seen = Within(R, id, d + 1)
      BY <2>2, <2>4, <2>5
    <2>7. ToSet(g[n].layer) = After(R, id, d + 1) \ V
      BY <2>2, <2>5
    <2>. QED BY <2>6, <2>7 DEF V
  <1>17. (d + 1) - 1 = d
    OBVIOUS
  <1>18. IsWalked(g[n], d + 1, R, id, opts)
    BY <1>13, <1>16, <1>17 DEF IsWalked
  <1>. QED BY <1>4, <1>5, <1>13, <1>18

-----------------------------------------------------------------------------
(* Traversals: what is answered after any number of layers.                 *)

\* A layer more, whatever the walk has taken.
LEMMA ExpandType ==
  ASSUME NEW E \in SUBSET Edge, IsFiniteSet(E), NEW X, NEW kinds \in Seq(X), NEW opts,
         NEW outgoing \in BOOLEAN, NEW w \in Walks, NEW d \in Nat
  PROVE  Expand(E, kinds, opts, outgoing, w, d) \in Walks
  <1>. DEFINE hits == LayerHits(E, kinds, outgoing, w.layer)
              start == [w EXCEPT !.layer = <<>>]
  <1>1. /\ w.out \in Seq(Relations) /\ w.seen \in SUBSET ConceptIds /\ w.layer \in Seq(ConceptIds)
        /\ start = [out |-> w.out, seen |-> w.seen, layer |-> <<>>]
    BY DEF Walks
  <1>2. start \in Walks
    <2>1. <<>> \in Seq(ConceptIds)
      OBVIOUS
    <2>. QED BY <1>1, <2>1 DEF Walks
  <1>3. hits \in Seq(Edge)
    BY <1>1, LayerHitsLead
  <1>4. Expand(E, kinds, opts, outgoing, w, d) = Taken(hits, start, d, opts, outgoing)
    BY DEF Expand, LayerHits, Taken
  <1>. HIDE DEF start, hits
  <1>5. PICK g : /\ TakesInTurn(g, Walks, start, hits, d, opts, outgoing)
                 /\ Taken(hits, start, d, opts, outgoing) = g[Len(hits)]
    <2>1. \A a \in Walks, e \in Edge : Take(a, e, d, opts, outgoing) \in Walks
      BY TakeType
    <2>. QED BY <1>2, <1>3, <2>1, TakeFolds
  <1>6. Len(hits) \in 0..Len(hits)
    BY <1>3
  <1>. QED BY <1>4, <1>5, <1>6 DEF TakesInTurn

\* f is what Walk has after each layer.
IsTraversed(f, n, E, kinds, opts, outgoing, id) ==
    /\ f \in [0..n -> Walks]
    /\ f[0] = [out |-> <<>>, seen |-> {}, layer |-> <<id>>]
    /\ \A k \in 1..n : f[k] = Expand(E, kinds, opts, outgoing, f[k - 1], k)

\* Walk goes layer by layer.
LEMMA WalkRuns ==
  ASSUME NEW E \in SUBSET Edge, IsFiniteSet(E), NEW X, NEW kinds \in Seq(X), NEW opts,
         NEW outgoing \in BOOLEAN, NEW id \in ConceptIds, NEW n \in Nat
  PROVE  \E f : /\ IsTraversed(f, n, E, kinds, opts, outgoing, id)
                /\ Walk(E, kinds, opts, outgoing, id, n) = f[n]
  <1>. DEFINE start == [out |-> <<>>, seen |-> {}, layer |-> <<id>>]
              G == [q \in Walks \X (1..n) |-> Expand(E, kinds, opts, outgoing, q[1], q[2])]
              IsWalking(f) == f = [d \in 0..n |->
                 IF d = 0 THEN [out |-> <<>>, seen |-> {}, layer |-> <<id>>]
                          ELSE Expand(E, kinds, opts, outgoing, f[d - 1], d)]
              f == CHOOSE f : IsWalking(f)
  <1>1. \A s \in Walks, k \in 1..n : Expand(E, kinds, opts, outgoing, s, k) \in Walks
    <2>1. \A k \in 1..n : k \in Nat
      OBVIOUS
    <2>. QED BY <2>1, ExpandType
  <1>2. start \in Walks
    <2>1. <<>> \in Seq(Relations) /\ <<id>> \in Seq(ConceptIds)
      OBVIOUS
    <2>. QED BY <2>1 DEF Walks
  <1>3. G \in [Walks \X (1..n) -> Walks]
    BY <1>1
  <1>. HIDE DEF start
  <1>4. PICK g : IsRecursion(g, n, Walks, start, G)
    <2>. HIDE DEF G
    <2>. QED BY <1>2, <1>3, RecursionExists
  <1>5. /\ g \in [0..n -> Walks] /\ g[0] = start
        /\ \A k \in 1..n : g[k] = Expand(E, kinds, opts, outgoing, g[k - 1], k)
    <2>1. /\ g \in [0..n -> Walks] /\ g[0] = start
          /\ \A k \in 1..n : k - 1 \in 0..n /\ g[k] = G[<<g[k - 1], k>>]
      <3>. HIDE DEF G
      <3>. QED BY <1>4, Indices DEF IsRecursion
    <2>2. \A k \in 1..n : g[k - 1] \in Walks
      <3>. HIDE DEF G
      <3>. QED BY <2>1
    <2>. QED BY <2>1, <2>2
  <1>. HIDE DEF G
  <1>6. IsWalking(g)
    <2>1. ASSUME NEW k \in 0..n
          PROVE g[k] = IF k = 0 THEN start ELSE Expand(E, kinds, opts, outgoing, g[k - 1], k)
      <3>1. CASE k = 0
        BY <1>5, <3>1
      <3>2. CASE k # 0
        <4>1. k \in 1..n
          BY <3>2
        <4>. QED BY <1>5, <3>2, <4>1
      <3>. QED BY <3>1, <3>2
    <2>. QED BY <1>5, <2>1 DEF start
  <1>7. IsWalking(f)
    <2>. HIDE DEF IsWalking
    <2>. QED BY <1>6
  <1>8. Walk(E, kinds, opts, outgoing, id, n) = f[n]
    BY DEF Walk
  <1>. HIDE DEF f
  <1>9. f[0] = start /\ \A k \in 1..n : f[k] = Expand(E, kinds, opts, outgoing, f[k - 1], k)
    <2>1. 0 \in 0..n /\ \A k \in 1..n : k \in 0..n /\ k # 0
      OBVIOUS
    <2>. QED BY <1>7, <2>1 DEF start
  <1>10. f \in [0..n -> Walks]
    <2>1. f = [k \in 0..n |-> f[k]]
      <3>. DEFINE step(k) == IF k = 0 THEN start ELSE Expand(E, kinds, opts, outgoing, f[k - 1], k)
      <3>1. f = [k \in 0..n |-> step(k)]
        BY <1>7 DEF start
      <3>. HIDE DEF step
      <3>. QED BY <3>1
    <2>2. \A k \in 1..n : f[k - 1] \in Walks => f[k] \in Walks
      BY <1>1, <1>9
    <2>. HIDE DEF IsWalking
    <2>. QED BY <1>2, <1>9, <2>1, <2>2, StepsType
  <1>. QED BY <1>8, <1>9, <1>10 DEF IsTraversed, start

\* What a traversal follows joins concepts.
LEMMA StepsJoin ==
  ASSUME NEW E \in SUBSET Edge, NEW K, NEW min, NEW outgoing
  PROVE  IsRelation(Steps(E, K, min, outgoing), ConceptIds)
  <1>1. \A e \in E : Near(e, outgoing) \in ConceptIds /\ Peer(e, outgoing) \in ConceptIds
    BY DEF Near, Peer, Edge
  <1>. QED BY <1>1 DEF IsRelation, Steps

\* The walk of traverse.
LEMMA WalksSeek ==
  ASSUME NEW E \in SUBSET Edge, IsFiniteSet(E), NEW X, NEW kinds \in Seq(X), NEW id \in ConceptIds,
         NEW outgoing \in BOOLEAN, NEW opts, opts.min \in Nat, opts.limit \in Nat, NEW n \in Nat
  PROVE  /\ Walk(E, kinds, opts, outgoing, id, n) \in Walks
         /\ IsWalked(Walk(E, kinds, opts, outgoing, id, n), n,
                     Steps(E, ToSet(kinds), opts.min, outgoing), id, opts)
  <1>. DEFINE R == Steps(E, ToSet(kinds), opts.min, outgoing)
  <1>1. PICK f : /\ IsTraversed(f, n, E, kinds, opts, outgoing, id)
                 /\ Walk(E, kinds, opts, outgoing, id, n) = f[n]
    BY WalkRuns
  <1>2. /\ f \in [0..n -> Walks]
        /\ f[0] = [out |-> <<>>, seen |-> {}, layer |-> <<id>>]
        /\ \A k \in 1..n : f[k] = Expand(E, kinds, opts, outgoing, f[k - 1], k)
    BY <1>1 DEF IsTraversed
  <1>3. IsRelation(R, ConceptIds)
    BY StepsJoin
  <1>. DEFINE P == {k \in 0..n : IsWalked(f[k], k, R, id, opts)}
  <1>4. 0 \in P
    <2>1. Within(R, id, 0) = {} /\ Within(R, id, 0 - 1) = {}
      <3>1. 1..0 = {} /\ 1..(0 - 1) = {}
        OBVIOUS
      <3>. QED BY <3>1 DEF Within
    <2>2. After(R, id, 0) = {id}
      <3>. HIDE DEF R
      <3>. QED BY <1>3, AfterSteps
    <2>3. ToSet(<<>>) = {} /\ ToSet(<<id>>) = {id} /\ Len(<<>>) = 0
      BY DEF ToSet
    <2>4. OncePerPeer(<<>>) /\ Peers({}) = {}
      BY DEF OncePerPeer, Peers
    <2>. HIDE DEF R
    <2>5. IsSound(f[0], 0, R, id, opts)
      <3>1. f[0].out = <<>> /\ f[0].seen = {} /\ f[0].layer = <<id>>
        BY <1>2
      <3>2. OncePerPeer(f[0].out) /\ f[0].seen = Peers(ToSet(f[0].out))
        BY <2>3, <2>4, <3>1
      <3>3. ToSet(f[0].out) = {} /\ ToSet(f[0].layer) \subseteq After(R, id, 0)
        BY <2>2, <2>3, <3>1
      <3>4. Len(f[0].out) <= opts.limit
        BY <2>3, <3>1
      <3>. HIDE DEF P
      <3>. QED BY <3>2, <3>3, <3>4 DEF IsSound
    <2>6. f[0].seen = {} /\ ToSet(f[0].layer) = {id} \ {}
      BY <1>2, <2>3
    <2>7. IsWalked(f[0], 0, R, id, opts)
      BY <2>1, <2>2, <2>5, <2>6 DEF IsWalked
    <2>. QED BY <2>7, Indices
  <1>5. ASSUME NEW k \in 1..n, k - 1 \in P PROVE k \in P
    <2>1. k \in 0..n /\ k - 1 \in 0..n /\ k - 1 \in Nat /\ (k - 1) + 1 = k
      BY Indices
    <2>2. f[k - 1] \in Walks /\ IsWalked(f[k - 1], k - 1, R, id, opts)
      BY <1>2, <1>5, <2>1
    <2>3. IsWalked(Expand(E, kinds, opts, outgoing, f[k - 1], (k - 1) + 1), (k - 1) + 1,
                   R, id, opts)
      BY <1>3, <2>1, <2>2, ExpandKeeps
    <2>4. IsWalked(f[k], k, R, id, opts)
      <3>. HIDE DEF R
      <3>. QED BY <1>2, <2>1, <2>3
    <2>. QED BY <2>1, <2>4
  <1>6. n \in P
    <2>. HIDE DEF P
    <2>. QED BY <1>4, <1>5, UpTo, Indices
  <1>. QED BY <1>1, <1>2, <1>6, Indices

\* A walk that takes each concept once has as many relations as places.
LEMMA OnceCounted ==
  ASSUME NEW out \in Seq(Relations), OncePerPeer(out)
  PROVE  /\ IsFiniteSet(ToSet(out)) /\ Cardinality(ToSet(out)) = Len(out)
         /\ ToSet(out) \in SUBSET Relations
         /\ \A r, s \in ToSet(out) : r.peer = s.peer => r = s
  <1>. DEFINE n == Len(out)
              f == [i \in 1..n |-> out[i]]
  <1>1. n \in Nat /\ DOMAIN out = 1..n /\ \A i \in 1..n : out[i] \in Relations
    OBVIOUS
  <1>2. ToSet(out) = {f[i] : i \in 1..n}
    BY <1>1 DEF ToSet
  <1>. HIDE DEF n
  <1>3. \A i, j \in 1..n : out[i].peer = out[j].peer => i = j
    BY <1>1 DEF OncePerPeer
  <1>4. f \in Bijection(1..n, ToSet(out))
    <2>1. f \in [1..n -> ToSet(out)]
      BY <1>2
    <2>2. \A i, j \in 1..n : f[i] = f[j] => i = j
      BY <1>3
    <2>3. \A r \in ToSet(out) : \E i \in 1..n : f[i] = r
      BY <1>2
    <2>. HIDE DEF f
    <2>. QED BY <2>1, <2>2, <2>3 DEF Bijection, Injection, Surjection, IsInjective
  <1>5. IsFiniteSet(1..n) /\ Cardinality(1..n) = n
    <2>1. 1 \in Int /\ n \in Int
      BY <1>1
    <2>2. IsFiniteSet(1..n) /\ Cardinality(1..n) = IF 1 > n THEN 0 ELSE n - 1 + 1
      BY <2>1, FS_Interval
    <2>. QED BY <1>1, <2>2
  <1>6. IsFiniteSet(ToSet(out)) /\ Cardinality(ToSet(out)) = n
    <2>. HIDE DEF f
    <2>. DEFINE S == 1..n
                T == ToSet(out)
    <2>1. IsFiniteSet(S) /\ Cardinality(S) = n /\ f \in Bijection(S, T)
      BY <1>4, <1>5
    <2>. HIDE DEF S, T
    <2>2. IsFiniteSet(T) /\ Cardinality(T) = n
      <3>1. ExistsBijection(S, T)
        BY <2>1 DEF ExistsBijection
      <3>. QED BY <2>1, <3>1, FS_Bijection
    <2>. QED BY <2>2 DEF T
  <1>7. ToSet(out) \in SUBSET Relations
    BY <1>1, <1>2
  <1>8. \A r, s \in ToSet(out) : r.peer = s.peer => r = s
    BY <1>2, <1>3
  <1>. QED BY <1>6, <1>7, <1>8 DEF n

\* Traverse answers what it should, whatever the edges and the options.
LEMMA TraversalsAnswer ==
  ASSUME NEW E \in SUBSET Edge, IsFiniteSet(E), NEW X, NEW default,
         NEW opts, Kinds(opts, default) \in Seq(X), opts.min \in Nat, opts.limit \in Nat,
         Depth(opts, 1) \in Nat, NEW id \in ConceptIds, NEW outgoing \in BOOLEAN
  PROVE  IsTraversal(Traverse(E, id, opts, outgoing, default),
                     Steps(E, ToSet(Kinds(opts, default)), opts.min, outgoing), id, opts)
  <1>. DEFINE kinds == Kinds(opts, default)
              n == Depth(opts, 1)
              R == Steps(E, ToSet(kinds), opts.min, outgoing)
              w == Walk(E, kinds, opts, outgoing, id, n)
              rels == SortRelations(w.out)
  <1>1. w \in Walks /\ IsWalked(w, n, R, id, opts)
    BY WalksSeek
  <1>2. Traverse(E, id, opts, outgoing, default) = rels
    BY DEF Traverse
  <1>. HIDE DEF w, R, kinds
  <1>3. w.out \in Seq(Relations) /\ Len(w.out) \in Nat /\ IsSound(w, n, R, id, opts)
    BY <1>1 DEF Walks, IsWalked
  <1>4. /\ IsFiniteSet(ToSet(w.out)) /\ Cardinality(ToSet(w.out)) = Len(w.out)
        /\ ToSet(w.out) \in SUBSET Relations
        /\ \A r, s \in ToSet(w.out) : r.peer = s.peer => r = s
    BY <1>3, OnceCounted DEF IsSound
  <1>5. \A r \in ToSet(w.out) : IsAnswered(r)
    <2>1. \A r \in Relations : IsAnswered(r)
      BY CurriculumConstants DEF Relations, IsAnswered
    <2>. QED BY <1>4, <2>1
  <1>6. /\ rels \in Seq(ToSet(w.out)) /\ Len(rels) = Len(w.out) /\ ToSet(rels) = ToSet(w.out)
        /\ \A i, j \in DOMAIN rels : i < j => RelationIsBefore(rels[i], rels[j])
    BY <1>3, <1>4, <1>5, RelationsAreListed
  <1>. HIDE DEF rels, n
  <1>7. \A i \in DOMAIN rels : rels[i] \in ToSet(w.out)
    BY <1>6
  <1>8. ASSUME NEW i \in DOMAIN rels, NEW j \in DOMAIN rels, i < j
        PROVE  rels[i].peer # rels[j].peer /\ rels[i].depth <= rels[j].depth
    <2>. DEFINE r == rels[i]
                s == rels[j]
    <2>1. r \in ToSet(w.out) /\ s \in ToSet(w.out) /\ RelationIsBefore(r, s)
      BY <1>6, <1>7, <1>8
    <2>. HIDE DEF r, s
    <2>2. /\ r.depth \in Int /\ s.depth \in Int /\ r.strength \in Int
          /\ r.peer \in Int
      <3>1. \A x \in ConceptIds : x \in Int
        BY CurriculumConstants
      <3>2. \A q \in ToSet(w.out) : q.depth \in Nat /\ q.strength \in Nat /\ q.peer \in ConceptIds
        BY <1>5 DEF IsAnswered
      <3>. QED BY <2>1, <3>1, <3>2
    <2>3. r.peer # s.peer
      <3>1. r # s
        BY <2>1, <2>2 DEF RelationIsBefore
      <3>. QED BY <1>4, <2>1, <3>1
    <2>4. r.depth <= s.depth
      BY <2>1, <2>2 DEF RelationIsBefore
    <2>. QED BY <2>3, <2>4 DEF r, s
  <1>9. {rels[i].peer : i \in DOMAIN rels} = w.seen
    <2>1. w.seen = Peers(ToSet(rels))
      BY <1>3, <1>6 DEF IsSound
    <2>2. Peers(ToSet(rels)) = {rels[i].peer : i \in DOMAIN rels}
      BY DEF Peers, ToSet
    <2>. QED BY <2>1, <2>2
  <1>10. ASSUME NEW i \in DOMAIN rels
         PROVE  /\ IsAtDepth(R, id, rels[i].peer, rels[i].depth)
                /\ Within(R, id, rels[i].depth - 1) \subseteq w.seen
    BY <1>3, <1>7 DEF IsSound
  <1>11. CASE IsFull(w.out, opts)
    <2>1. IsFull(rels, opts) /\ Len(rels) = opts.limit
      BY <1>3, <1>6, <1>11 DEF IsFull, IsSound
    <2>2. IsTraversal(rels, R, id, opts)
      BY <1>8, <1>9, <1>10, <2>1 DEF IsTraversal
    <2>. QED BY <1>2, <2>2 DEF R, kinds
  <1>12. CASE ~ IsFull(w.out, opts)
    <2>1. w.seen = Within(R, id, Depth(opts, 1))
      BY <1>1, <1>12 DEF IsWalked, n
    <2>2. IsTraversal(rels, R, id, opts)
      BY <1>8, <1>9, <1>10, <2>1 DEF IsTraversal
    <2>. QED BY <1>2, <2>2 DEF R, kinds
  <1>. QED BY <1>11, <1>12

-----------------------------------------------------------------------------
(* FindCycle: the search, an edge and a concept at a time.                  *)

\* Edges looked at in turn from u, and what the search knows by then.
Looked(visit, u, seq, base) == FoldLeft(LAMBDA d, e : Look(visit, d, u, e.to), base, seq)

\* g is what looking at each edge in turn comes to.
LooksInTurn(g, A, base, seq, visit, u) ==
    /\ g \in [0..Len(seq) -> A]
    /\ g[0] = base
    /\ \A k \in 1..Len(seq) : g[k] = Look(visit, g[k - 1], u, seq[k].to)

\* Looked looks at the edges in turn.
LEMMA LookFolds ==
  ASSUME NEW A, NEW B, NEW seq \in Seq(B), NEW base \in A, NEW visit, NEW u,
         \A a \in A, b \in B : Look(visit, a, u, b.to) \in A
  PROVE  \E g : LooksInTurn(g, A, base, seq, visit, u) /\ Looked(visit, u, seq, base) = g[Len(seq)]
  <1>. DEFINE n == Len(seq)
              Op(a, b) == Look(visit, a, u, b.to)
              G == [q \in A \X (1..n) |-> Op(q[1], seq[q[2]])]
              IsIter(it) == it = [t \in SUBSET DOMAIN seq |->
                 IF t = {} THEN base ELSE Op(it[t \ {Max(t)}], seq[Max(t)])]
              it == CHOOSE it : IsIter(it)
  <1>1. (\A a \in A, b \in B : Op(a, b) \in A) /\ Looked(visit, u, seq, base) = it[DOMAIN seq]
    BY DEF Looked, FoldLeft, MapThenFoldSet
  <1>. HIDE DEF Op
  <1>2. /\ n \in Nat /\ DOMAIN seq = 1..n /\ G \in [A \X (1..n) -> A]
        /\ \A a \in A, k \in 1..n : G[<<a, k>>] = Op(a, seq[k])
    <2>1. n \in Nat /\ DOMAIN seq = 1..n /\ \A k \in 1..n : seq[k] \in B
      OBVIOUS
    <2>. HIDE DEF n
    <2>. QED BY <1>1, <2>1
  <1>. HIDE DEF n, G
  <1>3. \A t \in SUBSET (1..n) : t # {} => Max(t) \in 1..n /\ t \ {Max(t)} \in SUBSET (1..n)
    BY <1>2, MaxOf
  <1>4. IsIter(it)
    <2>1. PICK jt : IsIteration(jt, n, A, base, G)
      BY <1>2, IterationExists
    <2>2. IsIter(jt)
      BY <1>2, <1>3, <2>1 DEF IsIteration
    <2>. HIDE DEF IsIter
    <2>. QED BY <2>2
  <1>. HIDE DEF it
  <1>5. Iterates(it, n, A, base, G)
    BY <1>2, <1>3, <1>4 DEF Iterates
  <1>. HIDE DEF IsIter
  <1>6. PICK g : IsRecursion(g, n, A, base, G) /\ g[n] = Final(it, n)
    <2>1. n \in Nat /\ G \in [A \X (1..n) -> A] /\ base \in A
      BY <1>2
    <2>. QED BY <2>1, <1>5, IterationTurns
  <1>7. \A k \in 1..n : g[k - 1] \in A
    BY <1>2, <1>6, Indices DEF IsRecursion
  <1>8. LooksInTurn(g, A, base, seq, visit, u)
    BY <1>2, <1>6, <1>7 DEF IsRecursion, LooksInTurn, n, Op
  <1>. QED BY <1>1, <1>2, <1>6, <1>8 DEF n, Final

\* A concept the search starts from, unless it met it before.
Dive(visit, d, u) == IF d.cycle # <<>> \/ d.color[u] # "white" THEN d ELSE visit[<<u, d>>]

\* Concepts taken in turn, and what the search knows by then.
Dived(visit, seq, base) ==
    FoldLeft(LAMBDA d, u : IF d.cycle # <<>> \/ d.color[u] # "white" THEN d ELSE visit[<<u, d>>],
             base, seq)

\* g is what taking each concept in turn comes to.
DivesInTurn(g, A, base, seq, visit) ==
    /\ g \in [0..Len(seq) -> A]
    /\ g[0] = base
    /\ \A k \in 1..Len(seq) : g[k] = Dive(visit, g[k - 1], seq[k])

\* Dived takes the concepts in turn.
LEMMA DiveFolds ==
  ASSUME NEW A, NEW B, NEW seq \in Seq(B), NEW base \in A, NEW visit,
         \A a \in A, b \in B : Dive(visit, a, b) \in A
  PROVE  \E g : DivesInTurn(g, A, base, seq, visit) /\ Dived(visit, seq, base) = g[Len(seq)]
  <1>. DEFINE n == Len(seq)
              Op(a, b) == Dive(visit, a, b)
              G == [q \in A \X (1..n) |-> Op(q[1], seq[q[2]])]
              IsIter(it) == it = [t \in SUBSET DOMAIN seq |->
                 IF t = {} THEN base ELSE Op(it[t \ {Max(t)}], seq[Max(t)])]
              it == CHOOSE it : IsIter(it)
  <1>1. (\A a \in A, b \in B : Op(a, b) \in A) /\ Dived(visit, seq, base) = it[DOMAIN seq]
    BY DEF Dived, Dive, FoldLeft, MapThenFoldSet
  <1>. HIDE DEF Op
  <1>2. /\ n \in Nat /\ DOMAIN seq = 1..n /\ G \in [A \X (1..n) -> A]
        /\ \A a \in A, k \in 1..n : G[<<a, k>>] = Op(a, seq[k])
    <2>1. n \in Nat /\ DOMAIN seq = 1..n /\ \A k \in 1..n : seq[k] \in B
      OBVIOUS
    <2>. HIDE DEF n
    <2>. QED BY <1>1, <2>1
  <1>. HIDE DEF n, G
  <1>3. \A t \in SUBSET (1..n) : t # {} => Max(t) \in 1..n /\ t \ {Max(t)} \in SUBSET (1..n)
    BY <1>2, MaxOf
  <1>4. IsIter(it)
    <2>1. PICK jt : IsIteration(jt, n, A, base, G)
      BY <1>2, IterationExists
    <2>2. IsIter(jt)
      BY <1>2, <1>3, <2>1 DEF IsIteration
    <2>. HIDE DEF IsIter
    <2>. QED BY <2>2
  <1>. HIDE DEF it
  <1>5. Iterates(it, n, A, base, G)
    BY <1>2, <1>3, <1>4 DEF Iterates
  <1>. HIDE DEF IsIter
  <1>6. PICK g : IsRecursion(g, n, A, base, G) /\ g[n] = Final(it, n)
    <2>1. n \in Nat /\ G \in [A \X (1..n) -> A] /\ base \in A
      BY <1>2
    <2>. QED BY <2>1, <1>5, IterationTurns
  <1>7. \A k \in 1..n : g[k - 1] \in A
    BY <1>2, <1>6, Indices DEF IsRecursion
  <1>8. DivesInTurn(g, A, base, seq, visit)
    BY <1>2, <1>6, <1>7 DEF IsRecursion, DivesInTurn, n, Op
  <1>. QED BY <1>1, <1>2, <1>6, <1>8 DEF n, Final

\* Cycles are not empty.
Cycles(C) == Seq(C) \ {<<>>}

\* One parent more, unless the cycle is closed.
Back(parent, v, b) == IF Head(b) = v THEN b ELSE <<parent[Head(b)]>> \o b

\* The cycle as it is put together, from its end.
IsUnwinding(f, n, C, parent, u, v) ==
    /\ f \in [0..n -> Cycles(C)]
    /\ f[0] = <<u, v>>
    /\ \A k \in 1..n : f[k] = Back(parent, v, f[k - 1])

\* Unwound turns back one parent at a time.
LEMMA UnwoundRuns ==
  ASSUME NEW C, IsFiniteSet(C), NEW parent \in [C -> C], NEW u \in C, NEW v \in C
  PROVE  \E f : /\ IsUnwinding(f, Cardinality(C), C, parent, u, v)
                /\ Unwound(parent, u, v) = f[Cardinality(C)]
  <1>. DEFINE n == Cardinality(DOMAIN parent)
              A == Cycles(C)
              turn(b) == IF Head(b) = v THEN b ELSE <<parent[Head(b)]>> \o b
              G == [q \in A \X (1..n) |-> turn(q[1])]
              IsBack(f) == f = [k \in 0..n |-> IF k = 0 THEN <<u, v>> ELSE
                 IF Head(f[k - 1]) = v THEN f[k - 1] ELSE <<parent[Head(f[k - 1])]>> \o f[k - 1]]
              f == CHOOSE f : IsBack(f)
  <1>1. n \in Nat
    BY FS_CardinalityType
  <1>2. Unwound(parent, u, v) = f[n]
    BY DEF Unwound
  <1>. HIDE DEF n
  <1>3. ASSUME NEW b \in A PROVE turn(b) \in A
    <2>1. b \in Seq(C) /\ b # <<>> /\ Head(b) \in C
      BY DEF Cycles
    <2>2. <<parent[Head(b)]>> \in Seq(C)
      BY <2>1
    <2>3. <<parent[Head(b)]>> \o b \in Seq(C) /\ <<parent[Head(b)]>> \o b # <<>>
      BY <2>1, <2>2
    <2>. QED BY <2>3 DEF Cycles
  <1>4. <<u, v>> \in A
    BY DEF Cycles
  <1>5. G \in [A \X (1..n) -> A]
    <2>. HIDE DEF turn, A
    <2>. QED BY <1>3
  <1>6. PICK g : IsRecursion(g, n, A, <<u, v>>, G)
    <2>. HIDE DEF G, A
    <2>. QED BY <1>1, <1>4, <1>5, RecursionExists
  <1>7. /\ g \in [0..n -> A] /\ g[0] = <<u, v>>
        /\ \A k \in 1..n : g[k] = turn(g[k - 1])
    <2>1. /\ g \in [0..n -> A] /\ g[0] = <<u, v>>
          /\ \A k \in 1..n : k - 1 \in 0..n /\ g[k] = G[<<g[k - 1], k>>]
      <3>. HIDE DEF G, A
      <3>. QED BY <1>1, <1>6, Indices DEF IsRecursion
    <2>. HIDE DEF A, turn
    <2>2. \A k \in 1..n : g[k - 1] \in A
      <3>. HIDE DEF G
      <3>. QED BY <2>1
    <2>. QED BY <2>1, <2>2
  <1>. HIDE DEF G
  <1>8. IsBack(g)
    <2>1. ASSUME NEW k \in 0..n PROVE g[k] = IF k = 0 THEN <<u, v>> ELSE turn(g[k - 1])
      <3>1. CASE k = 0
        BY <1>7, <3>1
      <3>2. CASE k # 0
        <4>1. k \in 1..n
          BY <1>1, <3>2
        <4>. QED BY <1>7, <3>2, <4>1
      <3>. QED BY <3>1, <3>2
    <2>2. g = [k \in 0..n |-> g[k]]
      BY <1>7
    <2>. QED BY <2>1, <2>2
  <1>9. IsBack(f)
    <2>. HIDE DEF IsBack
    <2>. QED BY <1>8
  <1>. HIDE DEF f
  <1>10. f[0] = <<u, v>> /\ \A k \in 1..n : f[k] = turn(f[k - 1])
    <2>1. 0 \in 0..n /\ \A k \in 1..n : k \in 0..n /\ k # 0
      BY <1>1
    <2>. QED BY <1>9, <2>1
  <1>11. f \in [0..n -> A]
    <2>1. f = [k \in 0..n |-> f[k]]
      <3>. DEFINE step(k) == IF k = 0 THEN <<u, v>> ELSE turn(f[k - 1])
      <3>1. f = [k \in 0..n |-> step(k)]
        BY <1>9
      <3>. HIDE DEF step
      <3>. QED BY <3>1
    <2>. HIDE DEF IsBack, turn, A
    <2>2. \A k \in 1..n : f[k - 1] \in A => f[k] \in A
      BY <1>3, <1>10
    <2>. QED BY <1>1, <1>4, <1>10, <2>1, <2>2, StepsType
  <1>. QED BY <1>2, <1>10, <1>11 DEF IsUnwinding, Back, n

\* A cycle, once met, is written down.
LEMMA UnwoundType ==
  ASSUME NEW C, IsFiniteSet(C), NEW parent \in [C -> C], NEW u \in C, NEW v \in C
  PROVE  Unwound(parent, u, v) \in Cycles(C)
  <1>. DEFINE n == Cardinality(C)
  <1>1. PICK f : IsUnwinding(f, n, C, parent, u, v) /\ Unwound(parent, u, v) = f[n]
    BY UnwoundRuns
  <1>2. n \in 0..n
    BY FS_CardinalityType
  <1>. QED BY <1>1, <1>2 DEF IsUnwinding

\* What a visit may be, of any concept in any state of the search.
Searching(C) == [C \X DfsState(C) -> DfsState(C)]

\* Looking at an edge keeps the state of the search of its type.
LEMMA LookType ==
  ASSUME NEW C, IsFiniteSet(C), NEW visit \in Searching(C), NEW d \in DfsState(C),
         NEW u \in C, NEW v \in C
  PROVE  /\ Look(visit, d, u, v) \in DfsState(C)
         /\ [d EXCEPT !.parent[v] = u] \in DfsState(C)
  <1>1. /\ d.color \in [C -> {"white", "gray", "black"}] /\ d.parent \in [C -> C]
        /\ d.cycle \in Seq(C)
        /\ d = [color |-> d.color, parent |-> d.parent, cycle |-> d.cycle]
    BY DEF DfsState
  <1>. DEFINE p == [d EXCEPT !.parent[v] = u]
              s == [d EXCEPT !.cycle = Unwound(d.parent, u, v)]
  <1>2. p \in DfsState(C)
    <2>1. p = [color |-> d.color, parent |-> [d.parent EXCEPT ![v] = u], cycle |-> d.cycle]
      BY <1>1
    <2>2. [d.parent EXCEPT ![v] = u] \in [C -> C]
      BY <1>1
    <2>. QED BY <1>1, <2>1, <2>2 DEF DfsState
  <1>3. s \in DfsState(C)
    <2>1. Unwound(d.parent, u, v) \in Seq(C)
      BY <1>1, UnwoundType DEF Cycles
    <2>2. s = [color |-> d.color, parent |-> d.parent, cycle |-> Unwound(d.parent, u, v)]
      BY <1>1
    <2>. QED BY <1>1, <2>1, <2>2 DEF DfsState
  <1>. HIDE DEF p, s
  <1>4. visit[<<v, p>>] \in DfsState(C)
    <2>1. <<v, p>> \in C \X DfsState(C)
      BY <1>2
    <2>. QED BY <2>1 DEF Searching
  <1>5. Look(visit, d, u, v) \in {d, visit[<<v, p>>], s}
    BY DEF Look, p, s
  <1>. QED BY <1>2, <1>3, <1>4, <1>5 DEF p

\* The state of the search with one concept's colour changed.
Painted(d, u, colour) == [d EXCEPT !.color[u] = colour]

\* A change of colour changes nothing else.
LEMMA PaintType ==
  ASSUME NEW C, NEW d \in DfsState(C), NEW u \in C, NEW colour \in {"white", "gray", "black"}
  PROVE  /\ Painted(d, u, colour) \in DfsState(C) /\ Painted(d, u, colour).cycle = d.cycle
         /\ Painted(d, u, colour).parent = d.parent
         /\ Painted(d, u, colour).color[u] = colour
         /\ \A c \in C \ {u} : Painted(d, u, colour).color[c] = d.color[c]
  <1>1. /\ d.color \in [C -> {"white", "gray", "black"}] /\ d.parent \in [C -> C]
        /\ d.cycle \in Seq(C)
        /\ d = [color |-> d.color, parent |-> d.parent, cycle |-> d.cycle]
    BY DEF DfsState
  <1>. DEFINE t == [d EXCEPT !.color[u] = colour]
              k == [d.color EXCEPT ![u] = colour]
  <1>2. t = [color |-> k, parent |-> d.parent, cycle |-> d.cycle]
    BY <1>1
  <1>3. Painted(d, u, colour) = t
    BY DEF Painted
  <1>4. k \in [C -> {"white", "gray", "black"}] /\ k[u] = colour /\ DOMAIN k = C
    BY <1>1
  <1>5. \A c \in C \ {u} : k[c] = d.color[c]
    BY <1>1
  <1>. HIDE DEF k, t
  <1>6. t \in DfsState(C)
    BY <1>1, <1>2, <1>4 DEF DfsState
  <1>. QED BY <1>2, <1>4, <1>5, <1>6, <1>3

\* The edges lead from C to C.
EndsIn(E, C) == \A e \in E : e.from \in C /\ e.to \in C

\* The edges of a kind out of a concept.
OutSet(E, kind, u) == {e \in E : e.kind = kind /\ e.from = u}

\* Out lists the edges of a kind out of a concept.
LEMMA OutEdges ==
  ASSUME NEW E \in SUBSET Edge, IsFiniteSet(E), NEW kind, NEW u
  PROVE  /\ Out(E, kind, u) \in Seq(OutSet(E, kind, u))
         /\ ToSet(Out(E, kind, u)) = OutSet(E, kind, u)
  <1>1. OutSet(E, kind, u) \in SUBSET E
    BY DEF OutSet
  <1>2. Out(E, kind, u) = SortEdges(OutSet(E, kind, u))
    BY DEF Out, OutSet
  <1>3. IsFiniteSet(OutSet(E, kind, u)) /\ OutSet(E, kind, u) \in SUBSET Edge
    BY <1>1, FS_Subset
  <1>. QED BY <1>2, <1>3, EdgesAreListed

\* What Visit knows when it has looked at every edge of u.
Done(E, kind, visit, u, d) == Looked(visit, u, Out(E, kind, u), Entered(d, u))

\* A visit looks at every edge out of u, and is done with u if there is no
\* cycle.
LEMMA VisitEnds ==
  ASSUME NEW E, NEW kind, NEW visit, NEW u, NEW d
  PROVE  Visit(E, kind, visit, u, d) =
           IF Done(E, kind, visit, u, d).cycle # <<>> THEN Done(E, kind, visit, u, d)
           ELSE Painted(Done(E, kind, visit, u, d), u, "black")
  BY DEF Visit, Done, Looked, Painted

\* A visit looks at the edges in turn.
LEMMA VisitLooks ==
  ASSUME NEW C, IsFiniteSet(C), NEW E \in SUBSET Edge, IsFiniteSet(E), EndsIn(E, C), NEW kind,
         NEW visit \in Searching(C), NEW d \in DfsState(C), NEW u \in C
  PROVE  \E g : /\ LooksInTurn(g, DfsState(C), Entered(d, u), Out(E, kind, u), visit, u)
                /\ Done(E, kind, visit, u, d) = g[Len(Out(E, kind, u))]
  <1>. DEFINE D == DfsState(C)
              B == OutSet(E, kind, u)
              seq == Out(E, kind, u)
  <1>1. seq \in Seq(B)
    BY OutEdges
  <1>2. Entered(d, u) \in D
    BY PaintType DEF Entered, Painted
  <1>3. \A a \in D, b \in B : Look(visit, a, u, b.to) \in D
    <2>1. \A b \in B : b.to \in C
      BY DEF EndsIn, OutSet
    <2>. QED BY <2>1, LookType
  <1>. HIDE DEF D, B, seq
  <1>4. \E g : /\ LooksInTurn(g, D, Entered(d, u), seq, visit, u)
               /\ Looked(visit, u, seq, Entered(d, u)) = g[Len(seq)]
    BY <1>1, <1>2, <1>3, LookFolds
  <1>. QED BY <1>4 DEF D, seq, Done

\* A visit keeps the state of the search of its type.
LEMMA VisitType ==
  ASSUME NEW C, IsFiniteSet(C), NEW E \in SUBSET Edge, IsFiniteSet(E), EndsIn(E, C), NEW kind,
         NEW visit \in Searching(C), NEW d \in DfsState(C), NEW u \in C
  PROVE  /\ Done(E, kind, visit, u, d) \in DfsState(C)
         /\ Visit(E, kind, visit, u, d) \in DfsState(C)
  <1>. DEFINE done == Done(E, kind, visit, u, d)
  <1>1. done \in DfsState(C)
    <2>1. PICK g : /\ LooksInTurn(g, DfsState(C), Entered(d, u), Out(E, kind, u), visit, u)
                   /\ done = g[Len(Out(E, kind, u))]
      BY VisitLooks
    <2>2. Len(Out(E, kind, u)) \in 0..Len(Out(E, kind, u))
      BY OutEdges
    <2>. HIDE DEF done
    <2>. QED BY <2>1, <2>2 DEF LooksInTurn
  <1>. HIDE DEF done
  <1>2. Painted(done, u, "black") \in DfsState(C)
    BY <1>1, PaintType
  <1>. QED BY <1>1, <1>2, VisitEnds DEF done

\* f is what Visits is at each depth.
IsVisits(f, n, E, C, kind) ==
    /\ f \in [0..n -> Searching(C)]
    /\ \A u \in C, d \in DfsState(C) : f[0][<<u, d>>] = d
    /\ \A k \in 1..n : \A u \in C, d \in DfsState(C) :
         f[k][<<u, d>>] = Visit(E, kind, f[k - 1], u, d)

\* Visits goes one deeper each time.
LEMMA VisitsRun ==
  ASSUME NEW C, IsFiniteSet(C), NEW E \in SUBSET Edge, IsFiniteSet(E), EndsIn(E, C), NEW kind,
         NEW n \in Nat
  PROVE  \E f : IsVisits(f, n, E, C, kind) /\ Visits(E, C, kind, n) = f[n]
  <1>. DEFINE D == DfsState(C)
              A == Searching(C)
              base == [call \in C \X D |-> call[2]]
              step(f) == [call \in C \X D |-> Visit(E, kind, f, call[1], call[2])]
              at(f, k) == [call \in C \X D |->
                             IF k = 0 THEN call[2] ELSE Visit(E, kind, f[k - 1], call[1], call[2])]
              G == [q \in A \X (1..n) |-> step(q[1])]
              IsF(f) == f = [k \in 0..n |-> [call \in C \X DfsState(C) |->
                   IF k = 0 THEN call[2] ELSE Visit(E, kind, f[k - 1], call[1], call[2])]]
              f == CHOOSE f : IsF(f)
  <1>1. Visits(E, C, kind, n) = f[n]
    BY DEF Visits
  <1>2. base \in A
    BY DEF Searching
  <1>3. ASSUME NEW h \in A PROVE step(h) \in A
    <2>1. \A call \in C \X D : Visit(E, kind, h, call[1], call[2]) \in D
      BY VisitType
    <2>. QED BY <2>1 DEF Searching
  <1>4. G \in [A \X (1..n) -> A]
    <2>. HIDE DEF A, step
    <2>. QED BY <1>3
  <1>5. PICK g : IsRecursion(g, n, A, base, G)
    <2>. HIDE DEF G, A, base
    <2>. QED BY <1>2, <1>4, RecursionExists
  <1>6. /\ g \in [0..n -> A] /\ g[0] = base
        /\ \A k \in 1..n : g[k] = step(g[k - 1])
    <2>. HIDE DEF A, base, step
    <2>1. /\ g \in [0..n -> A] /\ g[0] = base
          /\ \A k \in 1..n : k - 1 \in 0..n /\ g[k] = G[<<g[k - 1], k>>]
      <3>. HIDE DEF G
      <3>. QED BY <1>5, Indices DEF IsRecursion
    <2>2. \A k \in 1..n : g[k - 1] \in A
      <3>. HIDE DEF G
      <3>. QED BY <2>1
    <2>. QED BY <2>1, <2>2
  <1>. HIDE DEF G
  <1>7. \A h : at(h, 0) = base /\ \A k \in 1..n : at(h, k) = step(h[k - 1])
    OBVIOUS
  <1>8. \A h : IsF(h) <=> h = [k \in 0..n |-> at(h, k)]
    OBVIOUS
  <1>. HIDE DEF f, IsF
  <1>9. IsF(g)
    <2>. HIDE DEF A, base, step, at
    <2>1. ASSUME NEW k \in 0..n PROVE g[k] = at(g, k)
      <3>1. CASE k = 0
        BY <1>6, <1>7, <3>1
      <3>2. CASE k # 0
        <4>1. k \in 1..n
          BY <3>2
        <4>. QED BY <1>6, <1>7, <4>1
      <3>. QED BY <3>1, <3>2
    <2>2. g = [k \in 0..n |-> g[k]]
      BY <1>6
    <2>. QED BY <1>8, <2>1, <2>2
  <1>10. IsF(f)
    BY <1>9 DEF f
  <1>11. f[0] = base /\ \A k \in 1..n : f[k] = step(f[k - 1])
    <2>. HIDE DEF A, base, step, at
    <2>1. 0 \in 0..n /\ \A k \in 1..n : k \in 0..n
      OBVIOUS
    <2>2. f = [k \in 0..n |-> at(f, k)]
      BY <1>8, <1>10
    <2>3. \A k \in 0..n : f[k] = at(f, k)
      BY <2>2
    <2>. QED BY <1>7, <2>1, <2>3
  <1>12. f \in [0..n -> A]
    <2>. HIDE DEF A, base, step, at
    <2>1. f = [k \in 0..n |-> f[k]]
      <3>1. f = [k \in 0..n |-> at(f, k)]
        BY <1>8, <1>10
      <3>. QED BY <3>1
    <2>2. \A k \in 1..n : f[k - 1] \in A => f[k] \in A
      BY <1>3, <1>11
    <2>. QED BY <1>2, <1>11, <2>1, <2>2, StepsType
  <1>13. \A u \in C, d \in D : f[0][<<u, d>>] = d
    BY <1>11
  <1>14. \A k \in 1..n : \A u \in C, d \in D : f[k][<<u, d>>] = Visit(E, kind, f[k - 1], u, d)
    <2>1. ASSUME NEW k \in 1..n
          PROVE  \A u \in C, d \in D : f[k][<<u, d>>] = Visit(E, kind, f[k - 1], u, d)
      <3>. PICK h : h = f[k - 1]
        OBVIOUS
      <3>1. f[k] = step(h)
        <4>. HIDE DEF step
        <4>. QED BY <1>11
      <3>2. \A u \in C, d \in D : step(h)[<<u, d>>] = Visit(E, kind, h, u, d)
        OBVIOUS
      <3>. HIDE DEF step, D
      <3>. QED BY <3>1, <3>2
    <2>. QED BY <2>1
  <1>. QED BY <1>1, <1>12, <1>13, <1>14 DEF IsVisits

-----------------------------------------------------------------------------
(* FindCycle: what a search that meets no cycle shows.                      *)

\* The arrows of one kind.
OneWay(E, kind) == {<<e.from, e.to>> : e \in {f \in E : f.kind = kind}}

\* Nothing leads out of B, and none of it leads round in a circle.
IsGrounded(B, R) ==
    /\ Onward(R, B) \subseteq B
    /\ \A S \in SUBSET B : S # {} => \E c \in S : Onward(R, {c}) \cap S = {}

\* A concept that leads only into grounded ones is grounded with them.
LEMMA GroundGrows ==
  ASSUME NEW R, NEW B, IsGrounded(B, R), NEW u, u \notin B, Onward(R, {u}) \subseteq B
  PROVE  IsGrounded(B \cup {u}, R)
  <1>1. Onward(R, B \cup {u}) \subseteq B \cup {u}
    BY DEF Onward, IsGrounded
  <1>2. ASSUME NEW S \in SUBSET (B \cup {u}), S # {}
        PROVE  \E c \in S : Onward(R, {c}) \cap S = {}
    <2>1. CASE S \cap B = {}
      <3>1. S = {u}
        BY <1>2, <2>1
      <3>. QED BY <3>1
    <2>2. CASE S \cap B # {}
      <3>1. PICK c \in S \cap B : Onward(R, {c}) \cap (S \cap B) = {}
        BY <2>2 DEF IsGrounded
      <3>2. Onward(R, {c}) \subseteq B
        BY <3>1 DEF IsGrounded, Onward
      <3>. QED BY <3>1, <3>2
    <2>. QED BY <2>1, <2>2
  <1>. QED BY <1>1, <1>2 DEF IsGrounded

\* The concepts of one colour.
Coloured(d, C, colour) == {c \in C : d.color[c] = colour}

\* The search has not met a cycle, is under way in G, and is done with B.
Knows(d, C, R, G, B) ==
    d.cycle = <<>> => /\ Coloured(d, C, "gray") = G
                      /\ B \subseteq Coloured(d, C, "black")
                      /\ IsGrounded(Coloured(d, C, "black"), R)

\* A search that may be asked with up to k concepts that are new.
Good(visit, C, R, k) ==
    \A u \in C, d \in DfsState(C) :
      /\ d.cycle = <<>> /\ d.color[u] = "white"
      /\ Cardinality(Coloured(d, C, "white")) <= k
      /\ IsGrounded(Coloured(d, C, "black"), R)
      => Knows(visit[<<u, d>>], C, R, Coloured(d, C, "gray"), Coloured(d, C, "black") \cup {u})

\* A concept has one of three colours.
LEMMA Colours ==
  ASSUME NEW C, NEW d \in DfsState(C), NEW c \in C
  PROVE  d.color[c] \in {"white", "gray", "black"}
  BY DEF DfsState

\* A look that meets no cycle leaves its concept black and the black ones
\* grounded.
LEMMA LookKeeps ==
  ASSUME NEW C, IsFiniteSet(C), NEW R, NEW k \in Nat, NEW visit, Good(visit, C, R, k),
         NEW d \in DfsState(C), NEW u \in C, NEW v \in C, NEW G, NEW B,
         Knows(d, C, R, G, B), Cardinality(C \ (G \cup B)) <= k
  PROVE  Knows(Look(visit, d, u, v), C, R, G, B \cup {v})
  <1>. DEFINE t == Look(visit, d, u, v)
              p == [d EXCEPT !.parent[v] = u]
              s == [d EXCEPT !.cycle = Unwound(d.parent, u, v)]
  <1>1. /\ d.parent \in [C -> C]
        /\ d = [color |-> d.color, parent |-> d.parent, cycle |-> d.cycle]
    BY DEF DfsState
  <1>2. CASE d.cycle # <<>>
    <2>1. t = d
      BY <1>2 DEF Look
    <2>. QED BY <1>2, <2>1 DEF Knows
  <1>3. CASE d.cycle = <<>> /\ d.color[v] = "black"
    <2>1. t = d
      BY <1>3 DEF Look
    <2>2. v \in Coloured(d, C, "black")
      BY <1>3 DEF Coloured
    <2>. QED BY <2>1, <2>2 DEF Knows
  <1>4. CASE d.cycle = <<>> /\ d.color[v] = "white"
    <2>1. p = [color |-> d.color, parent |-> [d.parent EXCEPT ![v] = u], cycle |-> d.cycle]
      BY <1>1
    <2>2. p.color = d.color /\ p.cycle = <<>> /\ p \in DfsState(C)
      <3>1. [d.parent EXCEPT ![v] = u] \in [C -> C]
        BY <1>1
      <3>. QED BY <1>4, <2>1, <3>1 DEF DfsState
    <2>3. t = visit[<<v, p>>]
      BY <1>4 DEF Look
    <2>. HIDE DEF p, t
    <2>4. \A colour : Coloured(p, C, colour) = Coloured(d, C, colour)
      BY <2>2 DEF Coloured
    <2>5. Cardinality(Coloured(p, C, "white")) <= k
      <3>1. Coloured(d, C, "white") \in SUBSET (C \ (G \cup B))
        BY <1>4 DEF Knows, Coloured
      <3>2. IsFiniteSet(C \ (G \cup B))
        BY FS_Subset
      <3>3. /\ IsFiniteSet(Coloured(d, C, "white"))
            /\ Cardinality(Coloured(d, C, "white")) <= Cardinality(C \ (G \cup B))
        BY <3>1, <3>2, FS_Subset
      <3>4. Cardinality(Coloured(d, C, "white")) \in Nat /\ Cardinality(C \ (G \cup B)) \in Nat
        BY <3>2, <3>3, FS_CardinalityType
      <3>. QED BY <2>4, <3>3, <3>4
    <2>6. p.color[v] = "white" /\ IsGrounded(Coloured(p, C, "black"), R)
      BY <1>4, <2>2, <2>4 DEF Knows
    <2>7. Knows(t, C, R, Coloured(p, C, "gray"), Coloured(p, C, "black") \cup {v})
      BY <2>2, <2>3, <2>5, <2>6 DEF Good
    <2>. QED BY <1>4, <2>4, <2>7 DEF Knows, t
  <1>5. CASE d.cycle = <<>> /\ d.color[v] = "gray"
    <2>1. t = s
      BY <1>5 DEF Look
    <2>2. s.cycle = Unwound(d.parent, u, v)
      BY <1>1
    <2>3. Unwound(d.parent, u, v) # <<>>
      BY <1>1, UnwoundType DEF Cycles
    <2>. QED BY <2>1, <2>2, <2>3 DEF Knows
  <1>. QED BY <1>2, <1>3, <1>4, <1>5, Colours

\* So does a visit, and it leaves u black.
LEMMA VisitKeeps ==
  ASSUME NEW C, IsFiniteSet(C), NEW E \in SUBSET Edge, IsFiniteSet(E), EndsIn(E, C), NEW kind,
         NEW R, R = OneWay(E, kind), NEW k \in Nat, NEW visit \in Searching(C),
         Good(visit, C, R, k), NEW u \in C, NEW d \in DfsState(C),
         d.cycle = <<>>, d.color[u] = "white", Cardinality(Coloured(d, C, "white")) <= k + 1,
         IsGrounded(Coloured(d, C, "black"), R)
  PROVE  Knows(Visit(E, kind, visit, u, d), C, R,
               Coloured(d, C, "gray"), Coloured(d, C, "black") \cup {u})
  <1>. DEFINE seq == Out(E, kind, u)
              n == Len(seq)
              start == Entered(d, u)
              G == Coloured(d, C, "gray") \cup {u}
              B == Coloured(d, C, "black")
              T(i) == B \cup {seq[j].to : j \in 1..i}
              done == Done(E, kind, visit, u, d)
  <1>1. PICK g : LooksInTurn(g, DfsState(C), start, seq, visit, u) /\ done = g[n]
    BY VisitLooks
  <1>2. /\ g \in [0..n -> DfsState(C)] /\ g[0] = start
        /\ \A i \in 1..n : g[i] = Look(visit, g[i - 1], u, seq[i].to)
    BY <1>1 DEF LooksInTurn
  <1>3. /\ seq \in Seq(OutSet(E, kind, u)) /\ ToSet(seq) = OutSet(E, kind, u)
        /\ n \in Nat /\ DOMAIN seq = 1..n
    BY OutEdges
  <1>4. \A i \in 1..n : seq[i] \in OutSet(E, kind, u) /\ seq[i].to \in C
    BY <1>3 DEF OutSet, EndsIn
  <1>. HIDE DEF seq, n, done
  <1>5. /\ start \in DfsState(C) /\ start.cycle = <<>>
        /\ Coloured(start, C, "gray") = G /\ Coloured(start, C, "black") = B
    <2>1. /\ start \in DfsState(C) /\ start.cycle = <<>> /\ start.color[u] = "gray"
          /\ \A c \in C \ {u} : start.color[c] = d.color[c]
      <3>1. start = Painted(d, u, "gray")
        BY DEF Entered, Painted
      <3>2. "gray" \in {"white", "gray", "black"}
        OBVIOUS
      <3>. DEFINE q == Painted(d, u, "gray")
      <3>3. /\ q \in DfsState(C) /\ q.cycle = d.cycle /\ q.color[u] = "gray"
            /\ \A c \in C \ {u} : q.color[c] = d.color[c]
        BY <3>2, PaintType
      <3>. HIDE DEF start, q
      <3>4. start = q
        BY <3>1 DEF q
      <3>. QED BY <3>3, <3>4
    <2>. HIDE DEF start
    <2>. QED BY <2>1 DEF Coloured
  <1>6. Cardinality(C \ (G \cup B)) <= k
    <2>. DEFINE W == Coloured(d, C, "white")
    <2>1. C \ (G \cup B) = W \ {u}
      BY Colours DEF Coloured
    <2>2. u \in W /\ IsFiniteSet(W)
      <3>1. W \in SUBSET C
        BY DEF Coloured
      <3>. HIDE DEF W
      <3>2. IsFiniteSet(W)
        BY <3>1, FS_Subset
      <3>. QED BY <3>2 DEF W, Coloured
    <2>3. Cardinality(W) <= k + 1
      OBVIOUS
    <2>. HIDE DEF W
    <2>4. Cardinality(W \ {u}) = Cardinality(W) - 1
      BY <2>2, FS_RemoveElement
    <2>5. Cardinality(W) \in Nat
      BY <2>2, FS_CardinalityType
    <2>6. Cardinality(W \ {u}) <= k
      BY <2>3, <2>4, <2>5
    <2>. QED BY <2>1, <2>6
  <1>. DEFINE P == {i \in 0..n : Knows(g[i], C, R, G, T(i))}
  <1>7. 0 \in P
    <2>1. T(0) = B
      OBVIOUS
    <2>. HIDE DEF G, B, T, start
    <2>2. Knows(start, C, R, G, T(0))
      BY <1>5, <2>1 DEF Knows, B
    <2>. QED BY <1>2, <1>3, <2>2, Indices
  <1>8. ASSUME NEW i \in 1..n, i - 1 \in P PROVE i \in P
    <2>1. g[i - 1] \in DfsState(C) /\ i \in 0..n /\ i \in Nat
      BY <1>2, <1>3, Indices
    <2>2. T(i) = T(i - 1) \cup {seq[i].to}
      <3>1. 1..i = (1..(i - 1)) \cup {i}
        BY <2>1
      <3>2. {seq[j].to : j \in 1..i} = {seq[j].to : j \in 1..(i - 1)} \cup {seq[i].to}
        BY <3>1
      <3>. QED BY <3>2
    <2>3. Cardinality(C \ (G \cup T(i - 1))) <= k
      <3>1. C \ (G \cup T(i - 1)) \in SUBSET (C \ (G \cup B))
        OBVIOUS
      <3>. HIDE DEF G, B, T
      <3>2. IsFiniteSet(C \ (G \cup B))
        BY FS_Subset
      <3>3. /\ IsFiniteSet(C \ (G \cup T(i - 1)))
            /\ Cardinality(C \ (G \cup T(i - 1))) <= Cardinality(C \ (G \cup B))
        BY <3>1, <3>2, FS_Subset
      <3>4. Cardinality(C \ (G \cup T(i - 1))) \in Nat /\ Cardinality(C \ (G \cup B)) \in Nat
        BY <3>2, <3>3, FS_CardinalityType
      <3>. QED BY <1>6, <3>3, <3>4
    <2>4. Knows(g[i - 1], C, R, G, T(i - 1))
      BY <1>8
    <2>. HIDE DEF G, B, T
    <2>5. Knows(Look(visit, g[i - 1], u, seq[i].to), C, R, G, T(i - 1) \cup {seq[i].to})
      BY <1>4, <2>1, <2>3, <2>4, LookKeeps
    <2>. QED BY <1>2, <2>1, <2>2, <2>5
  <1>9. done \in DfsState(C) /\ Knows(done, C, R, G, T(n))
    <2>1. n \in P
      <3>. HIDE DEF P
      <3>. QED BY <1>3, <1>7, <1>8, UpTo, Indices
    <2>. HIDE DEF G, T
    <2>. QED BY <1>1, <1>2, <1>3, <2>1, Indices
  <1>10. Onward(R, {u}) \subseteq T(n)
    <2>1. ASSUME NEW c \in Onward(R, {u}) PROVE c \in {seq[j].to : j \in 1..n}
      <3>1. PICK e \in E : e.kind = kind /\ e.from = u /\ e.to = c
        BY DEF Onward, OneWay
      <3>2. e \in ToSet(seq)
        BY <1>3, <3>1 DEF OutSet
      <3>. QED BY <1>3, <3>1, <3>2 DEF ToSet
    <2>. QED BY <2>1
  <1>11. CASE done.cycle # <<>>
    <2>1. Visit(E, kind, visit, u, d) = done
      BY <1>11, VisitEnds DEF done
    <2>. QED BY <1>11, <2>1 DEF Knows
  <1>12. CASE done.cycle = <<>>
    <2>. DEFINE t == Painted(done, u, "black")
                K == Coloured(done, C, "black")
    <2>1. Visit(E, kind, visit, u, d) = t
      BY <1>12, VisitEnds DEF done
    <2>2. t.color[u] = "black" /\ \A c \in C \ {u} : t.color[c] = done.color[c]
      BY <1>9, PaintType
    <2>. HIDE DEF t
    <2>3. Coloured(done, C, "gray") = G /\ T(n) \subseteq K /\ IsGrounded(K, R) /\ B \subseteq K
      <3>1. Coloured(done, C, "gray") = G /\ T(n) \subseteq K /\ IsGrounded(K, R)
        <4>. HIDE DEF T, G
        <4>. QED BY <1>9, <1>12 DEF Knows
      <3>2. B \subseteq T(n)
        OBVIOUS
      <3>. HIDE DEF T, G, B, K
      <3>. QED BY <3>1, <3>2
    <2>4. u \notin K /\ u \notin Coloured(d, C, "gray")
      <3>1. u \in Coloured(done, C, "gray")
        BY <2>3
      <3>. QED BY <3>1 DEF Coloured
    <2>5. Coloured(t, C, "black") = K \cup {u}
      BY <2>2 DEF Coloured
    <2>6. Coloured(t, C, "gray") = Coloured(d, C, "gray")
      <3>1. Coloured(t, C, "gray") = Coloured(done, C, "gray") \ {u}
        BY <2>2 DEF Coloured
      <3>. QED BY <2>3, <2>4, <3>1
    <2>. HIDE DEF K, B, T
    <2>7. IsGrounded(K \cup {u}, R)
      BY <1>10, <2>3, <2>4, GroundGrows
    <2>8. B \cup {u} \subseteq K \cup {u}
      BY <2>3
    <2>. QED BY <2>1, <2>5, <2>6, <2>7, <2>8 DEF Knows, B
  <1>. QED BY <1>11, <1>12

\* A visit may be asked with as many new concepts as Visits is deep.
LEMMA VisitsAreGood ==
  ASSUME NEW C, IsFiniteSet(C), NEW E \in SUBSET Edge, IsFiniteSet(E), EndsIn(E, C), NEW kind,
         NEW R, R = OneWay(E, kind), NEW n \in Nat, NEW f, IsVisits(f, n, E, C, kind)
  PROVE  f[n] \in Searching(C) /\ Good(f[n], C, R, n)
  <1>1. /\ f \in [0..n -> Searching(C)]
        /\ \A u \in C, d \in DfsState(C) : f[0][<<u, d>>] = d
        /\ \A k \in 1..n : \A u \in C, d \in DfsState(C) :
             f[k][<<u, d>>] = Visit(E, kind, f[k - 1], u, d)
    BY DEF IsVisits
  <1>. DEFINE P == {k \in 0..n : Good(f[k], C, R, k)}
  <1>2. 0 \in P
    <2>1. ASSUME NEW u \in C, NEW d \in DfsState(C), d.color[u] = "white",
                 Cardinality(Coloured(d, C, "white")) <= 0
          PROVE  FALSE
      <3>1. Coloured(d, C, "white") \in SUBSET C /\ u \in Coloured(d, C, "white")
        BY <2>1 DEF Coloured
      <3>2. IsFiniteSet(Coloured(d, C, "white"))
        BY <3>1, FS_Subset
      <3>3. Cardinality(Coloured(d, C, "white")) = 0
        BY <2>1, <3>2, FS_CardinalityType
      <3>. QED BY <3>1, <3>2, <3>3, FS_EmptySet
    <2>2. Good(f[0], C, R, 0)
      BY <2>1 DEF Good
    <2>. QED BY <2>2, Indices
  <1>3. ASSUME NEW k \in 1..n, k - 1 \in P PROVE k \in P
    <2>. PICK visit : visit = f[k - 1]
      OBVIOUS
    <2>1. /\ visit \in Searching(C) /\ k \in 0..n /\ k - 1 \in Nat /\ (k - 1) + 1 = k
      BY <1>1, Indices
    <2>2. Good(visit, C, R, k - 1)
      BY <1>3
    <2>3. ASSUME NEW u \in C, NEW d \in DfsState(C), d.cycle = <<>>, d.color[u] = "white",
                 Cardinality(Coloured(d, C, "white")) <= k, IsGrounded(Coloured(d, C, "black"), R)
          PROVE  Knows(f[k][<<u, d>>], C, R,
                       Coloured(d, C, "gray"), Coloured(d, C, "black") \cup {u})
      <3>1. f[k][<<u, d>>] = Visit(E, kind, visit, u, d)
        BY <1>1
      <3>2. Cardinality(Coloured(d, C, "white")) <= (k - 1) + 1
        BY <2>1, <2>3
      <3>3. Knows(Visit(E, kind, visit, u, d), C, R,
                  Coloured(d, C, "gray"), Coloured(d, C, "black") \cup {u})
        BY <2>1, <2>2, <2>3, <3>2, VisitKeeps
      <3>. QED BY <3>1, <3>3
    <2>4. Good(f[k], C, R, k)
      BY <2>3 DEF Good
    <2>. QED BY <2>1, <2>4
  <1>4. n \in P
    <2>. HIDE DEF P
    <2>. QED BY <1>2, <1>3, UpTo, Indices
  <1>. QED BY <1>1, <1>4, Indices

\* The search before it begins.
NoneMet(C) ==
    [color |-> [c \in C |-> "white"], parent |-> [c \in C |-> c], cycle |-> <<>>]

\* FindCycle searches from every concept in turn.
IsSearchOf(seq, visit, g, E, C, kind) ==
    /\ seq \in Seq(C) /\ ToSet(seq) = C /\ Len(seq) \in Nat /\ DOMAIN seq = 1..Len(seq)
    /\ visit = Visits(E, C, kind, Cardinality(C))
    /\ DivesInTurn(g, DfsState(C), NoneMet(C), seq, visit)
    /\ FindCycle(E, C, kind) = g[Len(seq)].cycle

\* So it does: FindCycle is its fold over the concepts in order.
LEMMA FindCycleDives ==
  ASSUME NEW C \in SUBSET ConceptIds, IsFiniteSet(C), NEW E \in SUBSET Edge, IsFiniteSet(E),
         EndsIn(E, C), NEW kind
  PROVE  /\ \E seq, visit, g : IsSearchOf(seq, visit, g, E, C, kind)
         /\ NoneMet(C) \in DfsState(C) /\ NoneMet(C).cycle = <<>>
         /\ \A c \in C : NoneMet(C).color[c] = "white"
  <1>. DEFINE N == Cardinality(C)
              less == {p \in C \X C : p[1] < p[2]}
              seq == Ordered(C, less)
              visit == Visits(E, C, kind, N)
              start == NoneMet(C)
  <1>1. FindCycle(E, C, kind) = Dived(visit, seq, start).cycle
    BY DEF FindCycle, Dived, NoneMet
  <1>2. visit \in Searching(C)
    <2>1. N \in Nat
      BY FS_CardinalityType
    <2>2. PICK f : IsVisits(f, N, E, C, kind) /\ visit = f[N]
      BY <2>1, VisitsRun
    <2>. HIDE DEF visit, N
    <2>. QED BY <2>1, <2>2, Indices DEF IsVisits
  <1>3. IsListOf(seq, C, less)
    <2>1. \A c \in C : c \in Int
      BY CurriculumConstants
    <2>2. IsOrder(less, C)
      <3>1. \A x, y \in C : <<x, y>> \in less <=> x < y
        OBVIOUS
      <3>. HIDE DEF less
      <3>. QED BY <2>1, <3>1 DEF IsOrder
    <2>. HIDE DEF less
    <2>. QED BY <2>2, OrderedLists
  <1>4. start \in DfsState(C) /\ start.cycle = <<>> /\ \A c \in C : start.color[c] = "white"
    BY DEF DfsState, NoneMet
  <1>5. seq \in Seq(C) /\ ToSet(seq) = C /\ Len(seq) \in Nat /\ DOMAIN seq = 1..Len(seq)
    BY <1>3 DEF IsListOf
  <1>. HIDE DEF seq, start, less
  <1>6. ASSUME NEW d \in DfsState(C), NEW u \in C PROVE Dive(visit, d, u) \in DfsState(C)
    <2>. HIDE DEF visit
    <2>1. visit[<<u, d>>] \in DfsState(C)
      BY <1>2 DEF Searching
    <2>. QED BY <2>1 DEF Dive
  <1>7. \E g : /\ DivesInTurn(g, DfsState(C), start, seq, visit)
              /\ Dived(visit, seq, start) = g[Len(seq)]
    <2>. HIDE DEF visit
    <2>. QED BY <1>4, <1>5, <1>6, DiveFolds
  <1>8. \E g : IsSearchOf(seq, visit, g, E, C, kind)
    BY <1>1, <1>5, <1>7 DEF IsSearchOf, start
  <1>. QED BY <1>4, <1>8 DEF start

\* A search that met no cycle has been everywhere, and there is none.
LEMMA NoCycleIsFound ==
  ASSUME NEW C \in SUBSET ConceptIds, IsFiniteSet(C), NEW E \in SUBSET Edge, IsFiniteSet(E),
         EndsIn(E, C), NEW kind, FindCycle(E, C, kind) = <<>>
  PROVE  IsGrounded(C, OneWay(E, kind))
  <1>. DEFINE N == Cardinality(C)
              R == OneWay(E, kind)
              start == NoneMet(C)
  <1>1. N \in Nat
    BY FS_CardinalityType
  <1>2. PICK seq, visit, g : IsSearchOf(seq, visit, g, E, C, kind)
    BY FindCycleDives
  <1>3. visit \in Searching(C) /\ Good(visit, C, R, N)
    <2>1. PICK f : IsVisits(f, N, E, C, kind) /\ visit = f[N]
      BY <1>1, <1>2, VisitsRun DEF IsSearchOf
    <2>. HIDE DEF R, N
    <2>. QED BY <1>1, <2>1, VisitsAreGood DEF R
  <1>. DEFINE n == Len(seq)
  <1>4. seq \in Seq(C) /\ ToSet(seq) = C /\ n \in Nat /\ DOMAIN seq = 1..n
    BY <1>2 DEF IsSearchOf
  <1>5. start \in DfsState(C) /\ start.cycle = <<>> /\ \A c \in C : start.color[c] = "white"
    BY FindCycleDives
  <1>6. /\ g \in [0..n -> DfsState(C)] /\ g[0] = start
        /\ \A k \in 1..n : g[k] = Dive(visit, g[k - 1], seq[k])
    BY <1>2 DEF IsSearchOf, DivesInTurn
  <1>7. FindCycle(E, C, kind) = g[n].cycle
    BY <1>2 DEF IsSearchOf
  <1>. HIDE DEF start, n
  <1>. DEFINE T(i) == {seq[j] : j \in 1..i}
              P == {i \in 0..n : Knows(g[i], C, R, {}, T(i))}
  <1>8. 0 \in P
    <2>1. /\ Coloured(start, C, "gray") = {} /\ Coloured(start, C, "black") = {} /\ T(0) = {}
      BY <1>5 DEF Coloured
    <2>2. IsGrounded({}, R)
      BY DEF IsGrounded, Onward
    <2>. HIDE DEF T, R
    <2>3. Knows(start, C, R, {}, T(0))
      BY <2>1, <2>2 DEF Knows
    <2>. QED BY <1>4, <1>6, <2>3, Indices
  <1>9. ASSUME NEW i \in 1..n, i - 1 \in P PROVE i \in P
    <2>. PICK d : d = g[i - 1]
      OBVIOUS
    <2>. PICK u : u = seq[i]
      OBVIOUS
    <2>1. d \in DfsState(C) /\ u \in C /\ i \in 0..n /\ i \in Nat /\ g[i] = Dive(visit, d, u)
      BY <1>4, <1>6, Indices
    <2>2. Knows(d, C, R, {}, T(i - 1))
      BY <1>9
    <2>3. T(i) = T(i - 1) \cup {u}
      <3>1. 1..i = (1..(i - 1)) \cup {i}
        BY <2>1
      <3>. QED BY <3>1
    <2>. HIDE DEF R, T
    <2>4. CASE d.cycle # <<>>
      <3>1. g[i] = d
        BY <2>1, <2>4 DEF Dive
      <3>. QED BY <2>1, <2>4, <3>1 DEF Knows
    <2>5. CASE d.cycle = <<>> /\ d.color[u] # "white"
      <3>1. g[i] = d
        BY <2>1, <2>5 DEF Dive
      <3>2. u \in Coloured(d, C, "black")
        BY <2>1, <2>2, <2>5, Colours DEF Knows, Coloured
      <3>. QED BY <2>1, <2>2, <2>3, <3>1, <3>2 DEF Knows
    <2>6. CASE d.cycle = <<>> /\ d.color[u] = "white"
      <3>1. g[i] = visit[<<u, d>>]
        BY <2>1, <2>6 DEF Dive
      <3>2. Cardinality(Coloured(d, C, "white")) <= N
        <4>1. Coloured(d, C, "white") \in SUBSET C
          BY DEF Coloured
        <4>. QED BY <4>1, FS_Subset
      <3>3. IsGrounded(Coloured(d, C, "black"), R)
        BY <2>2, <2>6 DEF Knows
      <3>4. Knows(visit[<<u, d>>], C, R, Coloured(d, C, "gray"), Coloured(d, C, "black") \cup {u})
        <4>. HIDE DEF N
        <4>. QED BY <1>3, <2>1, <2>6, <3>2, <3>3 DEF Good
      <3>. QED BY <2>1, <2>2, <2>3, <2>6, <3>1, <3>4 DEF Knows
    <2>. QED BY <2>4, <2>5, <2>6
  <1>10. Knows(g[n], C, R, {}, T(n)) /\ g[n].cycle = <<>>
    <2>1. n \in P
      <3>. HIDE DEF P
      <3>. QED BY <1>4, <1>8, <1>9, UpTo, Indices
    <2>. HIDE DEF T, R
    <2>. QED BY <1>7, <2>1
  <1>11. T(n) = C
    BY <1>4 DEF ToSet
  <1>12. Coloured(g[n], C, "black") = C /\ IsGrounded(Coloured(g[n], C, "black"), R)
    <2>1. Coloured(g[n], C, "black") \subseteq C
      BY DEF Coloured
    <2>. HIDE DEF T, R
    <2>. QED BY <1>10, <1>11, <2>1 DEF Knows
  <1>. QED BY <1>12

-----------------------------------------------------------------------------
(* FindCycle: what it answers when it meets a cycle.                        *)

\* A walk along R that ends where it began.
IsCycle(c, R) ==
    /\ Len(c) >= 2 /\ c[1] = c[Len(c)]
    /\ \A i \in 1..(Len(c) - 1) : <<c[i], c[i + 1]>> \in R

\* The parents lead down s, along R, each concept once.
IsChain(s, parent, C, R) ==
    /\ s \in Seq(C)
    /\ \A i, j \in DOMAIN s : s[i] = s[j] => i = j
    /\ \A i \in DOMAIN s : i + 1 \in DOMAIN s =>
         parent[s[i + 1]] = s[i] /\ <<s[i], s[i + 1]>> \in R

\* What is written down while the parents are followed from u back to v.
IsTrail(b, C, R, v) ==
    /\ b \in Cycles(C) /\ Len(b) >= 2 /\ b[Len(b)] = v
    /\ \A i \in 1..(Len(b) - 1) : <<b[i], b[i + 1]>> \in R

\* A trail can be followed back one edge more.
LEMMA TrailGrows ==
  ASSUME NEW C, NEW R, NEW v \in C, NEW b, IsTrail(b, C, R, v), NEW c \in C, <<c, Head(b)>> \in R
  PROVE  IsTrail(<<c>> \o b, C, R, v) /\ Head(<<c>> \o b) = c
  <1>1. /\ b \in Seq(C) /\ Len(b) \in Nat /\ Len(b) >= 2 /\ b[Len(b)] = v /\ Head(b) = b[1]
        /\ \A i \in 1..(Len(b) - 1) : <<b[i], b[i + 1]>> \in R
    BY DEF IsTrail, Cycles
  <1>. DEFINE t == <<c>> \o b
              m == Len(b)
  <1>2. /\ t \in Seq(C) /\ Len(t) = m + 1 /\ t[1] = c /\ Head(t) = c
        /\ \A i \in 1..m : t[i + 1] = b[i]
    BY <1>1
  <1>. HIDE DEF t
  <1>3. t[Len(t)] = v /\ Len(t) >= 2 /\ t # <<>>
    BY <1>1, <1>2
  <1>4. ASSUME NEW i \in 1..(Len(t) - 1) PROVE <<t[i], t[i + 1]>> \in R
    <2>1. CASE i = 1
      <3>1. t[i] = c /\ t[i + 1] = Head(b)
        BY <1>1, <1>2, <2>1
      <3>. QED BY <3>1
    <2>2. CASE i # 1
      <3>1. i - 1 \in 1..(m - 1) /\ i \in 1..m /\ i - 1 \in 1..m /\ (i - 1) + 1 = i
        BY <1>1, <1>2, <2>2
      <3>2. t[i] = b[i - 1] /\ t[i + 1] = b[(i - 1) + 1]
        BY <1>2, <3>1
      <3>. QED BY <1>1, <3>1, <3>2
    <2>. QED BY <2>1, <2>2
  <1>. QED BY <1>2, <1>3, <1>4 DEF IsTrail, Cycles, t

\* From the end of a chain back to any of it: a cycle, if an edge closes it.
LEMMA UnwoundIsCycle ==
  ASSUME NEW C, IsFiniteSet(C), NEW R, NEW parent \in [C -> C], NEW s, IsChain(s, parent, C, R),
         s # <<>>, NEW v \in ToSet(s), <<s[Len(s)], v>> \in R
  PROVE  IsCycle(Unwound(parent, s[Len(s)], v), R)
  <1>. DEFINE m == Len(s)
              u == s[m]
              n == Cardinality(C)
  <1>1. /\ s \in Seq(C) /\ m \in Nat \ {0} /\ DOMAIN s = 1..m /\ u \in C
        /\ \A i, j \in 1..m : s[i] = s[j] => i = j
        /\ \A i \in 1..m : s[i] \in C
    BY DEF IsChain
  <1>2. \A i \in 1..(m - 1) : parent[s[i + 1]] = s[i] /\ <<s[i], s[i + 1]>> \in R
    <2>1. \A i \in 1..(m - 1) : i \in 1..m /\ i + 1 \in 1..m
      BY <1>1
    <2>. QED BY <1>1, <2>1 DEF IsChain
  <1>3. PICK j \in 1..m : s[j] = v
    BY <1>1 DEF ToSet
  <1>4. n \in Nat /\ m <= n
    <2>1. n \in Nat
      BY FS_CardinalityType
    <2>2. s \in Injection(1..m, C)
      BY <1>1 DEF Injection, IsInjective
    <2>3. IsFiniteSet(1..m) /\ Cardinality(1..m) = m
      BY <1>1, FS_Interval
    <2>4. Cardinality(1..m) <= Cardinality(C)
      BY <2>2, FS_Injection
    <2>. QED BY <2>1, <2>3, <2>4
  <1>. HIDE DEF m, u, n
  <1>5. v \in C
    BY <1>1, <1>3
  <1>6. PICK f : IsUnwinding(f, n, C, parent, u, v) /\ Unwound(parent, u, v) = f[n]
    BY <1>1, <1>5, UnwoundRuns DEF n
  <1>7. /\ f \in [0..n -> Cycles(C)] /\ f[0] = <<u, v>>
        /\ \A k \in 1..n : f[k] = Back(parent, v, f[k - 1])
    BY <1>6 DEF IsUnwinding
  <1>. DEFINE Here(k) == Head(f[k]) = v \/ (k < m - j /\ Head(f[k]) = s[m - k])
              P == {k \in 0..n : IsTrail(f[k], C, R, v) /\ Here(k)}
  <1>8. 0 \in P
    <2>1. IsTrail(<<u, v>>, C, R, v)
      <3>. DEFINE b == <<u, v>>
      <3>1. b \in Seq(C) /\ b # <<>> /\ Len(b) = 2 /\ b[1] = u /\ b[2] = v
        BY <1>1, <1>5
      <3>2. <<u, v>> \in R
        BY DEF u, m
      <3>. HIDE DEF b
      <3>3. \A i \in 1..(Len(b) - 1) : <<b[i], b[i + 1]>> \in R
        BY <3>1, <3>2
      <3>. QED BY <3>1, <3>3 DEF IsTrail, Cycles, b
    <2>2. Here(0)
      <3>1. Head(f[0]) = s[m] /\ m - 0 = m
        BY <1>1, <1>7 DEF u
      <3>2. j = m \/ 0 < m - j
        BY <1>1, <1>3
      <3>. QED BY <1>3, <3>1, <3>2
    <2>. QED BY <1>4, <1>7, <2>1, <2>2, Indices
  <1>9. ASSUME NEW k \in 1..n, k - 1 \in P PROVE k \in P
    <2>. PICK b : b = f[k - 1]
      OBVIOUS
    <2>1. /\ k \in 0..n /\ IsTrail(b, C, R, v) /\ f[k] = Back(parent, v, b)
          /\ Head(b) = v \/ (k - 1 < m - j /\ Head(b) = s[m - (k - 1)])
      BY <1>7, <1>9
    <2>2. CASE Head(b) = v
      BY <2>1, <2>2 DEF Back
    <2>3. CASE Head(b) # v
      <3>. DEFINE i == m - k
                  c == s[i]
      <3>1. i \in 1..(m - 1) /\ i + 1 = m - (k - 1) /\ i \in 1..m /\ i >= j
        BY <1>1, <1>3, <2>1, <2>3
      <3>2. Head(b) = s[i + 1]
        BY <2>1, <2>3, <3>1
      <3>3. parent[Head(b)] = c /\ <<c, Head(b)>> \in R /\ c \in C
        BY <1>1, <1>2, <3>1, <3>2
      <3>4. f[k] = <<c>> \o b
        BY <2>1, <2>3, <3>3 DEF Back
      <3>5. IsTrail(f[k], C, R, v) /\ Head(f[k]) = c
        <4>. HIDE DEF c
        <4>. QED BY <1>5, <2>1, <3>3, <3>4, TrailGrows
      <3>6. i = j \/ k < m - j
        BY <1>1, <1>3, <3>1
      <3>. QED BY <1>3, <2>1, <3>5, <3>6
    <2>. QED BY <2>2, <2>3
  <1>10. IsTrail(f[n], C, R, v) /\ Head(f[n]) = v
    <2>1. n \in P
      <3>. HIDE DEF P
      <3>. QED BY <1>4, <1>8, <1>9, UpTo, Indices
    <2>2. ~ (n < m - j)
      BY <1>1, <1>3, <1>4
    <2>. QED BY <2>1, <2>2
  <1>11. IsCycle(f[n], R)
    <2>1. f[n] \in Seq(C) /\ f[n] # <<>>
      BY <1>10 DEF IsTrail, Cycles
    <2>2. Head(f[n]) = f[n][1]
      BY <2>1
    <2>. QED BY <1>10, <2>2 DEF IsTrail, IsCycle
  <1>. QED BY <1>6, <1>11 DEF u, m

\* The search is under way in the chain s, or has met a cycle.
Follows(d, C, R, s) ==
    IF d.cycle = <<>> THEN IsChain(s, d.parent, C, R) /\ ToSet(s) = Coloured(d, C, "gray")
                      ELSE IsCycle(d.cycle, R)

\* A concept that may be entered from the end of the chain s.
IsNext(u, d, R, s) == s # <<>> => d.parent[u] = s[Len(s)] /\ <<s[Len(s)], u>> \in R

\* A search that comes back to where it was asked, unless it meets a cycle.
Honest(visit, C, R) ==
    \A u \in C, d \in DfsState(C), s \in Seq(C) :
      /\ d.cycle = <<>> /\ d.color[u] = "white"
      /\ Follows(d, C, R, s) /\ IsNext(u, d, R, s)
      => Follows(visit[<<u, d>>], C, R, s)

\* An edge from the end of the chain.
LEMMA LookFollows ==
  ASSUME NEW C, IsFiniteSet(C), NEW R, NEW visit, Honest(visit, C, R),
         NEW d \in DfsState(C), NEW s \in Seq(C), s # <<>>, NEW v \in C,
         <<s[Len(s)], v>> \in R, Follows(d, C, R, s)
  PROVE  Follows(Look(visit, d, s[Len(s)], v), C, R, s)
  <1>. DEFINE u == s[Len(s)]
              t == Look(visit, d, u, v)
              p == [d EXCEPT !.parent[v] = u]
              q == [d EXCEPT !.cycle = Unwound(d.parent, u, v)]
  <1>1. /\ d.parent \in [C -> C] /\ u \in C
        /\ d = [color |-> d.color, parent |-> d.parent, cycle |-> d.cycle]
    BY DEF DfsState
  <1>2. CASE d.cycle # <<>> \/ d.color[v] = "black"
    <2>1. t = d
      BY <1>2 DEF Look
    <2>. QED BY <2>1
  <1>3. CASE d.cycle = <<>> /\ d.color[v] = "white"
    <2>1. IsChain(s, d.parent, C, R) /\ ToSet(s) = Coloured(d, C, "gray")
      BY <1>3 DEF Follows
    <2>2. p = [color |-> d.color, parent |-> [d.parent EXCEPT ![v] = u], cycle |-> d.cycle]
      BY <1>1
    <2>3. /\ p.color = d.color /\ p.cycle = <<>> /\ p \in DfsState(C) /\ p.parent[v] = u
          /\ \A c \in C : c # v => p.parent[c] = d.parent[c]
      <3>1. [d.parent EXCEPT ![v] = u] \in [C -> C]
        BY <1>1
      <3>2. p \in DfsState(C)
        BY <1>3, <2>2, <3>1 DEF DfsState
      <3>. QED BY <1>1, <1>3, <2>2, <3>2
    <2>4. t = visit[<<v, p>>]
      BY <1>3 DEF Look
    <2>. HIDE DEF p, t
    <2>5. ToSet(s) = Coloured(p, C, "gray") /\ v \notin ToSet(s)
      BY <1>3, <2>1, <2>3 DEF Coloured
    <2>6. \A i \in DOMAIN s : s[i] \in C /\ s[i] # v
      BY <2>5 DEF ToSet
    <2>7. IsChain(s, p.parent, C, R)
      BY <2>1, <2>3, <2>6 DEF IsChain
    <2>8. Follows(p, C, R, s) /\ IsNext(v, p, R, s) /\ p.color[v] = "white"
      BY <1>3, <2>3, <2>5, <2>7 DEF Follows, IsNext
    <2>. QED BY <2>3, <2>4, <2>8 DEF Honest, t
  <1>4. CASE d.cycle = <<>> /\ d.color[v] = "gray"
    <2>1. IsChain(s, d.parent, C, R) /\ v \in ToSet(s)
      BY <1>4 DEF Follows, Coloured
    <2>2. t = q
      BY <1>4 DEF Look
    <2>3. q.cycle = Unwound(d.parent, u, v)
      BY <1>1
    <2>4. IsCycle(Unwound(d.parent, u, v), R) /\ Unwound(d.parent, u, v) # <<>>
      BY <1>1, <2>1, UnwoundIsCycle, UnwoundType DEF Cycles
    <2>. HIDE DEF q, t
    <2>. QED BY <2>2, <2>3, <2>4 DEF Follows, t
  <1>. QED BY <1>2, <1>3, <1>4, Colours

\* A concept more at the end of a chain, or one less.
LEMMA ChainGrows ==
  ASSUME NEW C, NEW R, NEW parent, NEW s, IsChain(s, parent, C, R), NEW u \in C, u \notin ToSet(s),
         s # <<>> => parent[u] = s[Len(s)] /\ <<s[Len(s)], u>> \in R
  PROVE  /\ IsChain(Append(s, u), parent, C, R) /\ ToSet(Append(s, u)) = ToSet(s) \cup {u}
         /\ Append(s, u) # <<>> /\ Append(s, u)[Len(Append(s, u))] = u
  <1>. DEFINE t == Append(s, u)
              m == Len(s)
  <1>1. /\ s \in Seq(C) /\ m \in Nat /\ DOMAIN s = 1..m
        /\ t \in Seq(C) /\ Len(t) = m + 1 /\ DOMAIN t = 1..(m + 1)
        /\ t[m + 1] = u /\ \A i \in 1..m : t[i] = s[i]
    BY DEF IsChain
  <1>2. /\ \A i \in 1..m : s[i] # u
        /\ \A i, j \in 1..m : s[i] = s[j] => i = j
        /\ \A i \in 1..m : i + 1 \in 1..m => parent[s[i + 1]] = s[i] /\ <<s[i], s[i + 1]>> \in R
    BY <1>1 DEF IsChain, ToSet
  <1>3. s # <<>> <=> m # 0
    BY <1>1
  <1>. HIDE DEF t, m
  <1>4. \A i \in 1..(m + 1) : i \in 1..m \/ i = m + 1
    BY <1>1
  <1>5. ASSUME NEW i \in DOMAIN t, NEW j \in DOMAIN t, t[i] = t[j] PROVE i = j
    BY <1>1, <1>2, <1>4, <1>5
  <1>6. ASSUME NEW i \in DOMAIN t, i + 1 \in DOMAIN t
        PROVE  parent[t[i + 1]] = t[i] /\ <<t[i], t[i + 1]>> \in R
    <2>1. CASE i = m
      <3>1. m # 0 /\ t[i] = s[m] /\ t[i + 1] = u
        BY <1>1, <1>6, <2>1
      <3>. QED BY <1>3, <3>1 DEF m
    <2>2. CASE i # m
      <3>1. i \in 1..m /\ i + 1 \in 1..m
        BY <1>1, <1>6, <2>2
      <3>. QED BY <1>1, <1>2, <3>1
    <2>. QED BY <2>1, <2>2
  <1>7. ToSet(t) = ToSet(s) \cup {u}
    <2>1. m + 1 \in 1..(m + 1) /\ 1..m \subseteq 1..(m + 1)
      BY <1>1
    <2>2. \A x \in ToSet(t) : x \in ToSet(s) \/ x = u
      BY <1>1, <1>4 DEF ToSet
    <2>3. u \in ToSet(t) /\ \A x \in ToSet(s) : x \in ToSet(t)
      BY <1>1, <2>1 DEF ToSet
    <2>. QED BY <2>2, <2>3
  <1>8. IsChain(t, parent, C, R)
    BY <1>1, <1>5, <1>6 DEF IsChain
  <1>9. t # <<>> /\ t[Len(t)] = u
    BY <1>1
  <1>. QED BY <1>7, <1>8, <1>9 DEF t

\* The chain without its end.
LEMMA ChainShrinks ==
  ASSUME NEW C, NEW R, NEW parent, NEW s \in Seq(C), NEW u \in C,
         IsChain(Append(s, u), parent, C, R)
  PROVE  IsChain(s, parent, C, R) /\ ToSet(s) = ToSet(Append(s, u)) \ {u}
  <1>. DEFINE t == Append(s, u)
              m == Len(s)
  <1>1. /\ m \in Nat /\ DOMAIN s = 1..m /\ DOMAIN t = 1..(m + 1)
        /\ t[m + 1] = u /\ \A i \in 1..m : t[i] = s[i]
    OBVIOUS
  <1>2. /\ \A i, j \in DOMAIN t : t[i] = t[j] => i = j
        /\ \A i \in DOMAIN t : i + 1 \in DOMAIN t =>
             parent[t[i + 1]] = t[i] /\ <<t[i], t[i + 1]>> \in R
    BY DEF IsChain
  <1>. HIDE DEF t, m
  <1>3. /\ m + 1 \in 1..(m + 1)
        /\ \A i \in 1..m : i \in 1..(m + 1) /\ i # m + 1
        /\ \A i \in 1..(m + 1) : i \in 1..m \/ i = m + 1
    BY <1>1
  <1>4. IsChain(s, parent, C, R)
    BY <1>1, <1>2, <1>3 DEF IsChain
  <1>5. \A x \in ToSet(s) : x \in ToSet(t) /\ x # u
    BY <1>1, <1>2, <1>3 DEF ToSet
  <1>6. \A x \in ToSet(t) : x \in ToSet(s) \/ x = u
    BY <1>1, <1>3 DEF ToSet
  <1>. QED BY <1>4, <1>5, <1>6 DEF t

\* A search of the edges of u comes back to where u was asked for.
LEMMA VisitFollows ==
  ASSUME NEW C, IsFiniteSet(C), NEW E \in SUBSET Edge, IsFiniteSet(E), EndsIn(E, C), NEW kind,
         NEW R, R = OneWay(E, kind), NEW visit \in Searching(C), Honest(visit, C, R),
         NEW u \in C, NEW d \in DfsState(C), NEW s \in Seq(C),
         d.cycle = <<>>, d.color[u] = "white", Follows(d, C, R, s), IsNext(u, d, R, s)
  PROVE  Follows(Visit(E, kind, visit, u, d), C, R, s)
  <1>. DEFINE seq == Out(E, kind, u)
              n == Len(seq)
              start == Entered(d, u)
              t == Append(s, u)
              done == Done(E, kind, visit, u, d)
  <1>1. PICK g : LooksInTurn(g, DfsState(C), start, seq, visit, u) /\ done = g[n]
    BY VisitLooks
  <1>2. /\ g \in [0..n -> DfsState(C)] /\ g[0] = start
        /\ \A i \in 1..n : g[i] = Look(visit, g[i - 1], u, seq[i].to)
    BY <1>1 DEF LooksInTurn
  <1>3. seq \in Seq(OutSet(E, kind, u)) /\ n \in Nat /\ DOMAIN seq = 1..n
    BY OutEdges
  <1>4. \A i \in 1..n : seq[i].to \in C /\ <<u, seq[i].to>> \in R
    <2>1. \A i \in 1..n : seq[i] \in OutSet(E, kind, u)
      BY <1>3
    <2>2. \A e \in OutSet(E, kind, u) : e.to \in C /\ <<u, e.to>> \in R
      BY DEF OutSet, EndsIn, OneWay
    <2>. QED BY <2>1, <2>2
  <1>. HIDE DEF seq, n, done
  <1>5. /\ IsChain(s, d.parent, C, R) /\ ToSet(s) = Coloured(d, C, "gray")
        /\ u \notin ToSet(s)
    BY DEF Follows, Coloured
  <1>6. /\ IsChain(t, d.parent, C, R) /\ ToSet(t) = ToSet(s) \cup {u}
        /\ t # <<>> /\ t[Len(t)] = u /\ t \in Seq(C)
    <2>1. t \in Seq(C)
      OBVIOUS
    <2>. HIDE DEF t
    <2>. QED BY <1>5, <2>1, ChainGrows DEF t, IsNext
  <1>7. /\ start.cycle = <<>> /\ start.parent = d.parent
        /\ Coloured(start, C, "gray") = Coloured(d, C, "gray") \cup {u}
    <2>. DEFINE q == Painted(d, u, "gray")
    <2>1. start = q
      BY DEF Entered, Painted
    <2>2. /\ q.cycle = d.cycle /\ q.parent = d.parent /\ q.color[u] = "gray"
          /\ \A c \in C \ {u} : q.color[c] = d.color[c]
      BY PaintType
    <2>. HIDE DEF q, start
    <2>. QED BY <2>1, <2>2 DEF Coloured
  <1>. HIDE DEF t, start
  <1>. DEFINE P == {i \in 0..n : Follows(g[i], C, R, t)}
  <1>8. 0 \in P
    <2>1. Follows(start, C, R, t)
      BY <1>5, <1>6, <1>7 DEF Follows
    <2>. QED BY <1>2, <1>3, <2>1, Indices
  <1>9. ASSUME NEW i \in 1..n, i - 1 \in P PROVE i \in P
    <2>1. g[i - 1] \in DfsState(C) /\ i \in 0..n
      BY <1>2, <1>3, Indices
    <2>2. Follows(g[i - 1], C, R, t) /\ seq[i].to \in C /\ <<t[Len(t)], seq[i].to>> \in R
      BY <1>4, <1>6, <1>9
    <2>3. Follows(Look(visit, g[i - 1], t[Len(t)], seq[i].to), C, R, t)
      BY <1>6, <2>1, <2>2, LookFollows
    <2>. QED BY <1>2, <1>6, <2>1, <2>3
  <1>10. done \in DfsState(C) /\ Follows(done, C, R, t)
    <2>1. n \in P
      <3>. HIDE DEF P
      <3>. QED BY <1>3, <1>8, <1>9, UpTo, Indices
    <2>. QED BY <1>1, <1>2, <1>3, <2>1, Indices
  <1>11. CASE done.cycle # <<>>
    <2>1. Visit(E, kind, visit, u, d) = done
      BY <1>11, VisitEnds DEF done
    <2>. QED BY <1>10, <1>11, <2>1 DEF Follows
  <1>12. CASE done.cycle = <<>>
    <2>. DEFINE q == Painted(done, u, "black")
    <2>1. Visit(E, kind, visit, u, d) = q
      BY <1>12, VisitEnds DEF done
    <2>2. /\ q.cycle = <<>> /\ q.parent = done.parent /\ q.color[u] = "black"
          /\ \A c \in C \ {u} : q.color[c] = done.color[c]
      BY <1>10, <1>12, PaintType
    <2>. HIDE DEF q
    <2>3. IsChain(t, done.parent, C, R) /\ ToSet(t) = Coloured(done, C, "gray")
      BY <1>10, <1>12 DEF Follows
    <2>4. IsChain(s, done.parent, C, R) /\ ToSet(s) = ToSet(t) \ {u}
      BY <2>3, ChainShrinks DEF t
    <2>5. Coloured(q, C, "gray") = Coloured(done, C, "gray") \ {u}
      BY <2>2 DEF Coloured
    <2>. QED BY <2>1, <2>2, <2>3, <2>4, <2>5 DEF Follows
  <1>. QED BY <1>11, <1>12

\* So does a search of any depth.
LEMMA VisitsAreHonest ==
  ASSUME NEW C, IsFiniteSet(C), NEW E \in SUBSET Edge, IsFiniteSet(E), EndsIn(E, C), NEW kind,
         NEW R, R = OneWay(E, kind), NEW n \in Nat, NEW f, IsVisits(f, n, E, C, kind)
  PROVE  f[n] \in Searching(C) /\ Honest(f[n], C, R)
  <1>1. /\ f \in [0..n -> Searching(C)]
        /\ \A u \in C, d \in DfsState(C) : f[0][<<u, d>>] = d
        /\ \A k \in 1..n : \A u \in C, d \in DfsState(C) :
             f[k][<<u, d>>] = Visit(E, kind, f[k - 1], u, d)
    BY DEF IsVisits
  <1>. DEFINE P == {k \in 0..n : Honest(f[k], C, R)}
  <1>2. 0 \in P
    <2>1. Honest(f[0], C, R)
      BY <1>1 DEF Honest
    <2>. QED BY <2>1, Indices
  <1>3. ASSUME NEW k \in 1..n, k - 1 \in P PROVE k \in P
    <2>. PICK visit : visit = f[k - 1]
      OBVIOUS
    <2>1. visit \in Searching(C) /\ Honest(visit, C, R) /\ k \in 0..n
      BY <1>1, <1>3, Indices
    <2>2. ASSUME NEW u \in C, NEW d \in DfsState(C), NEW s \in Seq(C), d.cycle = <<>>,
                 d.color[u] = "white", Follows(d, C, R, s), IsNext(u, d, R, s)
          PROVE  Follows(f[k][<<u, d>>], C, R, s)
      <3>1. f[k][<<u, d>>] = Visit(E, kind, visit, u, d)
        BY <1>1
      <3>. QED BY <2>1, <2>2, <3>1, VisitFollows
    <2>3. Honest(f[k], C, R)
      BY <2>2 DEF Honest
    <2>. QED BY <2>1, <2>3
  <1>4. n \in P
    <2>. HIDE DEF P
    <2>. QED BY <1>2, <1>3, UpTo, Indices
  <1>. QED BY <1>1, <1>4, Indices

\* A cycle that is answered is one.
LEMMA CycleIsReal ==
  ASSUME NEW C \in SUBSET ConceptIds, IsFiniteSet(C), NEW E \in SUBSET Edge, IsFiniteSet(E),
         EndsIn(E, C), NEW kind, FindCycle(E, C, kind) # <<>>
  PROVE  IsCycle(FindCycle(E, C, kind), OneWay(E, kind))
  <1>. DEFINE N == Cardinality(C)
              R == OneWay(E, kind)
              start == NoneMet(C)
  <1>1. PICK seq, visit, g : IsSearchOf(seq, visit, g, E, C, kind)
    BY FindCycleDives
  <1>2. visit \in Searching(C) /\ Honest(visit, C, R)
    <2>1. N \in Nat
      BY FS_CardinalityType
    <2>2. PICK f : IsVisits(f, N, E, C, kind) /\ visit = f[N]
      BY <1>1, <2>1, VisitsRun DEF IsSearchOf
    <2>. HIDE DEF R, N
    <2>. QED BY <2>1, <2>2, VisitsAreHonest DEF R
  <1>. DEFINE n == Len(seq)
  <1>3. seq \in Seq(C) /\ n \in Nat /\ DOMAIN seq = 1..n /\ FindCycle(E, C, kind) = g[n].cycle
    BY <1>1 DEF IsSearchOf
  <1>4. start \in DfsState(C) /\ start.cycle = <<>> /\ \A c \in C : start.color[c] = "white"
    BY FindCycleDives
  <1>5. /\ g \in [0..n -> DfsState(C)] /\ g[0] = start
        /\ \A k \in 1..n : g[k] = Dive(visit, g[k - 1], seq[k])
    BY <1>1 DEF IsSearchOf, DivesInTurn
  <1>. HIDE DEF start, n, R
  <1>. DEFINE P == {i \in 0..n : Follows(g[i], C, R, <<>>)}
  <1>6. 0 \in P
    <2>1. Coloured(start, C, "gray") = {} /\ ToSet(<<>>) = {} /\ <<>> \in Seq(C) /\ DOMAIN <<>> = {}
      BY <1>4 DEF Coloured, ToSet
    <2>2. Follows(start, C, R, <<>>)
      BY <1>4, <2>1 DEF Follows, IsChain
    <2>. QED BY <1>3, <1>5, <2>2, Indices
  <1>7. ASSUME NEW i \in 1..n, i - 1 \in P PROVE i \in P
    <2>. PICK d : d = g[i - 1]
      OBVIOUS
    <2>. PICK u : u = seq[i]
      OBVIOUS
    <2>1. d \in DfsState(C) /\ u \in C /\ i \in 0..n /\ g[i] = Dive(visit, d, u)
      BY <1>3, <1>5, Indices
    <2>2. Follows(d, C, R, <<>>)
      BY <1>7
    <2>3. CASE d.cycle # <<>> \/ d.color[u] # "white"
      BY <2>1, <2>2, <2>3 DEF Dive
    <2>4. CASE d.cycle = <<>> /\ d.color[u] = "white"
      <3>1. g[i] = visit[<<u, d>>]
        BY <2>1, <2>4 DEF Dive
      <3>2. <<>> \in Seq(C) /\ IsNext(u, d, R, <<>>)
        BY DEF IsNext
      <3>3. Follows(visit[<<u, d>>], C, R, <<>>)
        BY <1>2, <2>1, <2>2, <2>4, <3>2 DEF Honest
      <3>. QED BY <2>1, <3>1, <3>3
    <2>. QED BY <2>3, <2>4
  <1>8. Follows(g[n], C, R, <<>>)
    <2>1. n \in P
      <3>. HIDE DEF P
      <3>. QED BY <1>3, <1>6, <1>7, UpTo, Indices
    <2>. QED BY <2>1
  <1>. QED BY <1>3, <1>8 DEF Follows, R

\* A cycle has no place in what is grounded.
LEMMA GroundedHasNoCycle ==
  ASSUME NEW C, NEW R, IsGrounded(C, R), NEW c \in Seq(C), IsCycle(c, R)
  PROVE  FALSE
  <1>. DEFINE m == Len(c)
              S == {c[i] : i \in 1..(m - 1)}
  <1>1. /\ m \in Nat /\ m >= 2 /\ c[1] = c[m] /\ \A i \in 1..m : c[i] \in C
        /\ \A i \in 1..(m - 1) : <<c[i], c[i + 1]>> \in R
    BY DEF IsCycle
  <1>. HIDE DEF m
  <1>2. S \in SUBSET C /\ S # {}
    <2>1. 1 \in 1..(m - 1) /\ 1..(m - 1) \subseteq 1..m
      BY <1>1
    <2>. QED BY <1>1, <2>1
  <1>3. PICK x \in S : Onward(R, {x}) \cap S = {}
    BY <1>2 DEF IsGrounded
  <1>4. PICK i \in 1..(m - 1) : x = c[i]
    BY <1>3
  <1>5. c[i + 1] \in Onward(R, {x})
    <2>. PICK y : y = c[i + 1]
      OBVIOUS
    <2>1. <<x, y>> \in R
      BY <1>1, <1>4
    <2>2. y \in Onward(R, {x})
      BY <2>1 DEF Onward
    <2>. QED BY <2>2
  <1>6. c[i + 1] \in S
    <2>1. CASE i + 1 = m
      <3>1. c[i + 1] = c[1] /\ 1 \in 1..(m - 1)
        BY <1>1, <2>1
      <3>. QED BY <3>1
    <2>2. CASE i + 1 # m
      <3>1. i + 1 \in 1..(m - 1)
        BY <1>1, <2>2
      <3>. QED BY <3>1
    <2>. QED BY <2>1, <2>2
  <1>. QED BY <1>3, <1>5, <1>6

\* The cycle check answers a cycle exactly if there is one, whatever the
\* concepts and edges, and what it answers is "a cycle path (including repeat of
\* start)" (graph.go:368, findCycle).
THEOREM CycleCheckIsExact ==
  ASSUME NEW C \in SUBSET ConceptIds, IsFiniteSet(C), NEW E \in SUBSET Edge, IsFiniteSet(E),
         EndsIn(E, C), NEW kind
  PROVE  /\ FindCycle(E, C, kind) = <<>> <=> IsGrounded(C, OneWay(E, kind))
         /\ FindCycle(E, C, kind) # <<>> => IsCycle(FindCycle(E, C, kind), OneWay(E, kind))
  <1>1. FindCycle(E, C, kind) = <<>> => IsGrounded(C, OneWay(E, kind))
    BY NoCycleIsFound
  <1>2. FindCycle(E, C, kind) # <<>> => IsCycle(FindCycle(E, C, kind), OneWay(E, kind))
    BY CycleIsReal
  <1>3. FindCycle(E, C, kind) \in Seq(C)
    <2>1. PICK seq, visit, g : IsSearchOf(seq, visit, g, E, C, kind)
      BY FindCycleDives
    <2>2. g[Len(seq)] \in DfsState(C)
      BY <2>1 DEF IsSearchOf, DivesInTurn
    <2>. QED BY <2>1, <2>2 DEF IsSearchOf, DfsState
  <1>4. IsGrounded(C, OneWay(E, kind)) => FindCycle(E, C, kind) = <<>>
    BY <1>2, <1>3, GroundedHasNoCycle
  <1>. QED BY <1>1, <1>2, <1>4

\* LoadFile takes a file exactly if its edges join two of its concepts, none is
\* there twice, and no kind that is checked leads round in a circle
\* (load.go:58, LoadFile).
THEOREM LoadsExactly ==
  ASSUME NEW C \in SUBSET ConceptIds, IsFiniteSet(C), NEW E \in SUBSET Edge, IsFiniteSet(E)
  PROVE  Loads(E, C) <=>
           /\ EndsIn(E, C)
           /\ \A e, f \in E : e.from # e.to /\ (SameEdge(e, f) => e = f)
           /\ \A kind \in ToSet(CycleCheckedKinds) : IsGrounded(C, OneWay(E, kind))
  <1>1. EndsIn(E, C) => \A kind : FindCycle(E, C, kind) = <<>> <=> IsGrounded(C, OneWay(E, kind))
    BY CycleCheckIsExact
  <1>. DEFINE Checked(kind) == FindCycle(E, C, kind) = <<>>
  <1>2. (\A k \in DOMAIN CycleCheckedKinds : Checked(CycleCheckedKinds[k]))
          <=> \A kind \in ToSet(CycleCheckedKinds) : Checked(kind)
    <2>. HIDE DEF Checked
    <2>. QED BY DEF ToSet
  <1>. QED BY <1>1, <1>2 DEF Loads, EndsIn

-----------------------------------------------------------------------------
(* Within, in a finite set.                                                 *)

\* What is reached at all is reached within as many steps as there are concepts.
LEMMA ReachSaturates ==
  ASSUME NEW C, IsFiniteSet(C), NEW R, IsRelation(R, C), NEW id \in C
  PROVE  /\ Onward(R, Within(R, id, Cardinality(C))) \subseteq Within(R, id, Cardinality(C))
         /\ Onward(R, {id}) \subseteq Within(R, id, Cardinality(C))
         /\ Within(R, id, Cardinality(C)) \subseteq C
         /\ Within(R, id, 1) = Onward(R, {id})
  <1>. DEFINE N == Cardinality(C)
              W(k) == Within(R, id, k)
              Closed(k) == Onward(R, W(k)) \subseteq W(k)
  <1>1. N \in Nat /\ N # 0
    <2>1. N \in Nat
      BY FS_CardinalityType
    <2>. QED BY <2>1, FS_EmptySet
  <1>. HIDE DEF N
  <1>2. \A k \in Nat : /\ W(k + 1) = W(k) \cup After(R, id, k + 1)
                       /\ Onward(R, W(k)) \subseteq W(k + 1) /\ W(k) \in SUBSET C
                       /\ After(R, id, k + 1) = Onward(R, After(R, id, k))
    BY WithinSpreads, AfterSteps
  <1>3. After(R, id, 0) = {id}
    BY AfterSteps
  <1>4. W(0) = {} /\ W(1) = Onward(R, {id})
    <2>1. 1..0 = {} /\ 0 + 1 = 1 /\ 0 \in Nat
      OBVIOUS
    <2>2. W(0) = {}
      BY <2>1 DEF Within
    <2>. HIDE DEF W
    <2>3. /\ W(0 + 1) = W(0) \cup After(R, id, 0 + 1)
          /\ After(R, id, 0 + 1) = Onward(R, After(R, id, 0))
      BY <1>2, <2>1
    <2>. QED BY <1>3, <2>1, <2>2, <2>3
  <1>5. \A k \in Nat : IsFiniteSet(W(k)) /\ Cardinality(W(k)) \in Nat
    <2>. HIDE DEF W
    <2>1. \A k \in Nat : IsFiniteSet(W(k))
      BY <1>2, FS_Subset
    <2>. QED BY <2>1, FS_CardinalityType
  <1>6. \A k \in Nat \ {0} : After(R, id, k) \subseteq W(k)
    <2>1. \A k \in Nat \ {0} : k \in 1..k
      OBVIOUS
    <2>. QED BY <2>1 DEF Within
  <1>. HIDE DEF W
  <1>. DEFINE Enough(k) == (Closed(k) \/ Cardinality(W(k)) >= k) /\ Onward(R, {id}) \subseteq W(k)
              P == {k \in 0..(N - 1) : Enough(k + 1)}
  <1>7. 0 \in P
    <2>1. W(1) = {} => Closed(1)
      BY DEF Onward
    <2>2. W(1) # {} => Cardinality(W(1)) >= 1
      BY <1>5, FS_EmptySet
    <2>. HIDE DEF Closed
    <2>. QED BY <1>1, <1>4, <2>1, <2>2
  <1>8. ASSUME NEW k \in 1..(N - 1), k - 1 \in P PROVE k \in P
    <2>1. k \in Nat \ {0} /\ (k - 1) + 1 = k /\ k \in 0..(N - 1)
      BY <1>1
    <2>2. Enough(k)
      <3>. HIDE DEF Enough
      <3>. QED BY <1>8, <2>1
    <2>3. CASE Closed(k)
      <3>1. After(R, id, k + 1) \subseteq W(k)
        <4>1. Onward(R, After(R, id, k)) \subseteq Onward(R, W(k))
          BY <1>6, <2>1 DEF Onward
        <4>. QED BY <1>2, <2>1, <2>3, <4>1
      <3>2. W(k + 1) = W(k)
        BY <1>2, <2>1, <3>1
      <3>. QED BY <2>1, <2>2, <2>3, <3>2
    <2>4. CASE ~ Closed(k)
      <3>1. W(k) \in SUBSET W(k + 1) /\ W(k) # W(k + 1) /\ Cardinality(W(k)) >= k
        BY <1>2, <2>1, <2>2, <2>4
      <3>2. /\ IsFiniteSet(W(k + 1)) /\ Cardinality(W(k + 1)) \in Nat
            /\ Cardinality(W(k)) \in Nat
        BY <1>5, <2>1
      <3>3. Cardinality(W(k)) <= Cardinality(W(k + 1)) /\ Cardinality(W(k)) # Cardinality(W(k + 1))
        BY <3>1, <3>2, FS_Subset
      <3>4. Cardinality(W(k + 1)) >= k + 1
        BY <2>1, <3>1, <3>2, <3>3
      <3>. HIDE DEF Closed
      <3>. QED BY <2>1, <2>2, <3>1, <3>4
    <2>. QED BY <2>3, <2>4
  <1>9. Enough(N)
    <2>1. N - 1 \in Nat /\ (N - 1) + 1 = N
      BY <1>1
    <2>2. N - 1 \in P
      <3>. HIDE DEF P
      <3>. QED BY <1>7, <1>8, <2>1, UpTo, Indices
    <2>. HIDE DEF Enough
    <2>. QED BY <2>1, <2>2
  <1>10. Closed(N)
    <2>1. CASE Cardinality(W(N)) >= N
      <3>1. W(N) \in SUBSET C /\ Cardinality(W(N)) \in Nat
        BY <1>1, <1>2, <1>5
      <3>2. W(N) = C
        <4>1. /\ Cardinality(W(N)) <= Cardinality(C)
              /\ Cardinality(W(N)) = Cardinality(C) => W(N) = C
          BY <3>1, FS_Subset
        <4>. QED BY <1>1, <2>1, <3>1, <4>1 DEF N
      <3>. QED BY <3>2 DEF IsRelation, Onward
    <2>. QED BY <1>9, <2>1
  <1>. QED BY <1>1, <1>2, <1>4, <1>9, <1>10 DEF W, N

-----------------------------------------------------------------------------
(* The inductive invariant.                                                 *)

\* What lies before the concepts of S.
RequiredBy(S) == UNION {Requires(c) : c \in S \cap Concepts}

\* q has the fields of an orientation.
IsOrientation(q) ==
    q = [phase |-> q.phase, student |-> q.student, node |-> q.node, focuses |-> q.focuses,
         rels |-> q.rels, gaps |-> q.gaps, before |-> q.before]

\* An orientation under way, or told: what it has gathered and has yet to look
\* at was missing at the start, or is met by now, and covers what is missing.
Gathered(q) ==
    /\ IsOrientation(q)
    /\ q.student \in Students /\ q.node \in Nodes
    /\ q.gaps \subseteq q.before
    /\ (q.rels \cup RequiredBy(q.focuses)) \ visits[q.student] \subseteq q.before
    /\ Gaps(q.student, q.node) \subseteq q.gaps \cup q.rels \cup RequiredBy(q.focuses)

\* A route told: what Path finds in the graph, which is loaded once.
IsRoute(q) ==
    q.from \in Concepts /\ q.to \in Concepts /\ q.from # q.to /\ q.path = Route(q.from, q.to)

\* What is known of a request in each phase.
AskIsGathered(a) ==
    /\ ask[a].phase = "route" => IsRoute(ask[a])
    /\ ask[a].phase \in {"asking", "told"} => Gathered(ask[a])
    /\ ask[a].phase = "told" => ask[a].rels = {} /\ ask[a].focuses = {}

\* The graph changes only before the first request.
NothingAskedYet == stage = "starting" => \A a \in Askers : ask[a] = Idle

\* A node in the registry passed Put.
RegisteredIsValid == \A n \in registered : MayBePut(file.seed[n], file.a11y)

\* The graph is one that LoadFile accepted, or none.
GraphIsLoaded == IsFiniteSet(graph) /\ (graph = {} \/ Loads(graph, Concepts))

\* The inductive invariant.
IInv ==
    /\ TypeOK
    /\ NothingAskedYet
    /\ RegisteredIsValid
    /\ GraphIsLoaded
    /\ ask = [a \in Askers |-> ask[a]]
    /\ \A a \in Askers : AskIsGathered(a)

-----------------------------------------------------------------------------
(* What the operators give.                                                 *)

\* Clamp keeps a number in the range of a profile.
LEMMA ClampType ==
  ASSUME NEW x \in Int
  PROVE  Clamp(x) \in 0..VeMax
  BY TutorConstants DEF Clamp

\* ApplyDelta gives a profile.
LEMMA AppliedType ==
  ASSUME NEW ve \in [1..VeDims -> 0..VeMax], NEW delta \in Seq(Int)
  PROVE  Applied(ve, delta) \in [1..VeDims -> 0..VeMax]
  <1>1. CASE Len(delta) = VeDims
    <2>1. \A i \in 1..VeDims : ve[i] + delta[i] \in Int
      BY <1>1, TutorConstants
    <2>2. \A i \in 1..VeDims : Clamp(ve[i] + delta[i]) \in 0..VeMax
      BY <2>1, ClampType
    <2>. QED BY <1>1, <2>2 DEF Applied
  <1>2. CASE Len(delta) # VeDims
    BY <1>2 DEF Applied
  <1>. QED BY <1>1, <1>2

\* What a touch teaches is a sequence of numbers.
LEMMA BotoneraDeltaType ==
  ASSUME NEW n \in Interactive, NEW v, NEW client \in ClientDeltas, TypeOK
  PROVE  BotoneraDelta(file.seed[n], v, client) \in Seq(Int)
  <1>. DEFINE options == file.seed[n].schema.options
              first == {i \in DOMAIN options : /\ options[i].id = v
                                               /\ \A j \in 1..(i - 1) : options[j].id # v}
              i0 == CHOOSE i \in first : TRUE
  <1>1. \A o \in ToSet(options) : o.delta \in Seq(Int)
    BY TutorCases DEF TypeOK
  <1>2. first # {} => i0 \in DOMAIN options
    OBVIOUS
  <1>3. first # {} => options[i0].delta \in Seq(Int)
    BY <1>1, <1>2 DEF ToSet
  <1>4. client \in Seq(Int) /\ <<>> \in Seq(Int)
    BY TutorConstants
  <1>. QED BY <1>3, <1>4 DEF BotoneraDelta

\* So is what a subtopic teaches.
LEMMA SubtopicDeltaType ==
  ASSUME NEW id \in Subtopics, NEW client \in ClientDeltas
  PROVE  SubtopicDelta(id, client) \in Seq(Int)
  BY TutorConstants DEF SubtopicDelta

\* A profile that learns stays a profile.
LEMMA LearnsType ==
  ASSUME TypeOK, NEW s \in Students, NEW delta \in Seq(Int), Learns(s, delta)
  PROVE  profile' \in [Students -> [1..VeDims -> 0..VeMax]]
  BY AppliedType DEF TypeOK, Learns

\* Visits are only added.
LEMMA VisitsGrow ==
  ASSUME TypeOK, NEW s \in Students, NEW n \in Nodes, Visited(s, Refs[n])
  PROVE  /\ visits' \in [Students -> SUBSET ConceptIds]
         /\ \A t \in Students : visits[t] \subseteq visits'[t]
  BY TutorConstants DEF TypeOK, Visited

\* The graph says the same of a concept for as long as it is the same.
LEMMA RequiresKept ==
  ASSUME graph' = graph, NEW c
  PROVE  Requires(c)' = Requires(c)
  BY DEF Requires

\* What lies before S is the same while the graph is.
LEMMA RequiredByKept ==
  ASSUME graph' = graph, NEW S
  PROVE  RequiredBy(S)' = RequiredBy(S)
  BY RequiresKept DEF RequiredBy

\* What an orientation has gathered stands while visits are recorded.
LEMMA GatheredKept ==
  ASSUME NEW q, Gathered(q), graph' = graph, \A t \in Students : visits[t] \subseteq visits'[t]
  PROVE  Gathered(q)'
  <1>1. RequiredBy(q.focuses)' = RequiredBy(q.focuses)
    BY RequiredByKept
  <1>2. Gaps(q.student, q.node)' \subseteq Gaps(q.student, q.node)
    BY RequiresKept DEF Gaps, Gathered
  <1>. QED BY <1>1, <1>2 DEF Gathered

\* A route told stays what Path finds while the graph is the same.
LEMMA RouteKept ==
  ASSUME NEW q, IsRoute(q), graph' = graph
  PROVE  IsRoute(q)'
  BY DEF IsRoute, Route

-----------------------------------------------------------------------------
(* The steps.                                                               *)

\* Initially.
LEMMA InitIInv == Init => IInv
  <1>. SUFFICES ASSUME Init PROVE IInv OBVIOUS
  <1>1. TypeOK
    BY TutorConstants DEF Init, TypeOK, Idle
  <1>2. NothingAskedYet /\ RegisteredIsValid /\ ask = [a \in Askers |-> ask[a]]
    BY DEF Init, NothingAskedYet, RegisteredIsValid
  <1>4. GraphIsLoaded
    BY FS_EmptySet DEF Init, GraphIsLoaded
  <1>3. \A a \in Askers : AskIsGathered(a)
    BY DEF Init, AskIsGathered, Idle
  <1>. QED BY <1>1, <1>2, <1>3, <1>4 DEF IInv

\* Loading: nothing has been asked yet.
LEMMA LoadsNodesKeeps == IInv /\ LoadsNodes => IInv'
  <1>. SUFFICES ASSUME IInv, LoadsNodes PROVE IInv' OBVIOUS
  <1>1. /\ registered' \subseteq {n \in Interactive : MayBePut(file.seed[n], file.a11y)}
        /\ indexed' \subseteq indexed \cup Interactive
    BY DEF LoadsNodes
  <1>2. UNCHANGED <<file, graph, stage, visits, opened, profile, ask>>
    BY DEF LoadsNodes, stores
  <1>3. TypeOK'
    BY <1>1, <1>2, TutorConstants DEF IInv, TypeOK
  <1>4. NothingAskedYet' /\ RegisteredIsValid'
    BY <1>1, <1>2 DEF IInv, NothingAskedYet, RegisteredIsValid
  <1>5. ASSUME NEW a \in Askers PROVE AskIsGathered(a)'
    <2>1. ask[a] = Idle
      BY DEF IInv, NothingAskedYet, LoadsNodes
    <2>. QED BY <1>2, <2>1 DEF AskIsGathered, Idle
  <1>6. GraphIsLoaded'
    BY <1>2 DEF IInv, GraphIsLoaded
  <1>. QED BY <1>2, <1>3, <1>4, <1>5, <1>6 DEF IInv

\* The graph is loaded before anything is asked, and accepted or left empty.
LEMMA LoadsGraphKeeps == IInv /\ LoadsGraph => IInv'
  <1>. SUFFICES ASSUME IInv, LoadsGraph PROVE IInv' OBVIOUS
  <1>1. /\ graph' \in {file.edges, {}} /\ stage' \in {"serving", "stopped"}
        /\ UNCHANGED <<file, registered, indexed, visits, opened, profile, ask>>
    BY DEF LoadsGraph, stores
  <1>2. graph' \subseteq Edge
    BY <1>1, TutorCases DEF IInv, TypeOK
  <1>3. TypeOK'
    BY <1>1, <1>2 DEF IInv, TypeOK
  <1>4. NothingAskedYet' /\ RegisteredIsValid'
    BY <1>1 DEF IInv, NothingAskedYet, RegisteredIsValid
  <1>5. ASSUME NEW a \in Askers PROVE AskIsGathered(a)'
    <2>1. ask[a] = Idle
      BY DEF IInv, NothingAskedYet, LoadsGraph
    <2>. QED BY <1>1, <2>1 DEF AskIsGathered, Idle
  <1>6. GraphIsLoaded'
    <2>1. graph' = {} \/ (graph' = file.edges /\ Loads(file.edges, Concepts))
      BY DEF LoadsGraph
    <2>2. IsFiniteSet(file.edges) /\ IsFiniteSet({})
      BY FS_EmptySet, TutorCases DEF IInv, TypeOK
    <2>. QED BY <2>1, <2>2 DEF GraphIsLoaded
  <1>. QED BY <1>1, <1>3, <1>4, <1>5, <1>6 DEF IInv

\* What the requests under way rely on, when a handler records something.
LEMMA RecordingKeeps ==
  ASSUME IInv, TypeOK', UNCHANGED <<loaded, ask>>,
         \A t \in Students : visits[t] \subseteq visits'[t]
  PROVE  IInv'
  <1>1. UNCHANGED <<file, graph, stage, registered, indexed, ask>>
    BY DEF loaded
  <1>2. NothingAskedYet' /\ RegisteredIsValid'
    BY <1>1 DEF IInv, NothingAskedYet, RegisteredIsValid
  <1>3. ASSUME NEW a \in Askers PROVE AskIsGathered(a)'
    <2>. PICK q : q = ask[a] OBVIOUS
    <2>1. ask'[a] = q
      BY <1>1
    <2>2. /\ Gathered(q) => Gathered(q)'
          /\ IsRoute(q) => IsRoute(q)'
      BY <1>1, GatheredKept, RouteKept
    <2>. QED BY <1>1, <2>1, <2>2 DEF IInv, AskIsGathered
  <1>4. GraphIsLoaded'
    BY <1>1 DEF IInv, GraphIsLoaded
  <1>. QED BY <1>1, <1>2, <1>3, <1>4 DEF IInv

\* A query that finds a node records its concepts.
LEMMA QueryMatchesKeeps ==
  ASSUME IInv, NEW s \in Students, NEW n \in Nodes, QueryMatches(s, n)
  PROVE  IInv'
  <1>1. /\ visits' \in [Students -> SUBSET ConceptIds]
        /\ \A t \in Students : visits[t] \subseteq visits'[t]
    BY VisitsGrow DEF IInv, QueryMatches
  <1>2. UNCHANGED <<loaded, opened, profile, ask>>
    BY DEF QueryMatches
  <1>3. TypeOK'
    BY <1>1, <1>2 DEF IInv, TypeOK, loaded
  <1>. QED BY <1>1, <1>2, <1>3, RecordingKeeps

\* A button that is touched teaches, and records the node's concepts.
LEMMA RecordBotoneraKeeps ==
  ASSUME IInv, NEW s \in Students, NEW n \in Nodes, NEW v, NEW f, NEW client \in ClientDeltas,
         RecordBotonera(s, n, v, f, client)
  PROVE  IInv'
  <1>1. /\ visits' \in [Students -> SUBSET ConceptIds]
        /\ \A t \in Students : visits[t] \subseteq visits'[t]
    BY VisitsGrow DEF IInv, RecordBotonera
  <1>2. BotoneraDelta(file.seed[n], v, client) \in Seq(Int)
    BY BotoneraDeltaType DEF IInv, TypeOK, RecordBotonera
  <1>3. profile' \in [Students -> [1..VeDims -> 0..VeMax]]
    BY <1>2, LearnsType DEF IInv, RecordBotonera
  <1>4. UNCHANGED <<loaded, opened, ask>>
    BY DEF RecordBotonera
  <1>5. TypeOK'
    BY <1>1, <1>3, <1>4 DEF IInv, TypeOK, loaded
  <1>. QED BY <1>1, <1>4, <1>5, RecordingKeeps

\* A subtopic that is opened teaches, and records the node's concepts.
LEMMA RecordSubtopicKeeps ==
  ASSUME IInv, NEW s \in Students, NEW n \in Nodes, NEW id \in Subtopics,
         NEW client \in ClientDeltas, RecordSubtopic(s, n, id, client)
  PROVE  IInv'
  <1>1. /\ visits' \in [Students -> SUBSET ConceptIds]
        /\ \A t \in Students : visits[t] \subseteq visits'[t]
    BY VisitsGrow DEF IInv, RecordSubtopic
  <1>2. profile' \in [Students -> [1..VeDims -> 0..VeMax]]
    BY SubtopicDeltaType, LearnsType DEF IInv, RecordSubtopic
  <1>3. opened' \in [Students \X Nodes -> SUBSET Subtopics]
    BY DEF IInv, TypeOK, RecordSubtopic, Opened
  <1>4. UNCHANGED <<loaded, ask>>
    BY DEF RecordSubtopic
  <1>5. TypeOK'
    BY <1>1, <1>2, <1>3, <1>4 DEF IInv, TypeOK, loaded
  <1>. QED BY <1>1, <1>4, <1>5, RecordingKeeps

\* A request moves: the others stay as they are, and so does what they read.
LEMMA AskKeeps ==
  ASSUME IInv, NEW a \in Askers, NEW q, stage = "serving" \/ ask[a] # Idle,
         ask' = [ask EXCEPT ![a] = q], UNCHANGED <<loaded, stores>>,
         q.phase \in {"idle", "asking", "told", "route"},
         q.phase \in {"asking", "told"} => Gathered(q),
         q.phase = "told" => q.rels = {} /\ q.focuses = {},
         q.phase = "route" => IsRoute(q)
  PROVE  IInv'
  <1>1. UNCHANGED <<file, graph, stage, registered, indexed, visits, opened, profile>>
    BY DEF loaded, stores
  <1>2. /\ ask' = [b \in Askers |-> ask'[b]] /\ ask'[a] = q
        /\ \A b \in Askers \ {a} : ask'[b] = ask[b]
    BY DEF IInv
  <1>3. TypeOK'
    BY <1>1, <1>2 DEF IInv, TypeOK
  <1>4. NothingAskedYet' /\ RegisteredIsValid'
    BY <1>1 DEF IInv, NothingAskedYet, RegisteredIsValid
  <1>5. ASSUME NEW b \in Askers PROVE AskIsGathered(b)'
    <2>. PICK r : r = ask'[b] OBVIOUS
    <2>1. r.phase \in {"asking", "told"} => Gathered(r)
      BY <1>2 DEF IInv, AskIsGathered
    <2>2. r.phase = "told" => r.rels = {} /\ r.focuses = {}
      BY <1>2 DEF IInv, AskIsGathered
    <2>3. r.phase = "route" => IsRoute(r)
      BY <1>2 DEF IInv, AskIsGathered
    <2>4. /\ Gathered(r) => Gathered(r)'
          /\ IsRoute(r) => IsRoute(r)'
      BY <1>1, GatheredKept, RouteKept
    <2>. QED BY <2>1, <2>2, <2>3, <2>4 DEF AskIsGathered
  <1>6. GraphIsLoaded'
    BY <1>1 DEF IInv, GraphIsLoaded
  <1>. QED BY <1>2, <1>3, <1>4, <1>5, <1>6 DEF IInv

\* An orientation starts from what is missing at that moment.
LEMMA OrientationBeginsKeeps ==
  ASSUME IInv, NEW a \in Askers, NEW s \in Students, NEW n \in Nodes, OrientationBegins(a, s, n)
  PROVE  IInv'
  <1>. DEFINE now == Gaps(s, n)
  <1>. PICK q : q = [phase |-> "asking", student |-> s, node |-> n, focuses |-> Refs[n],
                     rels |-> {}, gaps |-> {}, before |-> now]
    OBVIOUS
  <1>1. /\ q.phase = "asking" /\ q.student = s /\ q.node = n /\ q.focuses = Refs[n]
        /\ q.rels = {} /\ q.gaps = {} /\ q.before = Gaps(s, n)
    OBVIOUS
  <1>2. Gaps(s, n) = RequiredBy(Refs[n]) \ visits[s]
    BY DEF Gaps, RequiredBy
  <1>3. Gathered(q)
    BY <1>1, <1>2 DEF Gathered, IsOrientation
  <1>4. ask' = [ask EXCEPT ![a] = q] /\ UNCHANGED <<loaded, stores>> /\ stage = "serving"
    BY DEF OrientationBegins
  <1>. QED BY <1>1, <1>3, <1>4, AskKeeps

\* The next concept: what lies before it is looked at next.
LEMMA AdviseFocusesKeeps ==
  ASSUME IInv, NEW a \in Askers, AdviseFocuses(a)
  PROVE  IInv'
  <1>. PICK p : p = ask[a] OBVIOUS
  <1>1. p.phase = "asking" /\ p.rels = {} /\ Gathered(p) /\ ask[a] # Idle
    BY DEF IInv, AskIsGathered, AdviseFocuses, Idle
  <1>2. PICK c \in p.focuses :
          ask' = [ask EXCEPT ![a].focuses = @ \ {c},
                             ![a].rels = IF c \in Concepts THEN Focused(p.student, c) ELSE {}]
    BY DEF AdviseFocuses
  <1>3. PICK R : R = IF c \in Concepts THEN Requires(c) ELSE {}
    OBVIOUS
  <1>. PICK q : q = [p EXCEPT !.focuses = @ \ {c}, !.rels = R]
    OBVIOUS
  <1>4. ask' = [ask EXCEPT ![a] = q]
    BY <1>2, <1>3 DEF Focused, IInv
  <1>5. RequiredBy(p.focuses) = R \cup RequiredBy(p.focuses \ {c})
    BY <1>2, <1>3 DEF RequiredBy
  <1>6. /\ q.phase = "asking" /\ q.student = p.student /\ q.node = p.node
        /\ q.focuses = p.focuses \ {c} /\ q.rels = R /\ q.gaps = p.gaps /\ q.before = p.before
        /\ IsOrientation(q)
    BY <1>1 DEF Gathered, IsOrientation
  <1>7. Gathered(q)
    BY <1>1, <1>5, <1>6 DEF Gathered
  <1>. QED BY <1>1, <1>4, <1>6, <1>7, AskKeeps DEF AdviseFocuses

\* One prerequisite is looked up: what is missing by now was missing then.
LEMMA AdviseChecksKeeps ==
  ASSUME IInv, NEW a \in Askers, AdviseChecks(a)
  PROVE  IInv'
  <1>. PICK p : p = ask[a] OBVIOUS
  <1>1. p.phase = "asking" /\ Gathered(p) /\ ask[a] # Idle
    BY DEF IInv, AskIsGathered, AdviseChecks, Idle
  <1>2. PICK c \in p.rels :
          ask' = [ask EXCEPT ![a].rels = @ \ {c},
                             ![a].gaps = IF c \in visits[p.student] THEN @ ELSE @ \cup {c}]
    BY DEF AdviseChecks, HasVisited
  <1>3. PICK G : G = IF c \in visits[p.student] THEN p.gaps ELSE p.gaps \cup {c}
    OBVIOUS
  <1>. PICK q : q = [p EXCEPT !.rels = @ \ {c}, !.gaps = G]
    OBVIOUS
  <1>4. ask' = [ask EXCEPT ![a] = q]
    BY <1>1, <1>2, <1>3 DEF IInv, Gathered, IsOrientation
  <1>5. /\ q.phase = "asking" /\ q.student = p.student /\ q.node = p.node
        /\ q.focuses = p.focuses /\ q.rels = p.rels \ {c} /\ q.gaps = G /\ q.before = p.before
        /\ IsOrientation(q)
    BY <1>1 DEF Gathered, IsOrientation
  <1>6. G \subseteq p.before
    BY <1>1, <1>2, <1>3 DEF Gathered
  <1>7. Gaps(p.student, p.node) \cap visits[p.student] = {}
    BY DEF Gaps
  <1>8. Gathered(q)
    BY <1>1, <1>2, <1>3, <1>5, <1>6, <1>7 DEF Gathered
  <1>. QED BY <1>1, <1>4, <1>5, <1>8, AskKeeps DEF AdviseChecks

\* An orientation is told when nothing is left to look at.
LEMMA OrientationIsToldKeeps ==
  ASSUME IInv, NEW a \in Askers, OrientationIsTold(a)
  PROVE  IInv'
  <1>. PICK p : p = ask[a] OBVIOUS
  <1>1. /\ p.phase = "asking" /\ p.focuses = {} /\ p.rels = {}
        /\ Gathered(p) /\ ask[a] # Idle
    BY DEF IInv, AskIsGathered, OrientationIsTold, Idle
  <1>. PICK q : q = [p EXCEPT !.phase = "told"]
    OBVIOUS
  <1>2. ask' = [ask EXCEPT ![a] = q]
    BY DEF OrientationIsTold
  <1>3. /\ q.phase = "told" /\ q.student = p.student /\ q.node = p.node
        /\ q.focuses = {} /\ q.rels = {} /\ q.gaps = p.gaps /\ q.before = p.before
        /\ IsOrientation(q)
    BY <1>1 DEF Gathered, IsOrientation
  <1>4. Gathered(q)
    BY <1>1, <1>3 DEF Gathered
  <1>. QED BY <1>1, <1>2, <1>3, <1>4, AskKeeps DEF OrientationIsTold

\* The request ends, or is one for a route.
LEMMA OtherAsksKeep ==
  ASSUME IInv, NEW a \in Askers,
         \/ AdviseIsCancelled(a) \/ Forgets(a)
         \/ \E from, to \in Concepts : RouteIsAsked(a, from, to)
  PROVE  IInv'
  <1>1. ASSUME AdviseIsCancelled(a) \/ Forgets(a) PROVE IInv'
    <2>1. /\ ask' = [ask EXCEPT ![a] = Idle] /\ UNCHANGED <<loaded, stores>>
          /\ ask[a] # Idle /\ Idle.phase = "idle"
      BY <1>1 DEF AdviseIsCancelled, Forgets, Idle
    <2>. QED BY <2>1, AskKeeps
  <1>2. ASSUME NEW from \in Concepts, NEW to \in Concepts, RouteIsAsked(a, from, to)
        PROVE  IInv'
    <2>1. PICK path : path = Route(from, to)
      OBVIOUS
    <2>. PICK q : q = [phase |-> "route", from |-> from, to |-> to, path |-> path]
      OBVIOUS
    <2>2. ask' = [ask EXCEPT ![a] = q] /\ UNCHANGED <<loaded, stores>>
      BY <1>2, <2>1 DEF RouteIsAsked
    <2>3. /\ q.phase = "route" /\ q.from = from /\ q.to = to /\ q.path = path
          /\ stage = "serving" /\ from # to
      BY <1>2 DEF RouteIsAsked
    <2>4. IsRoute(q)
      BY <2>1, <2>3 DEF IsRoute
    <2>. QED BY <2>2, <2>3, <2>4, AskKeeps
  <1>. QED BY <1>1, <1>2

\* Every step keeps the invariant.
LEMMA StepIInv == IInv /\ [Next]_vars => IInv'
  <1>. SUFFICES ASSUME IInv, [Next]_vars PROVE IInv' OBVIOUS
  <1>1. CASE LoadsNodes
    BY <1>1, LoadsNodesKeeps
  <1>2. CASE LoadsGraph
    BY <1>2, LoadsGraphKeeps
  <1>3. ASSUME NEW s \in Students, NEW n \in Nodes, QueryMatches(s, n)
        PROVE  IInv'
    BY <1>3, QueryMatchesKeeps
  <1>4. ASSUME NEW s \in Students, NEW n \in Nodes, NEW v \in Variants,
               NEW f \in Formats \cup {""}, NEW client \in ClientDeltas,
               RecordBotonera(s, n, v, f, client)
        PROVE  IInv'
    BY <1>4, RecordBotoneraKeeps
  <1>5. ASSUME NEW s \in Students, NEW n \in Nodes, NEW id \in Subtopics,
               NEW client \in ClientDeltas, RecordSubtopic(s, n, id, client)
        PROVE  IInv'
    BY <1>5, RecordSubtopicKeeps
  <1>6. ASSUME NEW s \in Students, NEW n \in Nodes, NEW a \in Askers, OrientationBegins(a, s, n)
        PROVE  IInv'
    BY <1>6, OrientationBeginsKeeps
  <1>7. ASSUME NEW a \in Askers,
               \/ AdviseFocuses(a) \/ AdviseChecks(a) \/ OrientationIsTold(a)
               \/ AdviseIsCancelled(a) \/ Forgets(a)
               \/ \E from, to \in Concepts : RouteIsAsked(a, from, to)
        PROVE  IInv'
    BY <1>7, AdviseFocusesKeeps, AdviseChecksKeeps, OrientationIsToldKeeps, OtherAsksKeep
  <1>8. CASE UNCHANGED vars
    <2>1. UNCHANGED <<loaded, ask>> /\ UNCHANGED <<visits, opened, profile>>
      BY <1>8 DEF vars, stores
    <2>2. TypeOK'
      BY <2>1 DEF IInv, TypeOK, loaded
    <2>. QED BY <2>1, <2>2, RecordingKeeps
  <1>. QED BY <1>1, <1>2, <1>3, <1>4, <1>5, <1>6, <1>7, <1>8 DEF Next

\* The invariant holds of every state reached.
LEMMA Invariant == Spec => []IInv
  BY InitIInv, StepIInv, PTL DEF Spec

-----------------------------------------------------------------------------
(* What follows.                                                            *)

\* Every store keeps its type: a profile stays within its range whatever
\* deltas a client sends (server.go, preference/profile.go Apply).
THEOREM TypeCorrect == Spec => []TypeOK
  <1>1. IInv => TypeOK
    BY DEF IInv
  <1>. QED BY <1>1, Invariant, PTL

\* An orientation names only what was missing when it was asked for, and all
\* that is still missing when it is told, however many requests record visits
\* in between (advisor.go Advise, AdviseForConcepts).
THEOREM AdviceBracketed == Spec => []AdviceIsBracketed
  <1>1. IInv => AdviceIsBracketed
    <2>. SUFFICES ASSUME IInv, NEW a \in Askers, ask[a].phase = "told"
                  PROVE  /\ ask[a].gaps \subseteq ask[a].before
                         /\ Gaps(ask[a].student, ask[a].node) \subseteq ask[a].gaps
      BY DEF AdviceIsBracketed
    <2>1. Gathered(ask[a]) /\ ask[a].rels = {} /\ ask[a].focuses = {}
      BY DEF IInv, AskIsGathered
    <2>. QED BY <2>1 DEF Gathered, RequiredBy
  <1>. QED BY <1>1, Invariant, PTL

-----------------------------------------------------------------------------
(* What the page offers of a node.                                          *)

\* An offer is a cell of the matrix, an option, a shown flat button or a shown
\* button of the node's own.
LEMMA OfferIsOf ==
  ASSUME NEW node, NEW b \in Offers(node)
  PROVE  \/ /\ node.schema.kind = "combined"
            /\ b.format \in node.schema.formats /\ b.client = <<>>
            /\ ResolvesCombined(node.schema, b.variant, b.format)
         \/ /\ node.schema.kind \in PreferenceKind
            /\ b.format = ""
            /\ \E o \in ToSet(node.schema.options) : b.variant = o.id /\ b.client = o.delta
         \/ /\ node.schema.kind \notin PreferenceKind \cup {"combined"}
            /\ b.format = ""
            /\ \E o \in ToSet(node.schema.options) :
                 ~ o.asks /\ b.variant = o.id /\ b.client = o.delta
         \/ /\ b.format = ""
            /\ \E o \in ToSet(node.own) : ~ o.asks /\ b.variant = o.id /\ b.client = o.delta
  <1>1. ASSUME NEW buttons, b \in ShownButtons(buttons)
        PROVE  /\ b.format = ""
               /\ \E o \in ToSet(buttons) : ~ o.asks /\ b.variant = o.id /\ b.client = o.delta
    <2>1. PICK o \in ToSet(buttons) : ~ o.asks /\ b = Offer(o.id, "", o.delta)
      BY <1>1 DEF ShownButtons
    <2>. QED BY <2>1 DEF Offer
  <1>2. CASE b \in ShownButtons(node.own)
    BY <1>1, <1>2
  <1>3. ASSUME NEW schema, b \in SchemaOffers(schema)
        PROVE  \/ /\ schema.kind = "combined"
                  /\ b.format \in schema.formats /\ b.client = <<>>
                  /\ ResolvesCombined(schema, b.variant, b.format)
               \/ /\ schema.kind # "combined" /\ b.format = ""
                  /\ \E o \in ToSet(schema.options) :
                       /\ b.variant = o.id /\ b.client = o.delta
                       /\ schema.kind \in PreferenceKind \/ ~ o.asks
    <2>1. CASE schema.kind = "combined"
      <3>1. PICK p \in schema.depths \X schema.formats :
              b = Offer(p[1], p[2], <<>>) /\ ResolvesCombined(schema, p[1], p[2])
        BY <1>3, <2>1 DEF SchemaOffers
      <3>. QED BY <2>1, <3>1 DEF Offer
    <2>2. CASE schema.kind \in PreferenceKind
      <3>1. PICK o \in ToSet(schema.options) : b = Offer(o.id, "", o.delta)
        BY <1>3, <2>2 DEF SchemaOffers, PreferenceKind
      <3>. QED BY <2>2, <3>1 DEF Offer, PreferenceKind
    <2>3. CASE schema.kind \notin PreferenceKind \cup {"combined"}
      <3>1. b \in ShownButtons(schema.options)
        BY <1>3, <2>3 DEF SchemaOffers
      <3>. QED BY <1>1, <2>3, <3>1
    <2>. QED BY <2>1, <2>2, <2>3
  <1>4. CASE b \in SchemaOffers(ToProto(node).schema)
    <2>1. CASE node.schema = NoSchema
      BY <1>3, <1>4, <2>1 DEF ToProto, PreferenceKind, NoSchema
    <2>2. CASE node.schema # NoSchema
      <3>. DEFINE shown == SchemaToProto(node.schema)
      <3>1. b \in SchemaOffers(shown)
        BY <1>4, <2>2 DEF ToProto
      <3>2. /\ shown.kind = KindToProto(node.schema.kind)
            /\ shown.options = node.schema.options
            /\ shown.formats = node.schema.formats /\ shown.cells = node.schema.cells
        BY DEF SchemaToProto
      <3>3. /\ shown.kind = "combined" <=> node.schema.kind = "combined"
            /\ shown.kind \in PreferenceKind <=> node.schema.kind \in PreferenceKind
            /\ ResolvesCombined(shown, b.variant, b.format)
                 <=> ResolvesCombined(node.schema, b.variant, b.format)
        BY <3>2 DEF KindToProto, ResolvesCombined, PreferenceKind
      <3>. HIDE DEF shown
      <3>. QED BY <1>3, <3>1, <3>2, <3>3
    <2>. QED BY <2>1, <2>2
  <1>5. b \in SchemaOffers(ToProto(node).schema) \/ b \in ShownButtons(node.own)
    BY DEF Offers, ToProto
  <1>. QED BY <1>2, <1>4, <1>5

\* What a touch teaches: the client's delta, that of an option, or nothing.
LEMMA TeachesAnOption ==
  ASSUME NEW node, NEW v, NEW client
  PROVE  \/ client # <<>> /\ BotoneraDelta(node, v, client) = client
         \/ BotoneraDelta(node, v, client) = <<>>
         \/ /\ node.schema.kind \in PreferenceKind
            /\ \E o \in ToSet(node.schema.options) :
                 o.id = v /\ BotoneraDelta(node, v, client) = o.delta
  <1>. DEFINE options == node.schema.options
              first == {i \in DOMAIN options : /\ options[i].id = v
                                               /\ \A j \in 1..(i - 1) : options[j].id # v}
              i0 == CHOOSE i \in first : TRUE
  <1>1. first # {} => i0 \in DOMAIN options /\ options[i0].id = v
    OBVIOUS
  <1>2. first # {} => options[i0] \in ToSet(options)
    BY <1>1 DEF ToSet
  <1>3. BotoneraDelta(node, v, client) =
          IF client # <<>> THEN client
          ELSE IF node.schema.kind \in PreferenceKind /\ first # {} THEN options[i0].delta ELSE <<>>
    BY DEF BotoneraDelta
  <1>. QED BY <1>1, <1>2, <1>3

\* A schema that Put accepted is of a known kind, or there is none; its cells
\* have a format.
LEMMA PutChecksTheSchema ==
  ASSUME NEW node, NEW a11y, MayBePut(node, a11y)
  PROVE  /\ node.schema.kind \notin PreferenceKind \cup {"flat", "combined"} =>
              node.schema.options = <<>>
         /\ node.schema.kind = "combined" => \A c \in ToSet(node.schema.cells) : c.format # ""
  <1>1. CASE node.schema = NoSchema
    BY <1>1 DEF NoSchema
  <1>2. CASE IsValidSchema(node.schema)
    BY <1>2 DEF IsValidSchema, CellsAreOnAxes, PreferenceKind
  <1>. QED BY <1>1, <1>2 DEF MayBePut, IsValid

\* A delta that is not of the profile's length changes nothing.
LEMMA OtherSpaceIsRefused ==
  ASSUME NEW ve, NEW delta, Len(delta) # VeDims
  PROVE  Applied(ve, delta) = ve
  BY DEF Applied

\* What the page offers of a registered node is taken, and teaches at most the
\* preference of an option of that id, or a content vector as long as a profile;
\* the length is all that keeps the spaces apart (rail.js, ApplyDelta).
THEOREM OffersTaken == Spec => []OffersAreTaken
  <1>1. IInv => OffersAreTaken
    <2>. SUFFICES ASSUME IInv, NEW s \in Students, NEW n \in registered,
                         NEW b \in Offers(file.seed[n])
                  PROVE  LET seed == file.seed[n]
                             delta == BotoneraDelta(seed, b.variant, b.client) IN
                         /\ HasVariant(seed, b.variant, b.format)
                         /\ \/ Applied(profile[s], delta) = profile[s]
                            \/ /\ seed.schema.kind \in PreferenceKind
                               /\ \E o \in ToSet(seed.schema.options) :
                                    o.id = b.variant /\ o.delta = delta
                            \/ Len(delta) = VeDims /\ IsContent(seed, b.variant, delta)
      BY DEF OffersAreTaken
    <2>. DEFINE seed == file.seed[n]
                delta == BotoneraDelta(seed, b.variant, b.client)
    <2>0. MayBePut(seed, file.a11y) /\ n \in Interactive /\ file \in Cases
      BY DEF IInv, RegisteredIsValid, TypeOK
    <2>1. /\ ToSet(seed.own) \subseteq ContentButtons(seed)
          /\ seed.schema.kind = "flat" => ToSet(seed.schema.options) \subseteq ContentButtons(seed)
      BY DEF ContentButtons
    <2>2. \A o : o \in ToSet(seed.schema.options) => o.id \in OptionIds(seed.schema)
      BY DEF ToSet, OptionIds
    <2>3. ToSet(<<>>) = {}
      BY DEF ToSet
    <2>4. Len(<<>>) # VeDims
      BY TutorConstants
    <2>5. HasVariant(seed, b.variant, b.format)
      <3>1. CASE \E o \in ToSet(seed.own) : b.variant = o.id
        BY <3>1 DEF HasVariant
      <3>2. CASE /\ seed.schema.kind = "combined"
                 /\ ResolvesCombined(seed.schema, b.variant, b.format)
        <4>1. b.format # ""
          BY <2>0, <3>2, PutChecksTheSchema DEF ResolvesCombined
        <4>. QED BY <3>2, <4>1 DEF HasVariant, HasSchemaVariant
      <3>3. CASE /\ seed.schema.kind # "combined"
                 /\ \E o \in ToSet(seed.schema.options) : b.variant = o.id
        <4>1. seed.schema.kind \in PreferenceKind \cup {"flat"}
          BY <2>0, <2>3, <3>3, PutChecksTheSchema
        <4>. QED BY <2>2, <3>3, <4>1 DEF HasVariant, HasSchemaVariant
      <3>. QED BY <3>1, <3>2, <3>3, OfferIsOf DEF PreferenceKind
    <2>6. \/ Applied(profile[s], delta) = profile[s]
          \/ /\ seed.schema.kind \in PreferenceKind
             /\ \E o \in ToSet(seed.schema.options) : o.id = b.variant /\ o.delta = delta
          \/ Len(delta) = VeDims /\ IsContent(seed, b.variant, delta)
      <3>1. CASE Len(delta) # VeDims
        BY <3>1, OtherSpaceIsRefused
      <3>2. CASE Len(delta) = VeDims /\ b.client # <<>>
        <4>1. delta = b.client
          BY <3>2 DEF BotoneraDelta
        <4>2. CASE \E o \in ContentButtons(seed) :
                     ~ o.asks /\ b.variant = o.id /\ b.client = o.delta
          BY <3>2, <4>1, <4>2 DEF IsContent
        <4>3. CASE /\ seed.schema.kind \in PreferenceKind
                   /\ \E o \in ToSet(seed.schema.options) : b.variant = o.id /\ b.client = o.delta
          BY <4>1, <4>3
        <4>4. CASE /\ seed.schema.kind \notin PreferenceKind \cup {"combined", "flat"}
                   /\ \E o \in ToSet(seed.schema.options) : b.variant = o.id
          BY <2>0, <2>3, <4>4, PutChecksTheSchema
        <4>. QED BY <2>1, <3>2, <4>2, <4>3, <4>4, OfferIsOf
      <3>3. CASE Len(delta) = VeDims /\ b.client = <<>>
        BY <2>4, <3>3, TeachesAnOption
      <3>. QED BY <3>1, <3>2, <3>3
    <2>. QED BY <2>5, <2>6
  <1>. QED BY <1>1, Invariant, PTL

-----------------------------------------------------------------------------
(* What a traversal and a route answer with.                                *)

\* A list of kinds.
LEMMA KindLists ==
  /\ AllKinds \in Seq(EdgeKind) /\ CycleCheckedKinds \in Seq(EdgeKind)
  /\ <<"requires">> \in Seq(EdgeKind) /\ <<"requires", "alternative">> \in Seq(EdgeKind)
  <1>1. CycleCheckedKinds \in Seq(EdgeKind)
    BY DEF CycleCheckedKinds, EdgeKind
  <1>2. <<"alternative">> \in Seq(EdgeKind)
    BY DEF EdgeKind
  <1>3. AllKinds \in Seq(EdgeKind)
    <2>. DEFINE a == CycleCheckedKinds
                b == <<"alternative">>
    <2>1. a \in Seq(EdgeKind) /\ b \in Seq(EdgeKind) /\ AllKinds = a \o b
      BY <1>1, <1>2 DEF AllKinds
    <2>. HIDE DEF a, b
    <2>. QED BY <2>1
  <1>4. "requires" \in EdgeKind /\ "alternative" \in EdgeKind
    BY DEF EdgeKind
  <1>. QED BY <1>1, <1>3, <1>4

\* What the options asked for come to.
LEMMA OptionsType ==
  ASSUME NEW o \in Opts, NEW default \in {AllKinds, <<"requires">>}
  PROVE  /\ o.min \in Nat /\ o.limit \in Nat /\ Depth(o, 1) \in Nat
         /\ Kinds(o, default) \in Seq(EdgeKind)
  <1>1. PICK d \in {0, 2, 3}, min \in {0, 2}, limit \in {0, 2},
             kinds \in {<<>>, <<"requires", "alternative">>} :
          o = [depth |-> d, kinds |-> kinds, min |-> min, limit |-> limit]
    <2>1. CASE o = NoOptions
      BY <2>1 DEF NoOptions
    <2>2. CASE o = [NoOptions EXCEPT !.depth = 3]
      <3>1. o = [depth |-> 3, kinds |-> <<>>, min |-> 0, limit |-> 0]
        BY <2>2 DEF NoOptions
      <3>. QED BY <3>1
    <2>3. CASE o = [NoOptions EXCEPT !.depth = 3, !.limit = 2]
      <3>1. o = [depth |-> 3, kinds |-> <<>>, min |-> 0, limit |-> 2]
        BY <2>3 DEF NoOptions
      <3>. QED BY <3>1
    <2>4. CASE o = [NoOptions EXCEPT !.depth = 2, !.min = 2,
                              !.kinds = <<"requires", "alternative">>]
      <3>1. o = [depth |-> 2, kinds |-> <<"requires", "alternative">>, min |-> 2, limit |-> 0]
        BY <2>4 DEF NoOptions
      <3>. QED BY <3>1
    <2>. QED BY <2>1, <2>2, <2>3, <2>4 DEF Opts
  <1>2. o.depth = d /\ o.kinds = kinds /\ o.min = min /\ o.limit = limit
    BY <1>1
  <1>3. Depth(o, 1) \in Nat
    BY <1>2 DEF Depth
  <1>4. Kinds(o, default) \in {AllKinds, <<"requires">>, <<"requires", "alternative">>}
    BY <1>2 DEF Kinds
  <1>5. Kinds(o, default) \in Seq(EdgeKind)
    BY <1>4, KindLists
  <1>6. o.min \in Nat /\ o.limit \in Nat
    BY <1>2
  <1>. QED BY <1>3, <1>5, <1>6

\* Whatever file is loaded, every traversal answers what is within reach,
\* each concept once and at its distance, and the nearest if there is a limit
\* (graph.go traverse, incidentEdges).
THEOREM TraversalsAreExact == Spec => TraversalsReach
  <1>1. ASSUME IInv, [Next]_vars, graph' # graph
        PROVE  \A c \in Concepts, o \in Opts :
           /\ IsTraversal(Neighbors(graph', c, o),
                          Steps(graph', ToSet(Kinds(o, AllKinds)), o.min, TRUE), c, o)
           /\ IsTraversal(Dependents(graph', c, o),
                          Steps(graph', ToSet(Kinds(o, <<"requires">>)), o.min, FALSE), c, o)
    <2>1. graph' \in SUBSET Edge /\ IsFiniteSet(graph')
      BY <1>1, StepIInv DEF IInv, TypeOK, GraphIsLoaded
    <2>. PICK E \in SUBSET Edge : E = graph'
      BY <2>1
    <2>. SUFFICES ASSUME NEW c \in Concepts, NEW o \in Opts
                  PROVE  /\ IsTraversal(Neighbors(E, c, o),
                              Steps(E, ToSet(Kinds(o, AllKinds)), o.min, TRUE), c, o)
                         /\ IsTraversal(Dependents(E, c, o),
                              Steps(E, ToSet(Kinds(o, <<"requires">>)), o.min, FALSE), c, o)
      OBVIOUS
    <2>2. c \in ConceptIds /\ IsFiniteSet(E) /\ TRUE \in BOOLEAN /\ FALSE \in BOOLEAN
      BY <2>1, TutorConstants
    <2>3. IsTraversal(Traverse(E, c, o, TRUE, AllKinds),
                      Steps(E, ToSet(Kinds(o, AllKinds)), o.min, TRUE), c, o)
      BY <2>2, OptionsType, TraversalsAnswer
    <2>4. IsTraversal(Traverse(E, c, o, FALSE, <<"requires">>),
                      Steps(E, ToSet(Kinds(o, <<"requires">>)), o.min, FALSE), c, o)
      BY <2>2, OptionsType, TraversalsAnswer
    <2>. QED BY <2>3, <2>4 DEF Neighbors, Dependents
  <1>2. IInv /\ [Next]_vars => [graph' # graph =>
         \A c \in Concepts, o \in Opts :
           /\ IsTraversal(Neighbors(graph', c, o),
                          Steps(graph', ToSet(Kinds(o, AllKinds)), o.min, TRUE), c, o)
           /\ IsTraversal(Dependents(graph', c, o),
                          Steps(graph', ToSet(Kinds(o, <<"requires">>)), o.min, FALSE), c, o)]_vars
    BY <1>1
  <1>. QED BY <1>2, Invariant, PTL DEF Spec, TraversalsReach

\* A route told is a shortest study path of the graph, and if none was found
\* there is none within four steps (graph.go Path; knowledge-api/spec.md:29).
THEOREM RoutesArePaths == Spec => []RoutesAreStudyPaths
  <1>1. IInv => RoutesAreStudyPaths
    <2>. SUFFICES ASSUME IInv, NEW a \in Askers, ask[a].phase = "route"
                  PROVE  LET R == Steps(graph, ToSet(CycleCheckedKinds), 0, TRUE) IN
                         IF ask[a].path = NoPath
                           THEN ask[a].to \notin Within(R, ask[a].from, MaxTraversalDepth)
                           ELSE IsStudyPath(ask[a].path, R, ask[a].from, ask[a].to)
      BY DEF RoutesAreStudyPaths
    <2>1. PICK from \in Concepts, to \in Concepts :
            /\ from # to /\ ask[a].from = from /\ ask[a].to = to
            /\ ask[a].path = Path(graph, from, to, NoOptions)
      BY DEF IInv, AskIsGathered, IsRoute, Route
    <2>2. from \in ConceptIds /\ to \in ConceptIds /\ graph \in SUBSET Edge /\ IsFiniteSet(graph)
      BY TutorConstants DEF IInv, TypeOK, GraphIsLoaded
    <2>3. /\ Kinds(NoOptions, CycleCheckedKinds) = CycleCheckedKinds /\ NoOptions.min = 0
          /\ Depth(NoOptions, MaxTraversalDepth) = MaxTraversalDepth /\ MaxTraversalDepth \in Nat
      BY DEF NoOptions, Kinds, Depth, MaxTraversalDepth
    <2>. DEFINE path == Path(graph, from, to, NoOptions)
                F == Followed(graph, ToSet(CycleCheckedKinds), 0)
    <2>4. IF path = NoPath THEN to \notin Within(F, from, MaxTraversalDepth)
          ELSE IsStudyPath(path, F, from, to)
      BY <2>1, <2>2, <2>3, PathsAreFound
    <2>5. F = Steps(graph, ToSet(CycleCheckedKinds), 0, TRUE)
      BY <2>2, StepsOneWay
    <2>. HIDE DEF path, F
    <2>. QED BY <2>1, <2>4, <2>5 DEF path
  <1>. QED BY <1>1, Invariant, PTL

-----------------------------------------------------------------------------
(* The advice.                                                              *)

\* The pairs that "requires" joins, in a graph that was loaded.
LEMMA RequirementsAreGrounded ==
  ASSUME IInv
  PROVE  LET R == Steps(graph, {"requires"}, 0, TRUE) IN
         IsRelation(R, Concepts) /\ IsGrounded(Concepts, R)
  <1>. DEFINE R == Steps(graph, {"requires"}, 0, TRUE)
  <1>1. /\ graph \in SUBSET Edge /\ IsFiniteSet(graph)
        /\ Concepts \in SUBSET ConceptIds /\ IsFiniteSet(Concepts)
    BY TutorConstants DEF IInv, TypeOK, GraphIsLoaded
  <1>2. R = OneWay(graph, "requires")
    <2>1. \A e \in graph : e.strength >= 0
      BY <1>1, CurriculumConstants DEF Edge
    <2>. QED BY <2>1 DEF OneWay, Steps, Near, Peer
  <1>3. CASE graph = {}
    <2>1. R = {}
      BY <1>2, <1>3 DEF OneWay
    <2>. QED BY <2>1 DEF IsRelation, IsGrounded, Onward
  <1>4. CASE Loads(graph, Concepts)
    <2>1. EndsIn(graph, Concepts)
      BY <1>4 DEF Loads, EndsIn
    <2>2. FindCycle(graph, Concepts, "requires") = <<>>
      <3>1. 1 \in DOMAIN CycleCheckedKinds /\ CycleCheckedKinds[1] = "requires"
        BY DEF CycleCheckedKinds
      <3>. QED BY <1>4, <3>1 DEF Loads
    <2>3. IsGrounded(Concepts, OneWay(graph, "requires"))
      BY <1>1, <2>1, <2>2, NoCycleIsFound
    <2>4. IsRelation(R, Concepts)
      <3>1. \A e \in graph : <<e.from, e.to>> \in Concepts \X Concepts
        BY <2>1 DEF EndsIn
      <3>2. OneWay(graph, "requires") \in SUBSET (Concepts \X Concepts)
        BY <3>1 DEF OneWay
      <3>. HIDE DEF R
      <3>. QED BY <1>2, <3>2 DEF IsRelation
    <2>. HIDE DEF R
    <2>. QED BY <1>2, <2>3, <2>4 DEF R
  <1>. QED BY <1>3, <1>4 DEF IInv, GraphIsLoaded

\* What a concept requires is what the graph joins it to.
LEMMA RequiresIsDirect ==
  ASSUME IInv, NEW c \in Concepts
  PROVE  Requires(c) = Onward(Steps(graph, {"requires"}, 0, TRUE), {c})
  <1>. DEFINE kinds == <<"requires">>
              R == Steps(graph, {"requires"}, 0, TRUE)
              rels == Prerequisites(graph, c, NoOptions)
  <1>1. graph \in SUBSET Edge /\ IsFiniteSet(graph) /\ c \in ConceptIds
    BY TutorConstants DEF IInv, TypeOK, GraphIsLoaded
  <1>2. /\ Kinds(NoOptions, kinds) = kinds /\ kinds \in Seq(EdgeKind) /\ ToSet(kinds) = {"requires"}
        /\ NoOptions.min = 0 /\ NoOptions.limit = 0 /\ Depth(NoOptions, 1) = 1
    BY KindLists DEF Kinds, NoOptions, Depth, ToSet
  <1>3. IsTraversal(Traverse(graph, c, NoOptions, TRUE, kinds),
                    Steps(graph, ToSet(Kinds(NoOptions, kinds)), NoOptions.min, TRUE), c, NoOptions)
    <2>. HIDE DEF kinds
    <2>1. /\ Kinds(NoOptions, kinds) \in Seq(EdgeKind) /\ NoOptions.min \in Nat
          /\ NoOptions.limit \in Nat /\ Depth(NoOptions, 1) \in Nat /\ TRUE \in BOOLEAN
      BY <1>2
    <2>. QED BY <1>1, <2>1, TraversalsAnswer
  <1>4. IsTraversal(rels, R, c, NoOptions)
    BY <1>2, <1>3 DEF Prerequisites
  <1>. HIDE DEF rels, R, kinds
  <1>5. ~ IsFull(rels, NoOptions)
    BY <1>2 DEF IsFull
  <1>6. {rels[i].peer : i \in DOMAIN rels} = Within(R, c, 1)
    BY <1>2, <1>4, <1>5 DEF IsTraversal
  <1>7. Within(R, c, 1) = Onward(R, {c})
    <2>1. IsRelation(R, Concepts) /\ IsFiniteSet(Concepts)
      BY RequirementsAreGrounded, TutorConstants DEF R
    <2>. QED BY <2>1, ReachSaturates
  <1>. QED BY <1>6, <1>7 DEF Requires, rels, R

\* The advice of a graph that was loaded leads somewhere: where a prerequisite
\* is missing, one of those below is missing none itself (load.go:158,
\* graph.go findCycle, advisor.go Advise).
THEOREM AdviceIsGrounded == Spec => []AdviceLeadsSomewhere
  <1>1. IInv => AdviceLeadsSomewhere
    <2>. DEFINE R == Steps(graph, {"requires"}, 0, TRUE)
                N == Cardinality(Concepts)
    <2>. SUFFICES ASSUME IInv, NEW s \in Students, NEW c \in Concepts, Requires(c) \ visits[s] # {}
                  PROVE  \E d \in Within(R, c, N) \ visits[s] : Requires(d) \subseteq visits[s]
      BY DEF AdviceLeadsSomewhere
    <2>1. IsRelation(R, Concepts) /\ IsGrounded(Concepts, R) /\ IsFiniteSet(Concepts)
      BY RequirementsAreGrounded, TutorConstants
    <2>2. \A d \in Concepts : Requires(d) = Onward(R, {d})
      BY RequiresIsDirect
    <2>. HIDE DEF R
    <2>3. /\ Onward(R, Within(R, c, N)) \subseteq Within(R, c, N)
          /\ Onward(R, {c}) \subseteq Within(R, c, N) /\ Within(R, c, N) \subseteq Concepts
      BY <2>1, ReachSaturates
    <2>. DEFINE S == Within(R, c, N) \ visits[s]
    <2>4. S \in SUBSET Concepts /\ S # {}
      BY <2>2, <2>3
    <2>5. PICK d \in S : Onward(R, {d}) \cap S = {}
      BY <2>1, <2>4 DEF IsGrounded
    <2>6. Onward(R, {d}) \subseteq Within(R, c, N)
      BY <2>3, <2>5 DEF Onward
    <2>. QED BY <2>2, <2>4, <2>5, <2>6
  <1>. QED BY <1>1, Invariant, PTL

-----------------------------------------------------------------------------
(* Progress: recursion down a tree.                                         *)

\* What holds of a number if it holds of all that are greater, up to m.
LEMMA Descent ==
  ASSUME NEW m \in Nat, NEW P, \A p \in 1..m : (\A c \in 1..m : p < c => c \in P) => p \in P
  PROVE  \A p \in 1..m : p \in P
  <1>. DEFINE Q == {k \in 0..m : \A p \in 1..m : p > m - k => p \in P}
  <1>1. 0 \in Q
    OBVIOUS
  <1>2. ASSUME NEW k \in 1..m, k - 1 \in Q PROVE k \in Q
    <2>1. ASSUME NEW p \in 1..m, p > m - k PROVE p \in P
      <3>1. \A c \in 1..m : p < c => c > m - (k - 1)
        BY <2>1
      <3>2. \A c \in 1..m : p < c => c \in P
        BY <1>2, <3>1
      <3>. QED BY <3>2
    <2>. QED BY <2>1
  <1>3. m \in Q
    <2>. HIDE DEF Q
    <2>. QED BY <1>1, <1>2, UpTo
  <1>4. \A p \in 1..m : p > m - m
    OBVIOUS
  <1>. QED BY <1>3, <1>4

\* What is found for each number from 1 to m from what was found for those that
\* are greater.
IsDescent(f, m, X, G) == f \in [1..m -> X] /\ \A p \in 1..m : f[p] = G[<<f, p>>]

\* Recursion from the greatest number down.
LEMMA DescentExists ==
  ASSUME NEW m \in Nat, NEW X, NEW x \in X, NEW G \in [[1..m -> X] \X (1..m) -> X],
         \A f, g \in [1..m -> X], p \in 1..m :
           (\A c \in 1..m : p < c => f[c] = g[c]) => G[<<f, p>>] = G[<<g, p>>]
  PROVE  \E f : IsDescent(f, m, X, G)
  <1>. DEFINE Ends(f, k) == \A p \in 1..m : p > m - k => f[p] = G[<<f, p>>]
              Q == {k \in 0..m : \E f \in [1..m -> X] : Ends(f, k)}
  <1>1. 0 \in Q
    <2>. DEFINE h == [p \in 1..m |-> x]
    <2>1. h \in [1..m -> X]
      OBVIOUS
    <2>2. Ends(h, 0)
      OBVIOUS
    <2>. HIDE DEF h, Ends
    <2>. QED BY <2>1, <2>2
  <1>2. ASSUME NEW k \in 1..m, k - 1 \in Q PROVE k \in Q
    <2>1. PICK f \in [1..m -> X] : Ends(f, k - 1)
      BY <1>2
    <2>. DEFINE q == m - k + 1
                h == [p \in 1..m |-> IF p = q THEN G[<<f, q>>] ELSE f[p]]
    <2>2. q \in 1..m
      OBVIOUS
    <2>. HIDE DEF q
    <2>3. h \in [1..m -> X]
      BY <2>2
    <2>4. h[q] = G[<<f, q>>] /\ \A p \in 1..m : p # q => h[p] = f[p]
      BY <2>2
    <2>. HIDE DEF h
    <2>5. ASSUME NEW p \in 1..m, p > m - k PROVE h[p] = G[<<h, p>>]
      <3>1. p >= q /\ q \in Int
        BY <2>5, <2>2 DEF q
      <3>2. \A c \in 1..m : p < c => f[c] = h[c]
        BY <2>4, <3>1
      <3>3. G[<<f, p>>] = G[<<h, p>>]
        BY <2>3, <3>2
      <3>4. CASE p = q
        BY <2>4, <3>3, <3>4
      <3>5. CASE p # q
        <4>1. p > m - (k - 1)
          BY <3>1, <3>5 DEF q
        <4>2. f[p] = G[<<f, p>>]
          BY <2>1, <4>1
        <4>. QED BY <2>4, <3>3, <3>5, <4>2
      <3>. QED BY <3>4, <3>5
    <2>6. Ends(h, k)
      BY <2>5
    <2>. HIDE DEF Ends
    <2>. QED BY <2>3, <2>6
  <1>3. m \in Q
    <2>. HIDE DEF Q
    <2>. QED BY <1>1, <1>2, UpTo
  <1>4. PICK f \in [1..m -> X] : Ends(f, m)
    BY <1>3
  <1>5. \A p \in 1..m : p > m - m
    OBVIOUS
  <1>6. \A p \in 1..m : f[p] = G[<<f, p>>]
    BY <1>4, <1>5
  <1>. QED BY <1>6 DEF IsDescent

\* What lies at and under a place, by what lies under each.
Under(tree, below, p) == <<p>> \o FlattenSeq([i \in DOMAIN tree.kids[p] |-> below[tree.kids[p][i]]])

\* The lists of places under each of a place's own.
BelowKids(tree, p) == [i \in DOMAIN tree.kids[p] |-> Below(tree, tree.kids[p][i])]

\* A tree's places are numbers, and its branches lead to greater ones.
LEMMA TreePlaces ==
  ASSUME NEW tree, IsTree(tree)
  PROVE  \E m \in Nat : /\ Places = 1..m
                        /\ \A p \in Places : /\ tree.kids[p] \in Seq(Places)
                                             /\ \A i \in DOMAIN tree.kids[p] :
                                                  tree.kids[p][i] \in Places /\ p < tree.kids[p][i]
  <1>1. Cardinality(Places) \in Nat /\ Places = 1..Cardinality(Places)
    BY TeachingNodeConstants, FS_CardinalityType
  <1>2. ASSUME NEW p \in Places
        PROVE  /\ tree.kids[p] \in Seq(Places)
               /\ \A i \in DOMAIN tree.kids[p] :
                    tree.kids[p][i] \in Places /\ p < tree.kids[p][i]
    <2>1. tree.kids[p] \in Seq(Places) /\ \A kid \in ToSet(tree.kids[p]) : p < kid
      BY DEF IsTree
    <2>2. \A i \in DOMAIN tree.kids[p] : tree.kids[p][i] \in ToSet(tree.kids[p])
      BY DEF ToSet
    <2>3. \A i \in DOMAIN tree.kids[p] : tree.kids[p][i] \in Places
      BY <2>1
    <2>. QED BY <2>1, <2>2, <2>3
  <1>. QED BY <1>1, <1>2

\* Sequences, one for each index of a sequence.
LEMMA ListType ==
  ASSUME NEW X, NEW Y, NEW s \in Seq(X), NEW t, t = [i \in DOMAIN s |-> t[i]],
         \A i \in DOMAIN s : t[i] \in Y
  PROVE  t \in Seq(Y) /\ Len(t) = Len(s) /\ DOMAIN t = DOMAIN s
  <1>1. DOMAIN s = 1..Len(s) /\ Len(s) \in Nat
    OBVIOUS
  <1>2. t \in [1..Len(s) -> Y]
    BY <1>1
  <1>. QED BY <1>1, <1>2

\* One step of Below, with what it needs of the places under it.
LEMMA UnderType ==
  ASSUME NEW tree, NEW p \in Places, tree.kids[p] \in Seq(Places), NEW below,
         \A i \in DOMAIN tree.kids[p] : below[tree.kids[p][i]] \in Seq(Places)
  PROVE  Under(tree, below, p) \in Seq(Places)
  <1>. DEFINE ss == [i \in DOMAIN tree.kids[p] |-> below[tree.kids[p][i]]]
  <1>1. /\ ss = [i \in DOMAIN tree.kids[p] |-> ss[i]]
        /\ \A i \in DOMAIN tree.kids[p] : ss[i] \in Seq(Places)
    OBVIOUS
  <1>2. Under(tree, below, p) = <<p>> \o FlattenSeq(ss)
    BY DEF Under
  <1>. HIDE DEF ss
  <1>3. ss \in Seq(Seq(Places))
    BY <1>1, ListType
  <1>4. FlattenSeq(ss) \in Seq(Places) /\ <<p>> \in Seq(Places)
    BY <1>3, Flattened
  <1>. QED BY <1>2, <1>4, ConcatAt

\* Below goes down from a place through each of its own in turn.
LEMMA BelowSteps ==
  ASSUME NEW tree, IsTree(tree)
  PROVE  \A p \in Places :
           /\ Below(tree, p) \in Seq(Places)
           /\ BelowKids(tree, p) \in Seq(Seq(Places))
           /\ Below(tree, p) = <<p>> \o FlattenSeq(BelowKids(tree, p))
  <1>. DEFINE IsBelow(f) == f = [q \in Places |->
                 <<q>> \o FlattenSeq([i \in DOMAIN tree.kids[q] |-> f[tree.kids[q][i]]])]
              below == CHOOSE f : IsBelow(f)
              X == Seq(Places)
  <1>1. \A p : Below(tree, p) = below[p]
    BY DEF Below
  <1>2. PICK m \in Nat : /\ Places = 1..m
                         /\ \A p \in Places : /\ tree.kids[p] \in Seq(Places)
                                              /\ \A i \in DOMAIN tree.kids[p] :
                                                   tree.kids[p][i] \in Places /\ p < tree.kids[p][i]
    BY TreePlaces
  <1>3. \E f : IsBelow(f)
    <2>. DEFINE G == [c \in [1..m -> X] \X (1..m) |-> Under(tree, c[1], c[2])]
    <2>1. ASSUME NEW f \in [1..m -> X], NEW p \in 1..m PROVE Under(tree, f, p) \in X
      <3>1. \A i \in DOMAIN tree.kids[p] : f[tree.kids[p][i]] \in X
        BY <1>2
      <3>. QED BY <1>2, <3>1, UnderType
    <2>2. G \in [[1..m -> X] \X (1..m) -> X]
      BY <2>1
    <2>3. \A f \in [1..m -> X], p \in 1..m : G[<<f, p>>] = Under(tree, f, p)
      OBVIOUS
    <2>4. ASSUME NEW f \in [1..m -> X], NEW g \in [1..m -> X], NEW p \in 1..m,
                 \A c \in 1..m : p < c => f[c] = g[c]
          PROVE  G[<<f, p>>] = G[<<g, p>>]
      <3>1. \A i \in DOMAIN tree.kids[p] : f[tree.kids[p][i]] = g[tree.kids[p][i]]
        BY <1>2, <2>4
      <3>2. [i \in DOMAIN tree.kids[p] |-> f[tree.kids[p][i]]]
              = [i \in DOMAIN tree.kids[p] |-> g[tree.kids[p][i]]]
        BY <3>1
      <3>3. Under(tree, f, p) = Under(tree, g, p)
        BY <3>2 DEF Under
      <3>. HIDE DEF G
      <3>. QED BY <2>3, <3>3
    <2>5. <<>> \in X
      OBVIOUS
    <2>. HIDE DEF G, X
    <2>6. PICK f : IsDescent(f, m, X, G)
      BY <2>2, <2>4, <2>5, DescentExists
    <2>7. f \in [1..m -> X] /\ \A p \in 1..m : f[p] = Under(tree, f, p)
      BY <2>3, <2>6 DEF IsDescent
    <2>8. f = [q \in Places |-> Under(tree, f, q)]
      BY <1>2, <2>7
    <2>9. IsBelow(f)
      BY <2>8 DEF Under
    <2>. QED BY <2>9
  <1>4. IsBelow(below)
    <2>. HIDE DEF IsBelow
    <2>. QED BY <1>3
  <1>5. \A p \in Places : below[p] = Under(tree, below, p)
    <2>. HIDE DEF below
    <2>. QED BY <1>4 DEF Under
  <1>. HIDE DEF below, IsBelow, X
  <1>6. \A p \in 1..m : p \in {q \in 1..m : below[q] \in X}
    <2>. DEFINE P == {q \in 1..m : below[q] \in X}
    <2>1. ASSUME NEW p \in 1..m, \A c \in 1..m : p < c => c \in P PROVE p \in P
      <3>1. \A i \in DOMAIN tree.kids[p] : below[tree.kids[p][i]] \in Seq(Places)
        BY <1>2, <2>1 DEF X
      <3>2. Under(tree, below, p) \in Seq(Places)
        BY <1>2, <3>1, UnderType
      <3>. QED BY <1>2, <1>5, <3>2 DEF X
    <2>. HIDE DEF P
    <2>2. \A p \in 1..m : p \in P
      BY <2>1, Descent
    <2>. QED BY <2>2 DEF P
  <1>7. ASSUME NEW p \in Places
        PROVE  /\ Below(tree, p) \in Seq(Places)
               /\ BelowKids(tree, p) \in Seq(Seq(Places))
               /\ Below(tree, p) = <<p>> \o FlattenSeq(BelowKids(tree, p))
    <2>1. Below(tree, p) \in Seq(Places)
      BY <1>1, <1>2, <1>6 DEF X
    <2>2. BelowKids(tree, p) = [i \in DOMAIN tree.kids[p] |-> below[tree.kids[p][i]]]
      BY <1>1 DEF BelowKids
    <2>3. \A i \in DOMAIN tree.kids[p] : below[tree.kids[p][i]] \in Seq(Places)
      BY <1>2, <1>6 DEF X
    <2>4. BelowKids(tree, p) \in Seq(Seq(Places))
      <3>1. /\ BelowKids(tree, p) = [i \in DOMAIN tree.kids[p] |-> BelowKids(tree, p)[i]]
            /\ \A i \in DOMAIN tree.kids[p] : BelowKids(tree, p)[i] \in Seq(Places)
        BY <2>2, <2>3
      <3>. QED BY <1>2, <3>1, ListType
    <2>5. Below(tree, p) = <<p>> \o FlattenSeq(BelowKids(tree, p))
      BY <1>1, <1>5, <2>2 DEF Under
    <2>. QED BY <2>1, <2>4, <2>5
  <1>. QED BY <1>7

-----------------------------------------------------------------------------
(* Progress: no id twice.                                                   *)

\* The ids of the subtopics at the places of s.
Ids(tree, s) == {tree.id[r] : r \in ToSet(s)}

\* No two places of s have the same id.
IsOnce(tree, s) == \A i, j \in DOMAIN s : tree.id[s[i]] = tree.id[s[j]] => i = j

\* Parts of a list without repeated ids have none, and share none.
LEMMA OnceSplits ==
  ASSUME NEW tree, NEW s \in Seq(Places), NEW t \in Seq(Places), IsOnce(tree, s \o t)
  PROVE  IsOnce(tree, s) /\ IsOnce(tree, t) /\ Ids(tree, s) \cap Ids(tree, t) = {}
  <1>. DEFINE u == s \o t
              m == Len(s)
              n == Len(t)
  <1>1. /\ m \in Nat /\ n \in Nat /\ DOMAIN s = 1..m /\ DOMAIN t = 1..n
        /\ DOMAIN u = 1..(m + n)
        /\ \A i \in 1..m : u[i] = s[i]
        /\ \A i \in 1..n : u[m + i] = t[i]
    <2>1. m \in Nat /\ n \in Nat /\ DOMAIN s = 1..m /\ DOMAIN t = 1..n
      OBVIOUS
    <2>. QED BY <2>1, ConcatAt
  <1>2. \A i, j \in 1..(m + n) : tree.id[u[i]] = tree.id[u[j]] => i = j
    BY <1>1 DEF IsOnce
  <1>. HIDE DEF u, m, n
  <1>3. /\ \A i \in 1..m : i \in 1..(m + n)
        /\ \A i \in 1..n : m + i \in 1..(m + n)
        /\ \A i \in 1..m, j \in 1..n : i # m + j
        /\ \A i, j \in 1..n : m + i = m + j => i = j
    BY <1>1
  <1>4. IsOnce(tree, s)
    BY <1>1, <1>2, <1>3 DEF IsOnce
  <1>5. IsOnce(tree, t)
    <2>1. ASSUME NEW i \in 1..n, NEW j \in 1..n, tree.id[t[i]] = tree.id[t[j]] PROVE i = j
      <3>1. u[m + i] = t[i] /\ u[m + j] = t[j]
        BY <1>1
      <3>2. m + i \in 1..(m + n) /\ m + j \in 1..(m + n)
        BY <1>3
      <3>3. m + i = m + j
        BY <1>2, <2>1, <3>1, <3>2
      <3>. QED BY <1>3, <3>3
    <2>. QED BY <1>1, <2>1 DEF IsOnce
  <1>6. ASSUME NEW i \in 1..m, NEW j \in 1..n PROVE tree.id[s[i]] # tree.id[t[j]]
    <2>1. u[i] = s[i] /\ u[m + j] = t[j] /\ i \in 1..(m + n) /\ m + j \in 1..(m + n) /\ i # m + j
      BY <1>1, <1>3
    <2>. QED BY <1>2, <2>1
  <1>7. Ids(tree, s) \cap Ids(tree, t) = {}
    BY <1>1, <1>6 DEF Ids, ToSet
  <1>. QED BY <1>4, <1>5, <1>7

\* f is what FlattenSeq makes of ss, a sequence at a time.
IsFlattening(f, ss) ==
    /\ f \in [0..Len(ss) -> Seq(Places)]
    /\ f[0] = <<>>
    /\ \A k \in 1..Len(ss) : f[k] = f[k - 1] \o ss[k]
    /\ FlattenSeq(ss) = f[Len(ss)]

\* Every part of a flattened list without repeated ids has none that is in what precedes it.
LEMMA OnceInTurn ==
  ASSUME NEW tree, NEW ss \in Seq(Seq(Places)), NEW f, IsFlattening(f, ss),
         IsOnce(tree, FlattenSeq(ss))
  PROVE  \A k \in 1..Len(ss) : /\ IsOnce(tree, ss[k])
                               /\ Ids(tree, f[k - 1]) \cap Ids(tree, ss[k]) = {}
  <1>. DEFINE n == Len(ss)
              P == {k \in 0..n : IsOnce(tree, f[n - k])}
  <1>1. n \in Nat /\ \A k \in 1..n : ss[k] \in Seq(Places)
    OBVIOUS
  <1>2. /\ f \in [0..n -> Seq(Places)] /\ IsOnce(tree, f[n])
        /\ \A k \in 1..n : f[k] = f[k - 1] \o ss[k]
    BY DEF IsFlattening
  <1>. HIDE DEF n
  <1>3. ASSUME NEW k \in 1..n
        PROVE  f[k - 1] \in Seq(Places) /\ ss[k] \in Seq(Places) /\ f[k] = f[k - 1] \o ss[k]
    BY <1>1, <1>2, Indices
  <1>4. 0 \in P
    <2>1. n - 0 = n
      BY <1>1
    <2>. QED BY <1>1, <1>2, <2>1
  <1>5. ASSUME NEW k \in 1..n, k - 1 \in P PROVE k \in P
    <2>1. n - (k - 1) \in 1..n /\ (n - (k - 1)) - 1 = n - k /\ k \in 0..n
      BY <1>1
    <2>. DEFINE j == n - (k - 1)
    <2>2. IsOnce(tree, f[j]) /\ j \in 1..n /\ j - 1 = n - k
      BY <1>5, <2>1
    <2>. HIDE DEF j
    <2>3. IsOnce(tree, f[j - 1])
      <3>1. f[j - 1] \in Seq(Places) /\ ss[j] \in Seq(Places) /\ IsOnce(tree, f[j - 1] \o ss[j])
        BY <1>3, <2>2
      <3>. QED BY <3>1, OnceSplits
    <2>. QED BY <2>1, <2>2, <2>3
  <1>6. \A k \in 0..n : k \in P
    <2>. HIDE DEF P
    <2>. QED BY <1>1, <1>4, <1>5, UpTo
  <1>7. ASSUME NEW k \in 1..n PROVE IsOnce(tree, f[k])
    <2>1. n - k \in 0..n /\ n - (n - k) = k
      BY <1>1
    <2>2. n - k \in P
      BY <1>6, <2>1
    <2>. QED BY <2>1, <2>2
  <1>8. ASSUME NEW k \in 1..n
        PROVE  IsOnce(tree, ss[k]) /\ Ids(tree, f[k - 1]) \cap Ids(tree, ss[k]) = {}
    <2>1. IsOnce(tree, f[k - 1] \o ss[k])
      BY <1>3, <1>7
    <2>2. f[k - 1] \in Seq(Places) /\ ss[k] \in Seq(Places)
      BY <1>3
    <2>. QED BY <2>1, <2>2, OnceSplits
  <1>. QED BY <1>8 DEF n

\* Every list that is flattened is, a sequence at a time.
LEMMA Flattens ==
  ASSUME NEW ss \in Seq(Seq(Places))
  PROVE  \E f : IsFlattening(f, ss)
  BY FlattenSteps DEF IsFlattening

\* What lies under a place of a flattened list of lists is of one of them.
LEMMA OncePart ==
  ASSUME NEW tree, NEW ss \in Seq(Seq(Places)), IsOnce(tree, FlattenSeq(ss)), NEW k \in DOMAIN ss
  PROVE  IsOnce(tree, ss[k])
  <1>1. PICK f : IsFlattening(f, ss)
    BY Flattens
  <1>2. k \in 1..Len(ss)
    OBVIOUS
  <1>. QED BY <1>1, <1>2, OnceInTurn

\* Below a place are all that lie below those, and none repeats an id if none does.
LEMMA BelowOnce ==
  ASSUME NEW tree, IsTree(tree), NEW r \in Places, NEW q \in ToSet(Below(tree, r))
  PROVE  /\ q \in Places
         /\ ToSet(Below(tree, q)) \subseteq ToSet(Below(tree, r))
         /\ IsOnce(tree, Below(tree, r)) => IsOnce(tree, Below(tree, q))
  <1>. DEFINE Holds(p, x) ==
                /\ x \in Places
                /\ ToSet(Below(tree, x)) \subseteq ToSet(Below(tree, p))
                /\ IsOnce(tree, Below(tree, p)) => IsOnce(tree, Below(tree, x))
  <1>1. PICK m \in Nat : /\ Places = 1..m
                         /\ \A p \in Places : /\ tree.kids[p] \in Seq(Places)
                                              /\ \A i \in DOMAIN tree.kids[p] :
                                                   tree.kids[p][i] \in Places /\ p < tree.kids[p][i]
    BY TreePlaces
  <1>. DEFINE P == {p \in 1..m : \A x \in ToSet(Below(tree, p)) : Holds(p, x)}
  <1>2. ASSUME NEW p \in 1..m, \A c \in 1..m : p < c => c \in P PROVE p \in P
    <2>. DEFINE ss == BelowKids(tree, p)
    <2>1. /\ Below(tree, p) \in Seq(Places) /\ ss \in Seq(Seq(Places))
          /\ Below(tree, p) = <<p>> \o FlattenSeq(ss)
      BY <1>1, BelowSteps
    <2>2. /\ DOMAIN ss = DOMAIN tree.kids[p]
          /\ \A i \in DOMAIN ss : ss[i] = Below(tree, tree.kids[p][i])
      BY DEF BelowKids
    <2>. HIDE DEF ss
    <2>3. <<p>> \in Seq(Places) /\ ToSet(<<p>>) = {p}
      BY <1>1 DEF ToSet
    <2>4. /\ FlattenSeq(ss) \in Seq(Places)
          /\ ToSet(FlattenSeq(ss)) = UNION {ToSet(ss[i]) : i \in DOMAIN ss}
      BY <2>1, Flattened
    <2>5. ToSet(Below(tree, p)) = {p} \cup UNION {ToSet(ss[i]) : i \in DOMAIN ss}
      <3>. DEFINE s == <<p>>
                  t == FlattenSeq(ss)
      <3>1. s \in Seq(Places) /\ t \in Seq(Places) /\ Below(tree, p) = s \o t /\ ToSet(s) = {p}
        BY <2>1, <2>3, <2>4
      <3>. HIDE DEF s, t
      <3>2. ToSet(Below(tree, p)) = {p} \cup ToSet(t)
        BY <3>1, ConcatElements
      <3>. QED BY <2>4, <3>2 DEF t
    <2>6. IsOnce(tree, Below(tree, p)) => IsOnce(tree, FlattenSeq(ss))
      BY <2>1, <2>3, <2>4, OnceSplits
    <2>7. ASSUME NEW i \in DOMAIN ss, NEW x \in ToSet(ss[i]) PROVE Holds(p, x)
      <3>. DEFINE c == tree.kids[p][i]
      <3>1. c \in P /\ ss[i] = Below(tree, c)
        BY <1>1, <1>2, <2>2
      <3>. HIDE DEF c
      <3>2. Holds(c, x)
        BY <2>7, <3>1
      <3>3. ToSet(Below(tree, c)) \subseteq ToSet(Below(tree, p))
        BY <2>5, <3>1
      <3>4. IsOnce(tree, Below(tree, p)) => IsOnce(tree, Below(tree, c))
        BY <2>1, <2>6, <3>1, OncePart
      <3>. QED BY <3>2, <3>3, <3>4
    <2>8. Holds(p, p)
      BY <1>1
    <2>. HIDE DEF Holds
    <2>9. \A x \in ToSet(Below(tree, p)) : Holds(p, x)
      BY <2>5, <2>7, <2>8
    <2>. QED BY <2>9
  <1>3. \A p \in 1..m : p \in P
    <2>. HIDE DEF P
    <2>. QED BY <1>2, Descent
  <1>4. Holds(r, q)
    <2>. HIDE DEF Holds
    <2>. QED BY <1>1, <1>3
  <1>. QED BY <1>4

-----------------------------------------------------------------------------
(* Progress: what is counted.                                               *)

\* What progressInSubtree may return.
Counts == [total : Nat, opened : Nat]

\* Counts are added one by one.
LEMMA AddFolds ==
  ASSUME NEW A, NEW B, NEW seq \in Seq(B), NEW base \in A,
         \A a \in A, b \in B : Added(a, b) \in A
  PROVE  \E g : /\ IsFold(g, Added, A, base, seq)
                /\ FoldLeft(Added, base, seq) = g[Len(seq)]
  <1>. DEFINE n == Len(seq)
              Op(a, b) == Added(a, b)
              G == [q \in A \X (1..n) |-> Op(q[1], seq[q[2]])]
              IsIter(it) == it = [t \in SUBSET DOMAIN seq |->
                 IF t = {} THEN base ELSE Op(it[t \ {Max(t)}], seq[Max(t)])]
              it == CHOOSE it : IsIter(it)
  <1>1. /\ \A a \in A, b \in B : Op(a, b) \in A
        /\ FoldLeft(Added, base, seq) = it[DOMAIN seq]
    BY DEF FoldLeft, MapThenFoldSet
  <1>. HIDE DEF Op
  <1>2. /\ n \in Nat /\ DOMAIN seq = 1..n /\ G \in [A \X (1..n) -> A]
        /\ \A a \in A, k \in 1..n : G[<<a, k>>] = Op(a, seq[k])
    <2>1. n \in Nat /\ DOMAIN seq = 1..n /\ \A k \in 1..n : seq[k] \in B
      OBVIOUS
    <2>. HIDE DEF n
    <2>. QED BY <1>1, <2>1
  <1>. HIDE DEF n, G
  <1>3. \A t \in SUBSET (1..n) : t # {} => Max(t) \in 1..n /\ t \ {Max(t)} \in SUBSET (1..n)
    BY <1>2, MaxOf
  <1>4. IsIter(it)
    <2>1. PICK jt : IsIteration(jt, n, A, base, G)
      BY <1>2, IterationExists
    <2>2. IsIter(jt)
      BY <1>2, <1>3, <2>1 DEF IsIteration
    <2>. HIDE DEF IsIter
    <2>. QED BY <2>2
  <1>. HIDE DEF it
  <1>5. Iterates(it, n, A, base, G)
    BY <1>2, <1>3, <1>4 DEF Iterates
  <1>. HIDE DEF IsIter
  <1>6. PICK g : IsRecursion(g, n, A, base, G) /\ g[n] = Final(it, n)
    <2>1. n \in Nat /\ G \in [A \X (1..n) -> A] /\ base \in A
      BY <1>2
    <2>. QED BY <2>1, <1>5, IterationTurns
  <1>7. \A k \in 1..n : g[k - 1] \in A
    BY <1>2, <1>6, Indices DEF IsRecursion
  <1>8. IsFold(g, Added, A, base, seq)
    BY <1>2, <1>6, <1>7 DEF IsRecursion, IsFold, n, Op
  <1>. QED BY <1>1, <1>2, <1>6, <1>8 DEF n, Final

\* The counts of a place's own subtopics.
ProgressKids(tree, ids, p) == [i \in DOMAIN tree.kids[p] |-> Progress(tree, ids, tree.kids[p][i])]

\* What is counted at and under a place, by what is counted under each.
Counted(tree, ids, count, p) ==
    FoldLeft(Added, Own(tree, ids, p), [i \in DOMAIN tree.kids[p] |-> count[tree.kids[p][i]]])

\* A subtopic alone counts for one, and the sum of counts is one.
LEMMA CountTypes ==
  ASSUME NEW tree, NEW ids, NEW p
  PROVE  Own(tree, ids, p) \in Counts /\ \A c, d \in Counts : Added(c, d) \in Counts
  <1>1. ASSUME NEW c \in Counts, NEW d \in Counts PROVE Added(c, d) \in Counts
    <2>1. c.total \in Nat /\ c.opened \in Nat /\ d.total \in Nat /\ d.opened \in Nat
      BY DEF Counts
    <2>2. c.total + d.total \in Nat /\ c.opened + d.opened \in Nat
      BY <2>1
    <2>. QED BY <2>2 DEF Counts, Added
  <1>2. Own(tree, ids, p) \in Counts
    BY DEF Own, Counts
  <1>. QED BY <1>1, <1>2

\* One step of Progress, with what it needs of the places under it.
LEMMA CountedType ==
  ASSUME NEW tree, NEW ids, NEW p \in Places, tree.kids[p] \in Seq(Places), NEW count,
         \A i \in DOMAIN tree.kids[p] : count[tree.kids[p][i]] \in Counts
  PROVE  Counted(tree, ids, count, p) \in Counts
  <1>. DEFINE seq == [i \in DOMAIN tree.kids[p] |-> count[tree.kids[p][i]]]
  <1>1. /\ seq = [i \in DOMAIN tree.kids[p] |-> seq[i]]
        /\ \A i \in DOMAIN tree.kids[p] : seq[i] \in Counts
    OBVIOUS
  <1>2. Counted(tree, ids, count, p) = FoldLeft(Added, Own(tree, ids, p), seq)
    BY DEF Counted
  <1>. HIDE DEF seq
  <1>3. seq \in Seq(Counts)
    BY <1>1, ListType
  <1>4. PICK g : /\ IsFold(g, Added, Counts, Own(tree, ids, p), seq)
                 /\ FoldLeft(Added, Own(tree, ids, p), seq) = g[Len(seq)]
    BY <1>3, CountTypes, AddFolds
  <1>5. Len(seq) \in 0..Len(seq)
    BY <1>3
  <1>. QED BY <1>2, <1>4, <1>5 DEF IsFold

\* Progress adds up a subtopic and those under it.
LEMMA ProgressSteps ==
  ASSUME NEW tree, IsTree(tree), NEW ids
  PROVE  \A p \in Places :
           /\ Progress(tree, ids, p) \in Counts
           /\ ProgressKids(tree, ids, p) \in Seq(Counts)
           /\ Progress(tree, ids, p)
                = FoldLeft(Added, Own(tree, ids, p), ProgressKids(tree, ids, p))
  <1>. DEFINE IsCount(f) == f = [q \in Places |->
                 FoldLeft(Added, Own(tree, ids, q),
                          [i \in DOMAIN tree.kids[q] |-> f[tree.kids[q][i]]])]
              count == CHOOSE f : IsCount(f)
  <1>1. \A p : Progress(tree, ids, p) = count[p]
    BY DEF Progress
  <1>2. PICK m \in Nat : /\ Places = 1..m
                         /\ \A p \in Places : /\ tree.kids[p] \in Seq(Places)
                                              /\ \A i \in DOMAIN tree.kids[p] :
                                                   tree.kids[p][i] \in Places /\ p < tree.kids[p][i]
    BY TreePlaces
  <1>3. \E f : IsCount(f)
    <2>. DEFINE G == [c \in [1..m -> Counts] \X (1..m) |-> Counted(tree, ids, c[1], c[2])]
    <2>1. ASSUME NEW f \in [1..m -> Counts], NEW p \in 1..m
          PROVE  Counted(tree, ids, f, p) \in Counts
      <3>1. \A i \in DOMAIN tree.kids[p] : f[tree.kids[p][i]] \in Counts
        BY <1>2
      <3>. QED BY <1>2, <3>1, CountedType
    <2>2. G \in [[1..m -> Counts] \X (1..m) -> Counts]
      BY <2>1
    <2>3. \A f \in [1..m -> Counts], p \in 1..m : G[<<f, p>>] = Counted(tree, ids, f, p)
      OBVIOUS
    <2>4. ASSUME NEW f \in [1..m -> Counts], NEW g \in [1..m -> Counts], NEW p \in 1..m,
                 \A c \in 1..m : p < c => f[c] = g[c]
          PROVE  G[<<f, p>>] = G[<<g, p>>]
      <3>1. \A i \in DOMAIN tree.kids[p] : f[tree.kids[p][i]] = g[tree.kids[p][i]]
        BY <1>2, <2>4
      <3>2. [i \in DOMAIN tree.kids[p] |-> f[tree.kids[p][i]]]
              = [i \in DOMAIN tree.kids[p] |-> g[tree.kids[p][i]]]
        BY <3>1
      <3>3. Counted(tree, ids, f, p) = Counted(tree, ids, g, p)
        BY <3>2, Zenon DEF Counted
      <3>. HIDE DEF G
      <3>. QED BY <2>3, <3>3
    <2>5. [total |-> 0, opened |-> 0] \in Counts
      BY DEF Counts
    <2>. HIDE DEF G
    <2>6. PICK f : IsDescent(f, m, Counts, G)
      BY <2>2, <2>4, <2>5, DescentExists
    <2>7. f \in [1..m -> Counts] /\ \A p \in 1..m : f[p] = Counted(tree, ids, f, p)
      BY <2>3, <2>6 DEF IsDescent
    <2>8. f = [q \in Places |-> Counted(tree, ids, f, q)]
      BY <1>2, <2>7
    <2>9. IsCount(f)
      BY <2>8, Zenon DEF Counted
    <2>. QED BY <2>9
  <1>4. IsCount(count)
    <2>. HIDE DEF IsCount
    <2>. QED BY <1>3
  <1>5. \A p \in Places : count[p] = Counted(tree, ids, count, p)
    <2>. HIDE DEF count
    <2>1. count = [q \in Places |-> Counted(tree, ids, count, q)]
      BY <1>4, Zenon DEF Counted
    <2>. QED BY <2>1
  <1>. HIDE DEF count, IsCount
  <1>6. \A p \in 1..m : p \in {q \in 1..m : count[q] \in Counts}
    <2>. DEFINE P == {q \in 1..m : count[q] \in Counts}
    <2>1. ASSUME NEW p \in 1..m, \A c \in 1..m : p < c => c \in P PROVE p \in P
      <3>1. \A i \in DOMAIN tree.kids[p] : count[tree.kids[p][i]] \in Counts
        BY <1>2, <2>1
      <3>2. Counted(tree, ids, count, p) \in Counts
        BY <1>2, <3>1, CountedType
      <3>. QED BY <1>2, <1>5, <3>2
    <2>. HIDE DEF P
    <2>2. \A p \in 1..m : p \in P
      BY <2>1, Descent
    <2>. QED BY <2>2 DEF P
  <1>7. ASSUME NEW p \in Places
        PROVE  /\ Progress(tree, ids, p) \in Counts
               /\ ProgressKids(tree, ids, p) \in Seq(Counts)
               /\ Progress(tree, ids, p)
                    = FoldLeft(Added, Own(tree, ids, p), ProgressKids(tree, ids, p))
    <2>1. Progress(tree, ids, p) \in Counts
      BY <1>1, <1>2, <1>6
    <2>2. ProgressKids(tree, ids, p) = [i \in DOMAIN tree.kids[p] |-> count[tree.kids[p][i]]]
      BY <1>1 DEF ProgressKids
    <2>3. \A i \in DOMAIN tree.kids[p] : count[tree.kids[p][i]] \in Counts
      BY <1>2, <1>6
    <2>4. ProgressKids(tree, ids, p) \in Seq(Counts)
      <3>1. /\ ProgressKids(tree, ids, p)
                 = [i \in DOMAIN tree.kids[p] |-> ProgressKids(tree, ids, p)[i]]
            /\ \A i \in DOMAIN tree.kids[p] : ProgressKids(tree, ids, p)[i] \in Counts
        BY <2>2, <2>3
      <3>. QED BY <1>2, <3>1, ListType
    <2>5. Progress(tree, ids, p) = FoldLeft(Added, Own(tree, ids, p), ProgressKids(tree, ids, p))
      BY <1>1, <1>5, <2>2, Zenon DEF Counted
    <2>. QED BY <2>1, <2>4, <2>5
  <1>. QED BY <1>7

\* c counts the ids of S, and those of them that are in O.
IsCountOf(c, S, O) ==
    IsFiniteSet(S) /\ c.total = Cardinality(S) /\ c.opened = Cardinality(S \cap O)

\* Sets that share nothing are counted one after the other.
LEMMA DisjointCount ==
  ASSUME NEW S, IsFiniteSet(S), NEW T, IsFiniteSet(T), S \cap T = {}
  PROVE  IsFiniteSet(S \cup T) /\ Cardinality(S \cup T) = Cardinality(S) + Cardinality(T)
  <1>1. /\ IsFiniteSet(S \cup T)
        /\ Cardinality(S \cup T) = Cardinality(S) + Cardinality(T) - Cardinality(S \cap T)
    BY FS_Union
  <1>2. Cardinality(S \cap T) = 0
    BY FS_EmptySet
  <1>3. Cardinality(S) \in Nat /\ Cardinality(T) \in Nat
    BY FS_CardinalityType
  <1>. QED BY <1>1, <1>2, <1>3

\* The ids of a part are among those of the whole, and of both parts are those of either.
LEMMA IdsOf ==
  ASSUME NEW tree
  PROVE  /\ Ids(tree, <<>>) = {}
         /\ \A p \in Places : Ids(tree, <<p>>) = {tree.id[p]}
         /\ \A s, t \in Seq(Places) : Ids(tree, s \o t) = Ids(tree, s) \cup Ids(tree, t)
         /\ \A ss \in Seq(Seq(Places)) : \A k \in DOMAIN ss :
              Ids(tree, ss[k]) \subseteq Ids(tree, FlattenSeq(ss))
  <1>1. ToSet(<<>>) = {} /\ \A p \in Places : ToSet(<<p>>) = {p}
    BY DEF ToSet
  <1>2. ASSUME NEW s \in Seq(Places), NEW t \in Seq(Places)
        PROVE  Ids(tree, s \o t) = Ids(tree, s) \cup Ids(tree, t)
    <2>1. ToSet(s \o t) = ToSet(s) \cup ToSet(t)
      BY ConcatElements
    <2>. QED BY <2>1 DEF Ids
  <1>3. ASSUME NEW ss \in Seq(Seq(Places)), NEW k \in DOMAIN ss
        PROVE  Ids(tree, ss[k]) \subseteq Ids(tree, FlattenSeq(ss))
    <2>1. ToSet(FlattenSeq(ss)) = UNION {ToSet(ss[i]) : i \in DOMAIN ss}
      BY Flattened
    <2>. QED BY <2>1 DEF Ids
  <1>4. Ids(tree, <<>>) = {} /\ \A p \in Places : Ids(tree, <<p>>) = {tree.id[p]}
    BY <1>1 DEF Ids
  <1>. QED BY <1>2, <1>3, <1>4

\* A subtopic alone is counted exactly.
LEMMA OwnIsExact ==
  ASSUME NEW tree, NEW O, NEW p
  PROVE  IsCountOf(Own(tree, O, p), {tree.id[p]}, O)
  <1>. DEFINE S == {tree.id[p]}
  <1>1. IsFiniteSet(S) /\ Cardinality(S) = 1
    BY FS_Singleton
  <1>2. CASE tree.id[p] \in O
    <2>1. S \cap O = S
      BY <1>2
    <2>. QED BY <1>1, <1>2, <2>1 DEF Own, IsCountOf
  <1>3. CASE tree.id[p] \notin O
    <2>1. S \cap O = {} /\ Cardinality({}) = 0
      BY <1>3, FS_EmptySet
    <2>. QED BY <1>1, <1>3, <2>1 DEF Own, IsCountOf
  <1>. QED BY <1>2, <1>3

\* The sum of two counts counts what they count, if they count nothing twice.
LEMMA SumIsExact ==
  ASSUME NEW O, NEW S, NEW T, S \cap T = {}, NEW c, NEW d, IsCountOf(c, S, O), IsCountOf(d, T, O)
  PROVE  IsCountOf(Added(c, d), S \cup T, O)
  <1>1. IsFiniteSet(S \cup T) /\ Cardinality(S \cup T) = Cardinality(S) + Cardinality(T)
    BY DisjointCount DEF IsCountOf
  <1>2. Cardinality((S \cup T) \cap O) = Cardinality(S \cap O) + Cardinality(T \cap O)
    <2>1. IsFiniteSet(S \cap O) /\ IsFiniteSet(T \cap O)
      BY FS_Subset DEF IsCountOf
    <2>2. (S \cap O) \cap (T \cap O) = {} /\ (S \cup T) \cap O = (S \cap O) \cup (T \cap O)
      OBVIOUS
    <2>. QED BY <2>1, <2>2, DisjointCount
  <1>. QED BY <1>1, <1>2 DEF IsCountOf, Added

\* Progress counts exactly what lies at and under a place, for no id is repeated there.
LEMMA ProgressCounts ==
  ASSUME NEW tree, IsTree(tree), NEW O, NEW r \in Places, IsOnce(tree, Below(tree, r))
  PROVE  IsCountOf(Progress(tree, O, r), Ids(tree, Below(tree, r)), O)
  <1>. DEFINE Exact(p) == IsCountOf(Progress(tree, O, p), Ids(tree, Below(tree, p)), O)
  <1>1. PICK m \in Nat : /\ Places = 1..m
                         /\ \A p \in Places : /\ tree.kids[p] \in Seq(Places)
                                              /\ \A i \in DOMAIN tree.kids[p] :
                                                   tree.kids[p][i] \in Places /\ p < tree.kids[p][i]
    BY TreePlaces
  <1>. DEFINE P == {p \in 1..m : IsOnce(tree, Below(tree, p)) => Exact(p)}
  <1>2. ASSUME NEW p \in 1..m, \A c \in 1..m : p < c => c \in P PROVE p \in P
    <2>. SUFFICES ASSUME IsOnce(tree, Below(tree, p)) PROVE Exact(p)
      OBVIOUS
    <2>. DEFINE ss == BelowKids(tree, p)
                cs == ProgressKids(tree, O, p)
                n == Len(ss)
    <2>1. /\ p \in Places /\ Below(tree, p) \in Seq(Places) /\ ss \in Seq(Seq(Places))
          /\ Below(tree, p) = <<p>> \o FlattenSeq(ss)
      BY <1>1, BelowSteps
    <2>2. /\ cs \in Seq(Counts)
          /\ Progress(tree, O, p) = FoldLeft(Added, Own(tree, O, p), cs)
      BY <1>1, ProgressSteps
    <2>3. /\ n \in Nat /\ DOMAIN ss = 1..n
          /\ DOMAIN tree.kids[p] = DOMAIN ss /\ DOMAIN cs = DOMAIN ss /\ Len(cs) = n
      <3>1. DOMAIN tree.kids[p] = DOMAIN ss /\ DOMAIN cs = DOMAIN tree.kids[p]
        BY DEF BelowKids, ProgressKids
      <3>. HIDE DEF ss, cs
      <3>2. n \in Nat /\ DOMAIN ss = 1..n
        BY <2>1
      <3>3. Len(cs) \in Nat /\ DOMAIN cs = 1..Len(cs)
        BY <2>2
      <3>. QED BY <3>1, <3>2, <3>3
    <2>4. ASSUME NEW k \in 1..n, IsOnce(tree, ss[k])
          PROVE  IsCountOf(cs[k], Ids(tree, ss[k]), O)
      <3>1. k \in DOMAIN tree.kids[p]
        BY <2>3
      <3>2. ss[k] = Below(tree, tree.kids[p][k]) /\ cs[k] = Progress(tree, O, tree.kids[p][k])
        BY <3>1 DEF BelowKids, ProgressKids
      <3>3. tree.kids[p][k] \in P
        BY <1>1, <1>2, <3>1
      <3>. QED BY <2>4, <3>2, <3>3
    <2>. HIDE DEF ss, cs, n, Exact
    <2>5. <<p>> \in Seq(Places) /\ FlattenSeq(ss) \in Seq(Places) /\ Ids(tree, <<p>>) = {tree.id[p]}
      BY <2>1, Flattened, IdsOf
    <2>6. IsOnce(tree, FlattenSeq(ss)) /\ tree.id[p] \notin Ids(tree, FlattenSeq(ss))
      BY <2>1, <2>5, OnceSplits
    <2>7. PICK f : IsFlattening(f, ss)
      BY <2>1, Flattens
    <2>8. PICK g : /\ IsFold(g, Added, Counts, Own(tree, O, p), cs)
                   /\ FoldLeft(Added, Own(tree, O, p), cs) = g[Len(cs)]
      BY <2>2, CountTypes, AddFolds
    <2>. DEFINE I(k) == {tree.id[p]} \cup Ids(tree, f[k])
                Q == {k \in 0..n : IsCountOf(g[k], I(k), O)}
    <2>9. 0 \in Q
      <3>1. f[0] = <<>> /\ g[0] = Own(tree, O, p)
        BY <2>7, <2>8 DEF IsFlattening, IsFold
      <3>2. I(0) = {tree.id[p]}
        BY <3>1, IdsOf
      <3>3. IsCountOf(g[0], I(0), O)
        BY <3>1, <3>2, OwnIsExact
      <3>. HIDE DEF I
      <3>. QED BY <2>3, <3>3, Indices
    <2>10. ASSUME NEW k \in 1..n, k - 1 \in Q PROVE k \in Q
      <3>. DEFINE J == Ids(tree, ss[k])
                  A == I(k - 1)
      <3>1. /\ f[k] = f[k - 1] \o ss[k] /\ f[k - 1] \in Seq(Places)
            /\ g[k] = Added(g[k - 1], cs[k])
        <4>1. k \in 1..Len(ss) /\ k - 1 \in 0..Len(ss)
          BY <2>3, Indices DEF n
        <4>2. k \in 1..Len(cs)
          BY <2>3
        <4>. QED BY <2>7, <2>8, <4>1, <4>2 DEF IsFlattening, IsFold
      <3>2. ss[k] \in Seq(Places) /\ k \in DOMAIN ss
        BY <2>1, <2>3
      <3>3. I(k) = A \cup J
        BY <3>1, <3>2, IdsOf
      <3>4. IsOnce(tree, ss[k]) /\ Ids(tree, f[k - 1]) \cap J = {}
        BY <2>1, <2>6, <2>7, OnceInTurn DEF n
      <3>5. J \subseteq Ids(tree, FlattenSeq(ss))
        BY <2>1, <3>2, IdsOf
      <3>6. A \cap J = {}
        BY <2>6, <3>4, <3>5
      <3>7. IsCountOf(cs[k], J, O) /\ IsCountOf(g[k - 1], A, O)
        BY <2>4, <2>10, <3>4
      <3>. HIDE DEF A, J, I
      <3>8. IsCountOf(g[k], I(k), O)
        BY <3>1, <3>3, <3>6, <3>7, SumIsExact
      <3>. QED BY <2>3, <3>8, Indices
    <2>11. \A k \in 0..n : k \in Q
      <3>. HIDE DEF Q
      <3>. QED BY <2>3, <2>9, <2>10, UpTo
    <2>12. IsCountOf(g[n], I(n), O) /\ Progress(tree, O, p) = g[n]
      <3>1. n \in Q
        BY <2>3, <2>11, Indices
      <3>. HIDE DEF I
      <3>. QED BY <2>2, <2>3, <2>8, <3>1
    <2>13. I(n) = Ids(tree, Below(tree, p))
      <3>1. f[n] = FlattenSeq(ss)
        BY <2>7 DEF IsFlattening, n
      <3>2. Ids(tree, Below(tree, p)) = Ids(tree, <<p>>) \cup Ids(tree, FlattenSeq(ss))
        <4>. DEFINE s == <<p>>
                    t == FlattenSeq(ss)
        <4>1. s \in Seq(Places) /\ t \in Seq(Places) /\ Below(tree, p) = s \o t
          BY <2>1, <2>5
        <4>. HIDE DEF s, t
        <4>2. \A x, y \in Seq(Places) : Ids(tree, x \o y) = Ids(tree, x) \cup Ids(tree, y)
          BY IdsOf
        <4>3. Ids(tree, s \o t) = Ids(tree, s) \cup Ids(tree, t)
          BY <4>1, <4>2
        <4>. QED BY <4>1, <4>3 DEF s, t
      <3>. QED BY <2>5, <3>1, <3>2
    <2>. HIDE DEF I
    <2>. QED BY <2>12, <2>13 DEF Exact
  <1>3. \A p \in 1..m : p \in P
    <2>. HIDE DEF P
    <2>. QED BY <1>2, Descent
  <1>4. Exact(r)
    <2>. HIDE DEF Exact
    <2>. QED BY <1>1, <1>3
  <1>. QED BY <1>4

-----------------------------------------------------------------------------
(* Progress: what is told of a count.                                       *)

\* What is said of a count: whether all of S is in O, some of it or none.
LEMMA StateOf ==
  ASSUME NEW c, NEW S, S # {}, NEW O, IsCountOf(c, S, O)
  PROVE  /\ c.total \in Nat \ {0} /\ c.opened \in Nat /\ c.opened <= c.total
         /\ S \subseteq O => ProgressState(c) = "visited"
         /\ S \cap O = {} => ProgressState(c) = "unvisited"
         /\ ~ (S \subseteq O) /\ S \cap O # {} => ProgressState(c) = "partial"
  <1>. DEFINE T == S \cap O
  <1>1. /\ IsFiniteSet(S) /\ c.total = Cardinality(S) /\ c.opened = Cardinality(T)
        /\ T \subseteq S
    BY DEF IsCountOf
  <1>2. (S \subseteq O <=> T = S) /\ (S \cap O = {} <=> T = {})
    OBVIOUS
  <1>. HIDE DEF T
  <1>3. /\ IsFiniteSet(T) /\ Cardinality(T) <= Cardinality(S)
        /\ Cardinality(T) = Cardinality(S) => T = S
    BY <1>1, FS_Subset
  <1>4. Cardinality(S) \in Nat /\ Cardinality(T) \in Nat
    BY <1>1, <1>3, FS_CardinalityType
  <1>5. Cardinality(S) # 0 /\ (Cardinality(T) = 0 <=> T = {})
    BY <1>1, <1>3, FS_EmptySet
  <1>6. c.total \in Nat \ {0} /\ c.opened \in Nat /\ c.opened <= c.total
    BY <1>1, <1>3, <1>4, <1>5
  <1>7. (c.opened = c.total <=> T = S) /\ (c.opened > 0 <=> T # {}) /\ c.total > 0
    BY <1>1, <1>3, <1>4, <1>5
  <1>8. T = S => ProgressState(c) = "visited"
    BY <1>7 DEF ProgressState
  <1>9. T # S /\ T # {} => ProgressState(c) = "partial"
    BY <1>7 DEF ProgressState
  <1>10. T = {} => ProgressState(c) = "unvisited"
    BY <1>7 DEF ProgressState
  <1>. QED BY <1>2, <1>6, <1>8, <1>9, <1>10

\* What lies below a place of a tree without repeated ids.
LEMMA BelowInTree ==
  ASSUME NEW tree, IsTree(tree), IdsAreUnique(tree), NEW q \in ToSet(PreOrder(tree))
  PROVE  /\ q \in Places /\ IsOnce(tree, Below(tree, q)) /\ Ids(tree, Below(tree, q)) # {}
         /\ \A p \in ToSet(PreOrder(tree)) :
              p \notin ToSet(Below(tree, q)) => tree.id[p] \notin Ids(tree, Below(tree, q))
  <1>. DEFINE rs == [i \in DOMAIN tree.roots |-> Below(tree, tree.roots[i])]
              order == PreOrder(tree)
  <1>1. /\ tree.roots \in Seq(Places)
        /\ \A i \in DOMAIN tree.roots : tree.roots[i] \in Places
    BY DEF IsTree
  <1>2. order = FlattenSeq(rs)
    BY DEF PreOrder
  <1>3. /\ rs = [i \in DOMAIN tree.roots |-> rs[i]] /\ DOMAIN rs = DOMAIN tree.roots
        /\ \A i \in DOMAIN tree.roots :
             rs[i] = Below(tree, tree.roots[i]) /\ rs[i] \in Seq(Places)
    BY <1>1, BelowSteps
  <1>. HIDE DEF rs, order
  <1>4. rs \in Seq(Seq(Places))
    BY <1>1, <1>3, ListType
  <1>5. ToSet(order) = UNION {ToSet(rs[i]) : i \in DOMAIN rs}
    BY <1>2, <1>4, Flattened
  <1>6. IsOnce(tree, order)
    BY DEF IdsAreUnique, IsOnce, order
  <1>7. PICK i \in DOMAIN tree.roots : q \in ToSet(rs[i])
    BY <1>3, <1>5 DEF order
  <1>. DEFINE r == tree.roots[i]
  <1>8. r \in Places /\ rs[i] = Below(tree, r) /\ q \in ToSet(Below(tree, r))
    BY <1>1, <1>3, <1>7
  <1>. HIDE DEF r
  <1>9. IsOnce(tree, Below(tree, r))
    BY <1>2, <1>3, <1>4, <1>6, <1>8, OncePart
  <1>10. /\ q \in Places /\ IsOnce(tree, Below(tree, q))
         /\ ToSet(Below(tree, q)) \subseteq ToSet(Below(tree, r))
    BY <1>8, <1>9, BelowOnce
  <1>11. ToSet(Below(tree, q)) \subseteq ToSet(order)
    BY <1>3, <1>5, <1>8, <1>10
  <1>12. Ids(tree, Below(tree, q)) # {}
    <2>1. /\ BelowKids(tree, q) \in Seq(Seq(Places))
          /\ Below(tree, q) = <<q>> \o FlattenSeq(BelowKids(tree, q))
      BY <1>10, BelowSteps
    <2>. DEFINE s == <<q>>
                t == FlattenSeq(BelowKids(tree, q))
    <2>2. s \in Seq(Places) /\ t \in Seq(Places) /\ q \in ToSet(s) /\ Below(tree, q) = s \o t
      BY <1>10, <2>1, Flattened DEF ToSet
    <2>. HIDE DEF s, t
    <2>3. q \in ToSet(Below(tree, q))
      BY <2>2, ConcatElements
    <2>. QED BY <2>3 DEF Ids
  <1>13. ASSUME NEW p \in ToSet(order), NEW x \in ToSet(order), tree.id[p] = tree.id[x]
         PROVE  p = x
    <2>1. PICK a \in DOMAIN order, b \in DOMAIN order : order[a] = p /\ order[b] = x
      BY DEF ToSet
    <2>. QED BY <1>6, <1>13, <2>1 DEF IsOnce
  <1>14. ASSUME NEW p \in ToSet(order), p \notin ToSet(Below(tree, q))
         PROVE  tree.id[p] \notin Ids(tree, Below(tree, q))
    BY <1>11, <1>13, <1>14 DEF Ids
  <1>. QED BY <1>10, <1>12, <1>14 DEF order

\* A count says of the ids what is in O, and the page what it would be with one more.
IsTold(tree, O, q, ids, count) ==
    /\ count.total = Cardinality(ids)
    /\ ids # {}
    /\ ids \subseteq O => ProgressState(count) = "visited"
    /\ ids \cap O = {} => ProgressState(count) = "unvisited"
    /\ ~ (ids \subseteq O) /\ ids \cap O # {} => ProgressState(count) = "partial"
    /\ \A p \in ToSet(PreOrder(tree)) :
         Reflected(tree, O, p, q) = ProgressState(Progress(tree, O \cup {tree.id[p]}, q))

\* What the router tells of a subtopic, and what the page makes of it when
\* another is opened.
LEMMA TreeIsExact ==
  ASSUME NEW tree, IsTree(tree), IdsAreUnique(tree), NEW O, NEW q \in ToSet(PreOrder(tree))
  PROVE  IsTold(tree, O, q, Ids(tree, Below(tree, q)), Progress(tree, O, q))
  <1>. DEFINE ids == Ids(tree, Below(tree, q))
              count == Progress(tree, O, q)
  <1>1. /\ q \in Places /\ IsOnce(tree, Below(tree, q)) /\ ids # {}
        /\ \A p \in ToSet(PreOrder(tree)) :
             p \notin ToSet(Below(tree, q)) => tree.id[p] \notin ids
    BY BelowInTree
  <1>2. \A V : IsCountOf(Progress(tree, V, q), ids, V)
    BY <1>1, ProgressCounts
  <1>3. IsCountOf(count, ids, O)
    BY <1>2
  <1>. HIDE DEF ids, count
  <1>4. /\ count.total = Cardinality(ids) /\ IsFiniteSet(ids)
        /\ count.opened = Cardinality(ids \cap O)
    BY <1>3 DEF IsCountOf
  <1>5. ASSUME NEW p \in ToSet(PreOrder(tree))
        PROVE  Reflected(tree, O, p, q) = ProgressState(Progress(tree, O \cup {tree.id[p]}, q))
    <2>. DEFINE x == tree.id[p]
                V == O \cup {x}
                new == Progress(tree, V, q)
    <2>1. IsCountOf(new, ids, V)
      BY <1>2
    <2>2. CASE x \in O
      <3>1. V = O
        BY <2>2
      <3>. QED BY <2>2, <3>1 DEF Reflected, count
    <2>3. CASE x \notin O /\ p \notin ToSet(Below(tree, q))
      <3>1. x \notin ids
        BY <1>1, <2>3
      <3>2. ids \cap V = ids \cap O
        BY <3>1
      <3>. HIDE DEF new, V, x
      <3>3. new.total = count.total /\ new.opened = count.opened
        BY <1>3, <2>1, <3>2 DEF IsCountOf
      <3>4. ProgressState(new) = ProgressState(count)
        BY <3>3 DEF ProgressState
      <3>. QED BY <2>3, <3>4 DEF Reflected, count, new, V, x
    <2>4. CASE x \notin O /\ p \in ToSet(Below(tree, q))
      <3>1. x \in ids
        BY <2>4 DEF Ids, ids
      <3>2. ids \cap V = (ids \cap O) \cup {x} /\ x \notin ids \cap O
        BY <2>4, <3>1
      <3>. HIDE DEF new, V, x
      <3>3. new.total = count.total /\ new.opened = count.opened + 1
        <4>1. IsFiniteSet(ids \cap O)
          BY <1>4, FS_Subset
        <4>2. Cardinality((ids \cap O) \cup {x}) = Cardinality(ids \cap O) + 1
          BY <3>2, <4>1, FS_AddElement
        <4>. QED BY <1>4, <2>1, <3>2, <4>2 DEF IsCountOf
      <3>4. /\ count.total \in Nat \ {0} /\ count.opened \in Nat
            /\ new.opened <= new.total
        BY <1>1, <1>3, <2>1, StateOf
      <3>5. ProgressState(new)
              = IF count.opened + 1 >= count.total THEN "visited" ELSE "partial"
        BY <3>3, <3>4 DEF ProgressState
      <3>. QED BY <2>4, <3>5 DEF Reflected, count, new, V, x
    <2>. QED BY <2>2, <2>3, <2>4
  <1>6. /\ ids \subseteq O => ProgressState(count) = "visited"
        /\ ids \cap O = {} => ProgressState(count) = "unvisited"
        /\ ~ (ids \subseteq O) /\ ids \cap O # {} => ProgressState(count) = "partial"
    BY <1>1, <1>3, StateOf
  <1>. QED BY <1>1, <1>4, <1>5, <1>6 DEF IsTold, ids, count

\* A node without a tree has no subtopics.
LEMMA NoTreeIsEmpty ==
  ToSet(PreOrder(NoTree)) = {}
  <1>. DEFINE rs == [i \in DOMAIN NoTree.roots |-> Below(NoTree, NoTree.roots[i])]
  <1>1. NoTree.roots = <<>> /\ NoTree.roots \in Seq(Places)
    BY DEF NoTree
  <1>2. DOMAIN NoTree.roots = {}
    BY <1>1
  <1>3. rs = [i \in DOMAIN NoTree.roots |-> rs[i]] /\ PreOrder(NoTree) = FlattenSeq(rs)
    BY DEF PreOrder
  <1>. HIDE DEF rs
  <1>4. rs \in Seq(Seq(Places)) /\ DOMAIN rs = {}
    BY <1>1, <1>2, <1>3, ListType
  <1>5. ToSet(FlattenSeq(rs)) = UNION {ToSet(rs[i]) : i \in DOMAIN rs}
    BY <1>4, Flattened
  <1>. QED BY <1>3, <1>4, <1>5

\* The tree of a registered node passed Validate, if there is one.
LEMMA RegisteredTree ==
  ASSUME IInv, NEW n \in registered
  PROVE  \/ file.seed[n].tree = NoTree
         \/ IsTree(file.seed[n].tree) /\ IdsAreUnique(file.seed[n].tree)
  <1>1. n \in Interactive /\ file \in Cases /\ MayBePut(file.seed[n], file.a11y)
    BY DEF IInv, TypeOK, RegisteredIsValid
  <1>2. file.seed[n].tree # NoTree => IsTree(file.seed[n].tree)
    BY <1>1, TutorCases
  <1>3. file.seed[n].tree # NoTree => IsValidTree(file.seed[n].tree)
    BY <1>1 DEF MayBePut, IsValid
  <1>. QED BY <1>2, <1>3 DEF IsValidTree

\* What is told of the subtopic of q, as ProgressIsExact says it.
TellsExactly(tree, O, q, ids, count) ==
    /\ count.total = Cardinality(ids)
    /\ ProgressState(count) = CASE ids \subseteq O -> "visited"
                                [] ids \cap O = {} -> "unvisited"
                                [] OTHER           -> "partial"
    /\ \A p \in ToSet(PreOrder(tree)) :
         Reflected(tree, O, p, q) = ProgressState(Progress(tree, O \cup {tree.id[p]}, q))

\* The three cases of a count are the three states it is told as.
LEMMA ToldIsExact ==
  ASSUME NEW tree, NEW O, NEW q, NEW ids, NEW count, IsTold(tree, O, q, ids, count)
  PROVE  TellsExactly(tree, O, q, ids, count)
  <1>1. CASE ids \subseteq O
    <2>1. ids \cap O # {}
      BY <1>1 DEF IsTold
    <2>. QED BY <1>1, <2>1 DEF IsTold, TellsExactly
  <1>2. CASE ids \cap O = {}
    <2>1. ~ (ids \subseteq O)
      BY <1>2 DEF IsTold
    <2>. QED BY <1>2, <2>1 DEF IsTold, TellsExactly
  <1>3. CASE ~ (ids \subseteq O) /\ ids \cap O # {}
    BY <1>3 DEF IsTold, TellsExactly
  <1>. QED BY <1>1, <1>2, <1>3

\* For every subtopic of a registered tree, whatever its shape, the progress
\* told is what the set of opened subtopics below it says, each counted once,
\* and what the page shows of a subtopic just opened is what it would be told
\* (subtopic_progress.go, hierarchy.go Validate, interactions.js).
THEOREM ProgressExact == Spec => []ProgressIsExact
  <1>1. ASSUME IInv, NEW s \in Students, NEW n \in registered, NEW tree,
               tree = file.seed[n].tree, NEW q \in ToSet(PreOrder(tree))
        PROVE  TellsExactly(tree, opened[<<s, n>>], q,
                            {tree.id[r] : r \in ToSet(Below(tree, q))}, SubtopicProgress(s, n, q))
    <2>1. tree # NoTree
      BY <1>1, NoTreeIsEmpty
    <2>2. IsTree(tree) /\ IdsAreUnique(tree)
      BY <1>1, <2>1, RegisteredTree
    <2>. DEFINE O == opened[<<s, n>>]
    <2>3. IsTold(tree, O, q, Ids(tree, Below(tree, q)), Progress(tree, O, q))
      BY <1>1, <2>2, TreeIsExact
    <2>4. SubtopicProgress(s, n, q) = Progress(tree, O, q)
      BY <1>1 DEF SubtopicProgress
    <2>5. TellsExactly(tree, O, q, Ids(tree, Below(tree, q)), Progress(tree, O, q))
      BY <2>3, ToldIsExact
    <2>. QED BY <2>4, <2>5 DEF Ids
  <1>2. IInv => ProgressIsExact
    <2>. SUFFICES ASSUME IInv, NEW s \in Students, NEW n \in registered,
                         NEW q \in ToSet(PreOrder(file.seed[n].tree))
                  PROVE  TellsExactly(file.seed[n].tree, opened[<<s, n>>], q,
                           {file.seed[n].tree.id[r] : r \in ToSet(Below(file.seed[n].tree, q))},
                           SubtopicProgress(s, n, q))
      BY Zenon DEF ProgressIsExact, TellsExactly
    <2>. QED BY <1>1
  <1>. QED BY <1>2, Invariant, PTL

=============================================================================
