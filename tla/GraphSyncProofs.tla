--------------------------- MODULE GraphSyncProofs ---------------------------
(***************************************************************************)
(* Proofs about GraphSync: what readers see of a run, and what a run leaves *)
(* behind, for any files, runs, orders of their transactions and repeated  *)
(* transactions.                                                           *)
(***************************************************************************)
EXTENDS GraphSync, TLAPS

-----------------------------------------------------------------------------
(* What the parts of the state are.                                         *)

LEMMA Constants ==
    /\ FileChoices \subseteq [concepts : SUBSET ConceptIds, edges : SUBSET Edge]
    /\ NoRel \notin Rel
    /\ Never \notin Nat
    /\ HandKeys \subseteq Key
BY GraphSyncConstants

\* The plan of a run, the edges of it, and their keys.
LEMMA Plans ==
    ASSUME TypeOK, NEW r \in Runs
    PROVE  /\ run[r] \in RunRecord
           /\ run[r].plan.concepts \subseteq ConceptIds
           /\ \A e \in run[r].plan.edges :
                e \in Edge /\ e.from \in ConceptIds /\ e.to \in ConceptIds
                  /\ e.kind \in EdgeKind /\ e.strength \in 1..MaxStrength /\ KeyOf(e) \in Key
<1>1. run[r] \in RunRecord
  BY DEF TypeOK
<1>2. run[r].plan \in FileChoices
  BY <1>1 DEF RunRecord
<1>3. run[r].plan \in [concepts : SUBSET ConceptIds, edges : SUBSET Edge]
  BY <1>2, Constants
<1>4. run[r].plan.edges \subseteq Edge
  BY <1>3
<1> QED
  BY <1>1, <1>3, <1>4 DEF Edge, KeyOf, Key

\* A file that loads has the ends of its edges, and one edge for each key.
LEMMA LoadedPlans ==
    ASSUME TypeOK, NEW r \in Runs, Loads(run[r].plan.edges, run[r].plan.concepts)
    PROVE  /\ \A e \in run[r].plan.edges :
                e.from \in run[r].plan.concepts /\ e.to \in run[r].plan.concepts
           /\ \A e, f \in run[r].plan.edges : KeyOf(e) = KeyOf(f) => e = f
<1>1. \A e, f \in run[r].plan.edges : SameEdge(e, f) => e = f
  BY DEF Loads
<1>2. \A e, f \in run[r].plan.edges : KeyOf(e) = KeyOf(f) => SameEdge(e, f)
  BY DEF KeyOf, SameEdge
<1> QED
  BY <1>1, <1>2 DEF Loads

\* Every kind has its turn.
LEMMA KindsInOrder ==
    /\ DOMAIN AllKinds = 1..4
    /\ \A k \in EdgeKind : \E i \in DOMAIN AllKinds : k = AllKinds[i]
<1>1. DOMAIN AllKinds = 1..4
  BY DEF AllKinds, CycleCheckedKinds
<1>2. AllKinds[4] = "alternative"
  BY DEF AllKinds, CycleCheckedKinds
<1>3. /\ AllKinds[1] = "requires" /\ AllKinds[2] = "deepens"
      /\ AllKinds[3] = "continues"
  BY DEF AllKinds, CycleCheckedKinds
<1> QED
  BY <1>1, <1>2, <1>3 DEF EdgeKind

-----------------------------------------------------------------------------
(* What one run's step leaves of the others.                                *)

\* A transaction of run r: the others are no longer alone, and no run's plan
\* or history changes.
LEMMA Committed ==
    ASSUME TypeOK, NEW r \in Runs, NEW after \in RunRecord, Commits(r, after)
    PROVE  /\ run' \in [Runs -> RunRecord]
           /\ run'[r] = after \/ run'[r] = run[r]
           /\ \A q \in Runs \ {r} : run'[q] = [run[q] EXCEPT !.alone = FALSE] /\ ~ run'[q].alone
<1>1. \A q \in Runs : run[q] \in RunRecord
  BY DEF TypeOK
<1>2. PICK next \in {after, run[r]} :
        run' = [q \in Runs |-> IF q = r THEN next ELSE [run[q] EXCEPT !.alone = FALSE]]
  BY DEF Commits
<1>3. \A q \in Runs : [run[q] EXCEPT !.alone = FALSE] \in RunRecord
                      /\ ~ [run[q] EXCEPT !.alone = FALSE].alone
  BY <1>1 DEF RunRecord
<1>4. next \in RunRecord
  BY <1>1, <1>2
<1> QED
  BY <1>2, <1>3, <1>4

\* What the invariant says of one run.
GoodRun(r) ==
    /\ run[r].phase \notin {"idle", "refused", "failed"} =>
         Loads(run[r].plan.edges, run[r].plan.concepts)
    /\ run[r].alone => IsOnItsWay(r)
    /\ run[r].phase # "idle" /\ run[r].alone => IsBetween(r)

\* What it says of the database.
GoodGraph == EndsAreThere

LEMMA InParts == IInv <=> TypeOK /\ GoodGraph /\ \A r \in Runs : GoodRun(r)
BY DEF IInv, PlansLoad, RunIsOnItsWay, ReadersSeeOldOrNew, GoodRun, GoodGraph

\* A run that is left alone in a database that does not change.
LEMMA Untouched ==
    ASSUME NEW r \in Runs, GoodRun(r), run'[r] = run[r], UNCHANGED <<concepts, rel>>
    PROVE  GoodRun(r)'
<1>1. Present' = Present /\ PlanKeys(r)' = PlanKeys(r) /\ MergedSoFar(r)' = MergedSoFar(r)
  BY DEF Present, PlanKeys, MergedSoFar
<1>2. IsOnItsWay(r) => IsOnItsWay(r)'
  BY <1>1 DEF IsOnItsWay, IsMerged, IsAhead
<1>3. IsBetween(r) => IsBetween(r)'
  BY <1>1 DEF IsBetween
<1> QED
  BY <1>2, <1>3 DEF GoodRun

\* A run during which somebody else wrote.
LEMMA NoLongerAlone ==
    ASSUME NEW r \in Runs, GoodRun(r), run[r] \in RunRecord,
           run'[r] = [run[r] EXCEPT !.alone = FALSE]
    PROVE  GoodRun(r)'
<1>1. /\ run'[r].phase = run[r].phase /\ run'[r].plan = run[r].plan
      /\ run'[r].syncedAt = run[r].syncedAt /\ ~ run'[r].alone
  BY DEF RunRecord
<1> QED
  BY <1>1 DEF GoodRun

\* What is present keeps its ends while nothing is written.
LEMMA GraphUnchanged == ASSUME GoodGraph, UNCHANGED <<concepts, rel>> PROVE GoodGraph'
BY DEF GoodGraph, EndsAreThere, Present

-----------------------------------------------------------------------------
(* The steps of a run that write nothing.                                   *)

LEMMA LoadsStep ==
    ASSUME IInv, NEW r \in Runs, NEW prune \in BOOLEAN, NEW dryRun \in BOOLEAN,
           RunLoads(r, prune, dryRun)
    PROVE  IInv'
<1> DEFINE ok == Loads(file.edges, file.concepts)
           ph == IF ~ ok THEN "refused" ELSE IF dryRun THEN "dry" ELSE "loaded"
           new == [phase |-> ph, plan |-> file, prune |-> prune, syncedAt |-> 0, next |-> 1,
                   alone |-> TRUE, hadConcepts |-> concepts, had |-> Present]
<1> USE DEF RunLoads
<1>1. TypeOK /\ GoodGraph /\ \A q \in Runs : GoodRun(q)
  BY InParts
<1>2. ph \in Phases /\ Present \subseteq Key
  BY DEF Phases, Present
<1>3. new \in RunRecord
  BY <1>1, <1>2 DEF RunRecord, TypeOK
<1>4. run' = [run EXCEPT ![r] = new]
  OBVIOUS
<1> HIDE DEF new
<1>5. run'[r] = new /\ \A q \in Runs \ {r} : run'[q] = run[q]
  BY <1>1, <1>4 DEF TypeOK
<1>6. TypeOK'
  BY <1>1, <1>3, <1>4 DEF TypeOK
<1>7. GoodGraph'
  BY <1>1, GraphUnchanged
<1>8. ASSUME NEW q \in Runs \ {r} PROVE GoodRun(q)'
  BY <1>1, <1>5, Untouched
<1>9. GoodRun(r)'
  <2>1. /\ new.phase = ph /\ new.plan = file /\ new.syncedAt = 0
        /\ new.hadConcepts = concepts /\ new.had = Present
    BY DEF new
  <2> HIDE DEF ph
  <2>2. ph \in {"refused", "dry", "loaded"} /\ (ph # "refused" => ok)
    BY DEF ph
  <2>3. IsOnItsWay(r)'
    BY <1>5, <2>1, <2>2 DEF IsOnItsWay, HasConcepts
  <2>4. Present' = Present
    BY DEF Present
  <2>5. IsBetween(r)'
    BY <1>5, <2>1, <2>4 DEF IsBetween
  <2> QED
    BY <1>5, <2>1, <2>2, <2>3, <2>5 DEF GoodRun
<1>10. \A q \in Runs : GoodRun(q)'
  BY <1>8, <1>9
<1> QED
  BY <1>6, <1>7, <1>10, InParts DEF IInv, PlansLoad, RunIsOnItsWay, ReadersSeeOldOrNew, GoodRun, GoodGraph

\* The phase of run r changes and nothing is written: to a phase in which less
\* is claimed of it, or the same.
LEMMA PhaseStep ==
    ASSUME IInv, NEW r \in Runs, NEW next \in RunRecord,
           run' = [run EXCEPT ![r] = next],
           UNCHANGED <<file, concepts, rel, hand>>,
           next.plan = run[r].plan, next.had = run[r].had, next.hadConcepts = run[r].hadConcepts,
           next.alone = run[r].alone,
           run[r].phase \notin {"idle", "refused", "failed"},
           next.phase \notin {"idle", "refused", "dry", "loaded"},
           run[r].alone => IsOnItsWay(r)'
    PROVE  IInv'
<1>1. TypeOK /\ GoodGraph /\ \A q \in Runs : GoodRun(q)
  BY InParts
<1>2. run'[r] = next /\ \A q \in Runs \ {r} : run'[q] = run[q]
  BY <1>1 DEF TypeOK
<1>3. TypeOK'
  BY <1>1 DEF TypeOK
<1>4. GoodGraph'
  BY <1>1, GraphUnchanged
<1>5. ASSUME NEW q \in Runs \ {r} PROVE GoodRun(q)'
  BY <1>1, <1>2, Untouched
<1>6. GoodRun(r)'
  <2>1. Present' = Present /\ PlanKeys(r)' = PlanKeys(r)
    BY <1>2 DEF Present, PlanKeys
  <2>2. run[r].alone => IsBetween(r)'
    BY <1>1, <1>2, <2>1 DEF IsBetween, GoodRun
  <2> QED
    BY <1>1, <1>2, <2>2 DEF GoodRun
<1>7. \A q \in Runs : GoodRun(q)'
  BY <1>5, <1>6
<1> QED
  BY <1>3, <1>4, <1>7 DEF IInv, PlansLoad, RunIsOnItsWay, ReadersSeeOldOrNew, GoodRun, GoodGraph

LEMMA FailsStep == ASSUME IInv, NEW r \in Runs, RunFails(r) PROVE IInv'
<1> DEFINE next == [run[r] EXCEPT !.phase = "failed"]
<1>1. run[r] \in RunRecord
  BY Plans DEF IInv
<1>2. /\ next \in RunRecord /\ next.phase = "failed" /\ next.plan = run[r].plan
      /\ next.had = run[r].had /\ next.hadConcepts = run[r].hadConcepts
      /\ next.alone = run[r].alone /\ next.syncedAt = run[r].syncedAt
  BY <1>1 DEF RunRecord, Phases
<1>3. run' = [run EXCEPT ![r] = next] /\ run'[r] = next
  BY DEF RunFails, IInv, TypeOK
<1> HIDE DEF next
<1>4. IsOnItsWay(r)'
  BY <1>2, <1>3 DEF IsOnItsWay, HasConcepts
<1> QED
  BY <1>2, <1>3, <1>4, PhaseStep DEF RunFails

LEMMA TakesTimeStep == ASSUME IInv, NEW r \in Runs, RunTakesTime(r) PROVE IInv'
<1>1. PICK now \in Times :
        run' = [run EXCEPT ![r].phase = "concepts", ![r].syncedAt = now]
  BY DEF RunTakesTime
<1> DEFINE next == [run[r] EXCEPT !.phase = "concepts", !.syncedAt = now]
<1>2. run[r] \in RunRecord /\ now \in Nat /\ "concepts" \in Phases
  BY Plans, GraphSyncConstants DEF IInv, Phases
<1>3. /\ next \in RunRecord /\ next.phase = "concepts" /\ next.plan = run[r].plan
      /\ next.had = run[r].had /\ next.hadConcepts = run[r].hadConcepts
      /\ next.alone = run[r].alone /\ next.next = run[r].next
  BY <1>2 DEF RunRecord
<1>4. run' = [run EXCEPT ![r] = next] /\ run'[r] = next
  BY <1>1 DEF IInv, TypeOK
<1> HIDE DEF next
<1>5. ASSUME run[r].alone PROVE IsOnItsWay(r)'
  <2>1. run[r].next = 1
    BY <1>5 DEF IInv, RunIsOnItsWay, IsOnItsWay, RunTakesTime
  <2> QED
    BY <1>3, <1>4, <2>1 DEF IsOnItsWay, HasConcepts
<1> QED
  BY <1>3, <1>4, <1>5, PhaseStep DEF RunTakesTime

\* With no kind left, everything in the plan has been merged.
LEMMA EdgesMergedStep == ASSUME IInv, NEW r \in Runs, EdgesAreMerged(r) PROVE IInv'
<1> DEFINE ph == IF run[r].prune THEN "prune" ELSE "ok"
           next == [run[r] EXCEPT !.phase = ph]
<1>1. run[r] \in RunRecord /\ ph \in {"prune", "ok"} /\ ph \in Phases
  BY Plans DEF IInv, Phases
<1>2. run' = [run EXCEPT ![r] = next]
  BY DEF EdgesAreMerged
<1>3. ph = "ok" => ~ run[r].prune
  OBVIOUS
<1> HIDE DEF ph
<1>4. /\ next \in RunRecord /\ next.phase = ph /\ next.plan = run[r].plan
      /\ next.had = run[r].had /\ next.hadConcepts = run[r].hadConcepts
      /\ next.alone = run[r].alone /\ next.syncedAt = run[r].syncedAt
      /\ next.prune = run[r].prune
  BY <1>1 DEF RunRecord
<1> HIDE DEF next
<1>5. run'[r] = next
  BY <1>2 DEF IInv, TypeOK
<1>6. UNCHANGED <<file, concepts, rel, hand>> /\ run[r].phase = "edges" /\ Turns(r) = {}
  BY DEF EdgesAreMerged
<1>8. ASSUME run[r].alone PROVE IsOnItsWay(r)'
  <2>1. \A e \in run[r].plan.edges : e \in MergedSoFar(r)
    BY <1>6, <1>1, KindsInOrder DEF MergedSoFar, Turns, Batch, RunRecord
  <2>2. IsOnItsWay(r)
    BY <1>8 DEF IInv, RunIsOnItsWay
  <2>3. \A e \in run[r].plan.edges : IsMerged(r, e)
    BY <1>6, <2>1, <2>2 DEF IsOnItsWay
  <2>4. Present' = Present /\ PlanKeys(r)' = PlanKeys(r)
    BY <1>4, <1>5, <1>6 DEF Present, PlanKeys
  <2>6. run[r].plan.concepts \subseteq concepts
    BY <1>6, <2>2 DEF IsOnItsWay, HasConcepts
  <2>7. \A e \in run'[r].plan.edges : IsMerged(r, e)'
    BY <1>4, <1>5, <1>6, <2>3 DEF IsMerged
  <2>8. ~ (run'[r].phase = "ok" /\ run'[r].prune) /\ run'[r].phase \in {"prune", "ok"}
    BY <1>1, <1>3, <1>4, <1>5
  <2> QED
    BY <1>4, <1>5, <1>6, <2>4, <2>6, <2>7, <2>8 DEF IsOnItsWay
<1> QED
  BY <1>1, <1>2, <1>4, <1>6, <1>8, PhaseStep

-----------------------------------------------------------------------------
(* The transactions.                                                        *)

\* A transaction of run r leaves the invariant if it does for the database and
\* for r itself.
LEMMA TransactionStep ==
    ASSUME IInv, NEW r \in Runs, NEW after \in RunRecord, Commits(r, after),
           UNCHANGED <<file, hand>>,
           concepts' \subseteq ConceptIds, rel' \in [Key -> Rel \cup {NoRel}],
           GoodGraph', GoodRun(r)'
    PROVE  IInv'
<1>1. TypeOK /\ \A q \in Runs : GoodRun(q) /\ run[q] \in RunRecord
  BY InParts DEF TypeOK
<1>2. /\ run' \in [Runs -> RunRecord]
      /\ \A q \in Runs \ {r} : run'[q] = [run[q] EXCEPT !.alone = FALSE]
  BY <1>1, Committed
<1>3. TypeOK'
  BY <1>1, <1>2 DEF TypeOK
<1>4. ASSUME NEW q \in Runs \ {r} PROVE GoodRun(q)'
  BY <1>1, <1>2, NoLongerAlone
<1>5. \A q \in Runs : GoodRun(q)'
  BY <1>4
<1> QED
  BY <1>3, <1>5 DEF IInv, PlansLoad, RunIsOnItsWay, ReadersSeeOldOrNew, GoodRun, GoodGraph

LEMMA MergesConceptsStep == ASSUME IInv, NEW r \in Runs, MergesConcepts(r) PROVE IInv'
<1> DEFINE after == [run[r] EXCEPT !.phase = "edges"]
<1>1. TypeOK /\ GoodGraph /\ GoodRun(r) /\ run[r] \in RunRecord
  BY InParts, Plans
<1>2. run[r].plan.concepts \subseteq ConceptIds
  BY <1>1, Plans
<1>3. /\ run[r].phase = "concepts" /\ concepts' = concepts \cup run[r].plan.concepts
      /\ Commits(r, after) /\ UNCHANGED <<file, rel, hand>>
  BY DEF MergesConcepts
<1>4. /\ after \in RunRecord /\ after.phase = "edges" /\ after.plan = run[r].plan
      /\ after.had = run[r].had /\ after.hadConcepts = run[r].hadConcepts
      /\ after.alone = run[r].alone /\ after.syncedAt = run[r].syncedAt
      /\ after.next = run[r].next
  BY <1>1 DEF RunRecord, Phases
<1> HIDE DEF after
<1>5. run'[r] = after \/ run'[r] = run[r]
  BY <1>1, <1>3, <1>4, Committed
<1>6. concepts' \subseteq ConceptIds /\ rel' \in [Key -> Rel \cup {NoRel}]
  BY <1>1, <1>2, <1>3 DEF TypeOK
<1>7. Present' = Present
  BY <1>3 DEF Present
<1>8. GoodGraph'
  BY <1>1, <1>3, <1>7 DEF GoodGraph, EndsAreThere
<1>9. GoodRun(r)'
  <2>1. /\ run'[r].phase \in {"concepts", "edges"} /\ run'[r].plan = run[r].plan
        /\ run'[r].had = run[r].had /\ run'[r].hadConcepts = run[r].hadConcepts
        /\ run'[r].alone = run[r].alone /\ run'[r].syncedAt = run[r].syncedAt
        /\ run'[r].next = run[r].next
    BY <1>3, <1>4, <1>5
  <2>2. PlanKeys(r)' = PlanKeys(r)
    BY <2>1 DEF PlanKeys
  <2>3. run[r].alone => IsBetween(r)'
    BY <1>1, <1>3, <1>7, <2>1, <2>2 DEF IsBetween, GoodRun
  <2>4. ASSUME run[r].alone PROVE IsOnItsWay(r)'
    <3>1. IsOnItsWay(r) /\ run[r].next = 1
      BY <1>1, <1>3, <2>4 DEF GoodRun, IsOnItsWay
    <3>2. \A e \in run[r].plan.edges : e \notin MergedSoFar(r)'
      BY <1>1, <2>1, <3>1, Plans, KindsInOrder DEF MergedSoFar
    <3>3. MergedSoFar(r)' = {}
      BY <2>1, <3>2 DEF MergedSoFar
    <3> QED
      BY <1>3, <2>1, <3>1, <3>3 DEF IsOnItsWay
  <2> QED
    BY <1>1, <1>3, <2>1, <2>3, <2>4 DEF GoodRun
<1> QED
  BY <1>3, <1>4, <1>6, <1>8, <1>9, TransactionStep

\* What MERGE and SET leave at each key when run r merges the kind i.
LEMMA AfterMerge ==
    ASSUME IInv, NEW r \in Runs, Loads(run[r].plan.edges, run[r].plan.concepts),
           NEW i \in DOMAIN AllKinds,
           rel' = [k \in Key |-> IF \E e \in Matched(r, i) : KeyOf(e) = k
                                   THEN Touched(r, k, CHOOSE e \in Matched(r, i) : KeyOf(e) = k)
                                   ELSE rel[k]]
    PROVE  /\ \A e \in Matched(r, i) :
                /\ rel'[KeyOf(e)].strength = e.strength
                /\ rel'[KeyOf(e)].synced_at = run[r].syncedAt
                /\ rel'[KeyOf(e)] \in Rel
           /\ \A k \in Key : (\A e \in Matched(r, i) : KeyOf(e) # k) => rel'[k] = rel[k]
           /\ rel' \in [Key -> Rel \cup {NoRel}]
<1>1. Matched(r, i) \subseteq run[r].plan.edges
  BY DEF Matched, Batch
<1>2. \A e \in run[r].plan.edges :
        e \in Edge /\ e.strength \in 1..MaxStrength /\ KeyOf(e) \in Key
  BY Plans DEF IInv
<1>3. run[r].syncedAt \in Nat
  BY Plans DEF IInv, RunRecord
<1>4. ASSUME NEW e \in Matched(r, i)
      PROVE  /\ rel'[KeyOf(e)].strength = e.strength
             /\ rel'[KeyOf(e)].synced_at = run[r].syncedAt
             /\ rel'[KeyOf(e)] \in Rel
  <2> DEFINE f == CHOOSE g \in Matched(r, i) : KeyOf(g) = KeyOf(e)
  <2>1. f \in Matched(r, i) /\ KeyOf(f) = KeyOf(e)
    OBVIOUS
  <2>2. f = e
    BY <1>1, <2>1, LoadedPlans DEF IInv
  <2>3. rel'[KeyOf(e)] = Touched(r, KeyOf(e), f)
    BY <1>1, <1>2, <2>1
  <2>4. rel'[KeyOf(e)] = [strength |-> e.strength, synced_at |-> run[r].syncedAt]
    BY <2>2, <2>3 DEF Touched
  <2> QED
    BY <1>1, <1>2, <1>3, <2>4 DEF Rel
<1>5. ASSUME NEW k \in Key, \A e \in Matched(r, i) : KeyOf(e) # k PROVE rel'[k] = rel[k]
  BY <1>5
<1>6. \A k \in Key : rel'[k] \in Rel \cup {NoRel}
  <2>1. ASSUME NEW k \in Key PROVE rel'[k] \in Rel \cup {NoRel}
    <3>1. CASE \E e \in Matched(r, i) : KeyOf(e) = k
      BY <1>4, <3>1
    <3>2. CASE \A e \in Matched(r, i) : KeyOf(e) # k
      BY <1>5, <3>2 DEF IInv, TypeOK
    <3> QED
      BY <3>1, <3>2
  <2> QED
    BY <2>1
<1>7. rel' \in [Key -> Rel \cup {NoRel}]
  BY <1>6
<1> QED
  BY <1>4, <1>5, <1>7

LEMMA MergesEdgesStep == ASSUME IInv, NEW r \in Runs, MergesEdges(r) PROVE IInv'
<1>1. TypeOK /\ GoodGraph /\ GoodRun(r) /\ run[r] \in RunRecord
  BY InParts, Plans
<1>2. /\ run[r].phase = "edges" /\ UNCHANGED <<file, concepts, hand>>
      /\ Loads(run[r].plan.edges, run[r].plan.concepts)
  BY <1>1 DEF MergesEdges, GoodRun
<1>3. PICK i \in Turns(r) :
        /\ \A j \in Turns(r) : i <= j
        /\ rel' = [k \in Key |-> IF \E e \in Matched(r, i) : KeyOf(e) = k
                                   THEN Touched(r, k, CHOOSE e \in Matched(r, i) : KeyOf(e) = k)
                                   ELSE rel[k]]
        /\ Commits(r, [run[r] EXCEPT !.next = i + 1])
  BY DEF MergesEdges
<1> DEFINE after == [run[r] EXCEPT !.next = i + 1]
<1>4. i \in DOMAIN AllKinds /\ i \in 1..4 /\ i >= run[r].next /\ i + 1 \in 1..5
  BY <1>3, KindsInOrder DEF Turns
<1>5. /\ after \in RunRecord /\ after.phase = "edges" /\ after.plan = run[r].plan
      /\ after.had = run[r].had /\ after.hadConcepts = run[r].hadConcepts
      /\ after.alone = run[r].alone /\ after.syncedAt = run[r].syncedAt
      /\ after.next = i + 1
  BY <1>1, <1>2, <1>4 DEF RunRecord
<1>6. Commits(r, after)
  BY <1>3
<1> HIDE DEF after
<1>7. run'[r] = after \/ run'[r] = run[r]
  BY <1>1, <1>5, <1>6, Committed
<1>8. /\ run'[r].phase = "edges" /\ run'[r].plan = run[r].plan
      /\ run'[r].had = run[r].had /\ run'[r].hadConcepts = run[r].hadConcepts
      /\ run'[r].alone = run[r].alone /\ run'[r].syncedAt = run[r].syncedAt
      /\ run'[r].next \in {run[r].next, i + 1}
  BY <1>2, <1>5, <1>7
<1>9. /\ \A e \in Matched(r, i) :
           /\ rel'[KeyOf(e)].strength = e.strength
           /\ rel'[KeyOf(e)].synced_at = run[r].syncedAt
           /\ rel'[KeyOf(e)] \in Rel
      /\ \A k \in Key : (\A e \in Matched(r, i) : KeyOf(e) # k) => rel'[k] = rel[k]
      /\ rel' \in [Key -> Rel \cup {NoRel}]
  BY <1>2, <1>3, <1>4, AfterMerge
<1>10. Matched(r, i) \subseteq run[r].plan.edges
  BY DEF Matched, Batch
<1>11. \A e \in run[r].plan.edges : KeyOf(e) \in Key /\ e \in Edge
  BY <1>1, Plans
<1>12. Present' = Present \cup {KeyOf(e) : e \in Matched(r, i)}
  <2>1. ASSUME NEW k \in Key PROVE k \in Present' <=> k \in Present \/ \E e \in Matched(r, i) : KeyOf(e) = k
    BY <1>9, Constants DEF Present
  <2> QED
    BY <1>10, <1>11, <2>1 DEF Present
<1>13. \A k \in Present' :
         \/ k \in Present /\ rel'[k] = rel[k]
         \/ /\ k \in PlanKeys(r)
            /\ rel'[k].synced_at = run[r].syncedAt
            /\ \E e \in Matched(r, i) : KeyOf(e) = k
  BY <1>9, <1>10, <1>12 DEF Present, PlanKeys
<1>14. GoodGraph'
  <2>1. ASSUME NEW k \in Present'
        PROVE  k[1] \in concepts /\ k[2] \in concepts
    <3>1. CASE k \in Present /\ rel'[k] = rel[k]
      BY <1>1, <3>1 DEF GoodGraph, EndsAreThere
    <3>2. CASE \E e \in Matched(r, i) : KeyOf(e) = k
      BY <3>2 DEF Matched, KeyOf
    <3> QED
      BY <1>13, <3>1, <3>2
  <2> QED
    BY <1>2, <2>1 DEF GoodGraph, EndsAreThere
<1>15. PlanKeys(r)' = PlanKeys(r)
  BY <1>8 DEF PlanKeys
<1>16. ASSUME run[r].alone PROVE IsBetween(r)'
  <2>1. IsBetween(r)
    BY <1>1, <1>2, <1>16 DEF GoodRun
  <2>2. Present' \subseteq Present \cup PlanKeys(r) /\ Present \subseteq Present'
    BY <1>10, <1>12 DEF PlanKeys
  <2> QED
    BY <1>2, <1>8, <1>15, <2>1, <2>2 DEF IsBetween
<1>17. ASSUME run[r].alone PROVE IsOnItsWay(r)'
  <2>1. IsOnItsWay(r)
    BY <1>1, <1>17 DEF GoodRun
  <2>3. run[r].plan.concepts \subseteq concepts
    BY <1>2, <2>1 DEF IsOnItsWay, HasConcepts
  <2>4. \A e \in Batch(r, i) : e \in Matched(r, i)
    BY <1>1, <1>2, <2>3, LoadedPlans DEF Matched, Batch
  <2>5. ASSUME NEW e \in MergedSoFar(r)' PROVE e \in MergedSoFar(r) \/ e \in Batch(r, i)
    <3>1. e \in run[r].plan.edges /\ \A j \in DOMAIN AllKinds :
            e.kind = AllKinds[j] => j < run[r].next \/ j < i + 1
      BY <1>1, <1>4, <1>8, <2>5 DEF MergedSoFar, RunRecord
    <3>2. ASSUME NEW j \in DOMAIN AllKinds, e.kind = AllKinds[j], ~ j < run[r].next
          PROVE  e \in Batch(r, i)
      <4>1. j \in Turns(r)
        BY <1>1, <3>1, <3>2, KindsInOrder DEF Turns, Batch, RunRecord
      <4>2. i <= j /\ j < i + 1
        BY <1>3, <3>1, <3>2, <4>1
      <4>3. i = j
        BY <1>4, <4>2, KindsInOrder
      <4> QED
        BY <3>1, <3>2, <4>3 DEF Batch
    <3> QED
      BY <3>1, <3>2 DEF MergedSoFar
  <2>6. ASSUME NEW e \in MergedSoFar(r)' PROVE IsMerged(r, e)'
    <3>1. CASE e \in Matched(r, i)
      <4>1. /\ rel'[KeyOf(e)] # NoRel
            /\ rel'[KeyOf(e)].strength = e.strength
            /\ rel'[KeyOf(e)].synced_at = run[r].syncedAt
        BY <1>9, <3>1, Constants
      <4> QED
        BY <1>8, <4>1 DEF IsMerged
    <3>2. CASE e \in MergedSoFar(r) /\ e \notin Matched(r, i)
      <4>1. IsMerged(r, e) /\ e \in run[r].plan.edges
        BY <1>2, <2>1, <3>2 DEF IsOnItsWay, MergedSoFar
      <4>2. \A f \in Matched(r, i) : KeyOf(f) # KeyOf(e)
        BY <1>1, <1>2, <1>10, <3>2, <4>1, LoadedPlans
      <4>3. rel'[KeyOf(e)] = rel[KeyOf(e)]
        BY <1>9, <1>11, <4>1, <4>2
      <4> QED
        BY <1>8, <4>1, <4>3 DEF IsMerged
    <3> QED
      BY <2>4, <2>5, <2>6, <3>1, <3>2
  <2> QED
    BY <1>2, <1>8, <2>3, <2>6 DEF IsOnItsWay
<1>18. GoodRun(r)'
  BY <1>1, <1>2, <1>8, <1>16, <1>17 DEF GoodRun
<1> QED
  BY <1>1, <1>2, <1>5, <1>6, <1>9, <1>14, <1>18, TransactionStep DEF TypeOK

LEMMA PrunesStep == ASSUME IInv, NEW r \in Runs, Prunes(r) PROVE IInv'
<1> DEFINE after == [run[r] EXCEPT !.phase = "ok"]
           plan == run[r].plan
<1>1. TypeOK /\ GoodGraph /\ GoodRun(r) /\ run[r] \in RunRecord
  BY InParts, Plans
<1>2. /\ run[r].phase = "prune" /\ UNCHANGED <<file, hand>>
      /\ concepts' = concepts \cap plan.concepts /\ Commits(r, after)
      /\ Loads(plan.edges, plan.concepts)
      /\ rel' = [k \in Key |-> IF Orphan(r, k) \/ Detached(k, plan.concepts) THEN NoRel ELSE rel[k]]
  BY <1>1 DEF Prunes, GoodRun
<1>3. /\ after \in RunRecord /\ after.phase = "ok" /\ after.plan = plan
      /\ after.had = run[r].had /\ after.hadConcepts = run[r].hadConcepts
      /\ after.alone = run[r].alone /\ after.syncedAt = run[r].syncedAt
      /\ after.prune = run[r].prune
  BY <1>1 DEF RunRecord, Phases
<1> HIDE DEF after
<1>4. run'[r] = after \/ run'[r] = run[r]
  BY <1>1, <1>2, <1>3, Committed
<1>5. /\ run'[r].phase \in {"prune", "ok"} /\ run'[r].plan = plan
      /\ run'[r].had = run[r].had /\ run'[r].hadConcepts = run[r].hadConcepts
      /\ run'[r].alone = run[r].alone /\ run'[r].syncedAt = run[r].syncedAt
      /\ run'[r].prune = run[r].prune
  BY <1>2, <1>3, <1>4
<1>6. \A k \in Key : \/ rel'[k] = NoRel /\ (Orphan(r, k) \/ Detached(k, plan.concepts))
                     \/ rel'[k] = rel[k] /\ ~ Orphan(r, k) /\ ~ Detached(k, plan.concepts)
  BY <1>2
<1>7. rel' \in [Key -> Rel \cup {NoRel}]
  BY <1>1, <1>2 DEF TypeOK
<1>8. \A k \in Present' : /\ k \in Present /\ rel'[k] = rel[k] /\ ~ Orphan(r, k)
                         /\ k[1] \in plan.concepts /\ k[2] \in plan.concepts
  BY <1>6 DEF Present, Detached
<1>9. GoodGraph'
  BY <1>1, <1>2, <1>8 DEF GoodGraph, EndsAreThere
<1>10. PlanKeys(r)' = PlanKeys(r)
  BY <1>5 DEF PlanKeys
<1>11. ASSUME run[r].alone
       PROVE  IsOnItsWay(r) /\ IsBetween(r) /\ plan.concepts \subseteq concepts
  BY <1>1, <1>2, <1>11 DEF GoodRun, IsOnItsWay, HasConcepts
<1>12. ASSUME run[r].alone, NEW e \in plan.edges
       PROVE  KeyOf(e) \in Present' /\ rel'[KeyOf(e)] = rel[KeyOf(e)] /\ IsMerged(r, e)
  <2>1. IsMerged(r, e)
    BY <1>2, <1>11, <1>12 DEF IsOnItsWay
  <2>2. KeyOf(e) \in Key /\ e.from \in plan.concepts /\ e.to \in plan.concepts
    BY <1>1, <1>2, <1>12, Plans, LoadedPlans
  <2>3. rel[KeyOf(e)].synced_at \in Nat /\ rel[KeyOf(e)].synced_at = run[r].syncedAt
    BY <1>1, <2>1 DEF IsMerged, RunRecord
  <2>4. ~ Orphan(r, KeyOf(e))
    BY <1>1, <2>3, Constants DEF Orphan, RunRecord
  <2>5. ~ Detached(KeyOf(e), plan.concepts)
    BY <2>2 DEF Detached, KeyOf
  <2>6. rel'[KeyOf(e)] = rel[KeyOf(e)]
    BY <1>6, <2>2, <2>4, <2>5
  <2> QED
    BY <2>1, <2>2, <2>6 DEF Present, IsMerged
<1>13. ASSUME run[r].alone PROVE PlanKeys(r) \subseteq Present'
  BY <1>12, <1>13 DEF PlanKeys
<1>14. ASSUME run[r].alone PROVE IsBetween(r)'
  <2>1. Present' \subseteq Present
    BY <1>8
  <2>2. /\ Present \subseteq run[r].had \cup PlanKeys(r)
        /\ concepts \subseteq run[r].hadConcepts \cup plan.concepts
        /\ run[r].hadConcepts \cap plan.concepts \subseteq concepts
    BY <1>11, <1>14 DEF IsBetween
  <2> QED
    BY <1>2, <1>5, <1>10, <1>13, <1>14, <2>1, <2>2 DEF IsBetween
<1>15. ASSUME run[r].alone PROVE IsOnItsWay(r)'
  <2>1. ASSUME NEW k \in Present' PROVE IsAhead(r, k)'
    <3>1. rel[k].synced_at = Never \/ rel[k].synced_at \in Nat
      BY <1>1, <1>8, Constants DEF TypeOK, Present, Rel
    <3>2. rel[k].synced_at # Never /\ ~ rel[k].synced_at < run[r].syncedAt
      BY <1>8 DEF Orphan, Present
    <3>3. rel[k].synced_at >= run[r].syncedAt
      BY <1>1, <3>1, <3>2 DEF RunRecord
    <3> QED
      BY <1>5, <1>8, <3>2, <3>3 DEF IsAhead
  <2>2. \A e \in plan.edges : IsMerged(r, e)'
    BY <1>5, <1>12, <1>15 DEF IsMerged
  <2>3. plan.concepts \subseteq concepts' /\ concepts' \subseteq plan.concepts
    BY <1>2, <1>11, <1>15
  <2> QED
    BY <1>5, <1>10, <2>1, <2>2, <2>3 DEF IsOnItsWay
<1>16. GoodRun(r)'
  BY <1>1, <1>2, <1>5, <1>14, <1>15 DEF GoodRun
<1> QED
  BY <1>1, <1>2, <1>3, <1>7, <1>9, <1>16, TransactionStep DEF TypeOK

-----------------------------------------------------------------------------
(* Other writers.                                                           *)

\* Whoever writes by hand leaves no run alone.
LEMMA HandStep ==
    ASSUME IInv, HandWrites, concepts' \subseteq ConceptIds, rel' \in [Key -> Rel \cup {NoRel}],
           \A k \in Present' : k[1] \in concepts' /\ k[2] \in concepts'
    PROVE  IInv'
<1>1. TypeOK /\ GoodGraph /\ \A q \in Runs : GoodRun(q) /\ run[q] \in RunRecord
  BY InParts DEF TypeOK
<1>2. /\ run' = [q \in Runs |-> [run[q] EXCEPT !.alone = FALSE]]
      /\ UNCHANGED <<file>> /\ hand' = hand + 1 /\ hand < MaxHandEdits
  BY DEF HandWrites
<1>3. \A q \in Runs : [run[q] EXCEPT !.alone = FALSE] \in RunRecord
  BY <1>1 DEF RunRecord
<1>4. hand' \in 0..MaxHandEdits
  BY <1>1, <1>2, GraphSyncConstants DEF TypeOK
<1>5. TypeOK'
  BY <1>1, <1>2, <1>3, <1>4 DEF TypeOK
<1>6. GoodGraph'
  BY DEF GoodGraph, EndsAreThere
<1>7. \A q \in Runs : GoodRun(q)'
  BY <1>1, <1>2, NoLongerAlone
<1> QED
  BY <1>5, <1>6, <1>7 DEF IInv, PlansLoad, RunIsOnItsWay, ReadersSeeOldOrNew, GoodRun, GoodGraph

LEMMA EditsStep == ASSUME IInv, EditsByHand PROVE IInv'
<1>1. HandWrites /\ concepts' = concepts
  BY DEF EditsByHand
<1>2. PICK k \in HandKeys : /\ k[1] \in concepts /\ k[2] \in concepts
                            /\ \E new \in {NoRel, [strength |-> 1, synced_at |-> Never]} :
                                 rel' = [rel EXCEPT ![k] = new]
  BY DEF EditsByHand
<1>3. PICK new \in {NoRel, [strength |-> 1, synced_at |-> Never]} : rel' = [rel EXCEPT ![k] = new]
  BY <1>2
<1>4. k \in Key /\ rel \in [Key -> Rel \cup {NoRel}] /\ concepts \subseteq ConceptIds
  BY Constants DEF IInv, TypeOK
<1>5. [strength |-> 1, synced_at |-> Never] \in Rel
  BY CurriculumConstants DEF Rel
<1>6. rel' \in [Key -> Rel \cup {NoRel}]
  BY <1>3, <1>4, <1>5
<1>7. ASSUME NEW j \in Present' PROVE j[1] \in concepts' /\ j[2] \in concepts'
  <2>1. CASE j = k
    BY <1>1, <1>2, <2>1
  <2>2. CASE j # k
    <3>1. j \in Present
      BY <1>3, <1>4, <1>7, <2>2 DEF Present
    <3> QED
      BY <1>1, <3>1 DEF IInv, EndsAreThere
  <2> QED
    BY <2>1, <2>2
<1> QED
  BY <1>1, <1>4, <1>6, <1>7, HandStep

LEMMA DeletesStep == ASSUME IInv, DeletesByHand PROVE IInv'
<1>1. PICK c \in concepts :
        /\ concepts' = concepts \ {c}
        /\ rel' = [k \in Key |-> IF Detached(k, concepts \ {c}) THEN NoRel ELSE rel[k]]
  BY DEF DeletesByHand
<1>2. rel' \in [Key -> Rel \cup {NoRel}] /\ concepts' \subseteq ConceptIds
  BY <1>1 DEF IInv, TypeOK
<1>3. ASSUME NEW k \in Present'
      PROVE  k[1] \in concepts' /\ k[2] \in concepts'
  BY <1>1, <1>3 DEF Present, Detached
<1> QED
  BY <1>2, <1>3, HandStep DEF DeletesByHand

-----------------------------------------------------------------------------
(* The theorems.                                                            *)

LEMMA InitHolds == Init => IInv
<1> SUFFICES ASSUME Init PROVE IInv
  OBVIOUS
<1>1. (CHOOSE f \in FileChoices : TRUE) \in FileChoices
  BY DEF Init
<1>2. TypeOK
  BY <1>1, GraphSyncConstants DEF Init, TypeOK, RunRecord, Phases
<1>3. Present = {}
  BY DEF Init, Present
<1>4. \A r \in Runs : run[r].phase = "idle" /\ run[r].syncedAt = 0 /\ run[r].next = 1
  BY DEF Init
<1>5. \A r \in Runs : IsOnItsWay(r)
  BY <1>4 DEF IsOnItsWay, HasConcepts
<1>6. \A r \in Runs : GoodRun(r)
  BY <1>4, <1>5 DEF GoodRun, Init
<1>7. GoodGraph
  BY <1>3 DEF GoodGraph, EndsAreThere
<1> QED
  BY <1>2, <1>6, <1>7, InParts

LEMMA NextHolds == IInv /\ [Next]_vars => IInv'
<1> SUFFICES ASSUME IInv, [Next]_vars PROVE IInv'
  OBVIOUS
<1>1. TypeOK /\ GoodGraph /\ \A q \in Runs : GoodRun(q) /\ run[q] \in RunRecord
  BY InParts DEF TypeOK
<1>2. ASSUME UNCHANGED <<concepts, rel, run, hand>>, file' \in FileChoices PROVE IInv'
  <2>1. TypeOK'
    BY <1>1, <1>2 DEF TypeOK
  <2>2. GoodGraph'
    BY <1>1, <1>2, GraphUnchanged
  <2>3. ASSUME NEW q \in Runs PROVE GoodRun(q)'
    BY <1>1, <1>2, Untouched
  <2> QED
    BY <2>1, <2>2, <2>3 DEF IInv, PlansLoad, RunIsOnItsWay, ReadersSeeOldOrNew, GoodRun, GoodGraph
<1>3. CASE FileIsEdited \/ UNCHANGED vars
  BY <1>1, <1>2, <1>3 DEF FileIsEdited, vars, TypeOK
<1>4. CASE EditsByHand \/ DeletesByHand
  BY <1>4, EditsStep, DeletesStep
<1>5. ASSUME NEW r \in Runs, NEW prune \in BOOLEAN, NEW dryRun \in BOOLEAN,
             RunLoads(r, prune, dryRun)
      PROVE  IInv'
  BY <1>5, LoadsStep
<1>6. ASSUME NEW r \in Runs,
             \/ RunTakesTime(r) \/ MergesConcepts(r) \/ MergesEdges(r)
             \/ EdgesAreMerged(r) \/ Prunes(r) \/ RunFails(r)
      PROVE  IInv'
  BY <1>6, TakesTimeStep, MergesConceptsStep, MergesEdgesStep, EdgesMergedStep, PrunesStep, FailsStep
<1> QED
  BY <1>3, <1>4, <1>5, <1>6 DEF Next

\* What is present has its ends, and what a run that is alone has committed so far
\* is there with the run's own time, for any number of runs and any clocks.
THEOREM Invariance == Spec => []IInv
BY InitHolds, NextHolds, PTL DEF Spec

\* While nobody else writes, readers see no less than the old curriculum and the
\* new have in common and no more than they have together, wherever the run
\* stands, fails or repeats itself.
THEOREM ReadersAlwaysSeeOldOrNew == Spec => []ReadersSeeOldOrNew
<1>1. IInv => ReadersSeeOldOrNew
  BY DEF IInv
<1> QED
  BY <1>1, Invariance, PTL

\* A run that was alone and ended well has brought over its file, and its prune
\* has left nothing else but what it found there with a time that was not before
\* its own, whatever other runs, their clocks, failures and edits left before it.
THEOREM RunsAlwaysReconcile == Spec => []RunReconciles
<1>1. IInv => RunReconciles
  <2> SUFFICES ASSUME IInv, NEW r \in Runs, run[r].phase = "ok", run[r].alone
               PROVE  /\ run[r].plan.concepts \subseteq concepts
                      /\ \A e \in run[r].plan.edges :
                           rel[KeyOf(e)] # NoRel /\ rel[KeyOf(e)].strength = e.strength
                      /\ run[r].prune =>
                           /\ concepts = run[r].plan.concepts
                           /\ \A k \in Present \ PlanKeys(r) :
                                k \in run[r].had /\ IsAhead(r, k)
    BY DEF RunReconciles
  <2>1. IsOnItsWay(r) /\ IsBetween(r)
    BY DEF IInv, RunIsOnItsWay, ReadersSeeOldOrNew
  <2>2. \A k \in Present \ PlanKeys(r) : k \in run[r].had
    BY <2>1 DEF IsBetween
  <2>3. run[r].plan.concepts \subseteq concepts
    BY <2>1 DEF IsOnItsWay, HasConcepts
  <2>4. \A e \in run[r].plan.edges : IsMerged(r, e)
    BY <2>1 DEF IsOnItsWay
  <2> QED
    BY <2>1, <2>2, <2>3, <2>4 DEF IsOnItsWay, IsMerged
<1> QED
  BY <1>1, Invariance, PTL

=============================================================================
