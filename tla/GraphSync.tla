----------------------------- MODULE GraphSync -----------------------------
(***************************************************************************)
(* cmd/graph-sync: runs that bring the curriculum file into Neo4j, while   *)
(* the file is edited, other runs are under way and somebody edits the     *)
(* database by hand.                                                       *)
(*                                                                         *)
(* A run reads the file, takes the time, and writes in transactions of its *)
(* own: the constraint, the concepts, each kind of edge, and the prune.    *)
(* The driver repeats a transaction whose answer is lost; any of them may  *)
(* fail, and ends the run.  A concept is its id; of an edge its strength   *)
(* and its time are kept.  Each run reads the clock of its own machine: a  *)
(* later run may have the same time as an earlier one, or an earlier one.  *)
(***************************************************************************)
EXTENDS Curriculum

CONSTANTS
    FileChoices,    \* what the file may be edited to: [concepts, edges]
    Runs,
    Times,          \* what the clock of a run's machine may say
    NoRel,          \* no relationship
    Never,          \* synced_at IS NULL
    HandKeys,       \* relationships that are edited by hand
    MaxHandEdits    \* bound: edits by hand

Key == ConceptIds \X ConceptIds \X EdgeKind
Rel == [strength : 1..MaxStrength, synced_at : Nat \cup {Never}]

ASSUME GraphSyncConstants ==
    /\ FileChoices \subseteq [concepts : SUBSET ConceptIds, edges : SUBSET Edge]
    /\ Times \subseteq Nat
    /\ NoRel \notin Rel
    /\ Never \notin Nat
    /\ HandKeys \subseteq Key
    /\ MaxHandEdits \in Nat

VARIABLES
    file,       \* the curriculum file
    concepts,   \* the :Concept nodes
    rel,        \* the relationships
    run,        \* the runs
    hand        \* edits by hand so far

vars == <<file, concepts, rel, run, hand>>

KeyOf(e) == <<e.from, e.to, e.kind>>
Present == {k \in Key : rel[k] # NoRel}
PlanKeys(r) == {KeyOf(e) : e \in run[r].plan.edges}

Phases == {"idle", "refused", "dry", "loaded", "concepts", "edges", "prune", "failed", "ok"}

\* alone, hadConcepts and had are history: nobody else wrote since the run
\* read the file, and what the database held then.
RunRecord ==
    [phase : Phases, plan : FileChoices, prune : BOOLEAN, syncedAt : Nat, next : 1..5,
     alone : BOOLEAN, hadConcepts : SUBSET ConceptIds, had : SUBSET Key]

TypeOK ==
    /\ file \in FileChoices
    /\ concepts \subseteq ConceptIds
    /\ rel \in [Key -> Rel \cup {NoRel}]
    /\ run \in [Runs -> RunRecord]
    /\ hand \in 0..MaxHandEdits

Init ==
    /\ file \in FileChoices
    /\ concepts = {}
    /\ rel = [k \in Key |-> NoRel]
    /\ run = [r \in Runs |-> [phase |-> "idle", plan |-> CHOOSE f \in FileChoices : TRUE,
                              prune |-> FALSE, syncedAt |-> 0, next |-> 1, alone |-> TRUE,
                              hadConcepts |-> {}, had |-> {}]]
    /\ hand = 0

FileIsEdited ==
    /\ file' \in FileChoices
    /\ UNCHANGED <<concepts, rel, run, hand>>

-----------------------------------------------------------------------------
(* A run reads its file.                                                    *)

\* An invalid file ends the run here; so does -dry-run.
RunLoads(r, prune, dryRun) ==
    /\ run[r].phase = "idle"
    /\ run' = [run EXCEPT ![r] =
                 [phase |-> IF ~ Loads(file.edges, file.concepts) THEN "refused"
                            ELSE IF dryRun THEN "dry" ELSE "loaded",
                  plan |-> file, prune |-> prune, syncedAt |-> 0, next |-> 1,
                  alone |-> TRUE, hadConcepts |-> concepts, had |-> Present]]
    /\ UNCHANGED <<file, concepts, rel, hand>>

\* The time is taken, whatever the times of other runs; creating the constraint
\* changes no data.
RunTakesTime(r) ==
    /\ run[r].phase = "loaded"
    /\ \E now \in Times :
         run' = [run EXCEPT ![r].phase = "concepts", ![r].syncedAt = now]
    /\ UNCHANGED <<file, concepts, rel, hand>>

-----------------------------------------------------------------------------
(* Its transactions.                                                        *)

\* Run r commits and is in the state "after", or where it was if the answer
\* was lost.
Commits(r, after) ==
    \E next \in {after, run[r]} :
      run' = [q \in Runs |-> IF q = r THEN next ELSE [run[q] EXCEPT !.alone = FALSE]]

MergesConcepts(r) ==
    /\ run[r].phase = "concepts"
    /\ concepts' = concepts \cup run[r].plan.concepts
    /\ Commits(r, [run[r] EXCEPT !.phase = "edges"])
    /\ UNCHANGED <<file, rel, hand>>

\* The edges of the kind whose turn it is; a kind without edges is passed over.
Batch(r, i) == {e \in run[r].plan.edges : e.kind = AllKinds[i]}
Turns(r) == {i \in DOMAIN AllKinds : i >= run[r].next /\ Batch(r, i) # {}}

\* MATCH leaves an edge out if an end of it is not there.
Matched(r, i) == {e \in Batch(r, i) : e.from \in concepts /\ e.to \in concepts}

\* Mutant of Touched: a relationship that exists keeps its time.
TouchedIfNew(r, k, e) ==
    [strength |-> e.strength,
     synced_at |-> IF rel[k] = NoRel THEN run[r].syncedAt ELSE rel[k].synced_at]

\* MERGE finds the relationship or creates it, and SET overwrites it.
Touched(r, k, e) == [strength |-> e.strength, synced_at |-> run[r].syncedAt]

MergesEdges(r) ==
    /\ run[r].phase = "edges"
    /\ \E i \in Turns(r) :
         /\ \A j \in Turns(r) : i <= j
         /\ rel' = [k \in Key |-> IF \E e \in Matched(r, i) : KeyOf(e) = k
                                   THEN Touched(r, k, CHOOSE e \in Matched(r, i) : KeyOf(e) = k)
                                   ELSE rel[k]]
         /\ Commits(r, [run[r] EXCEPT !.next = i + 1])
    /\ UNCHANGED <<file, concepts, hand>>

\* After the last kind the prune, if it was asked for.
EdgesAreMerged(r) ==
    /\ run[r].phase = "edges"
    /\ Turns(r) = {}
    /\ run' = [run EXCEPT ![r].phase = IF run[r].prune THEN "prune" ELSE "ok"]
    /\ UNCHANGED <<file, concepts, rel, hand>>

\* Mutant of Orphan: only what has a time.
OrphanOfARun(r, k) ==
    rel[k] # NoRel /\ rel[k].synced_at # Never /\ rel[k].synced_at < run[r].syncedAt

\* A relationship without a time, or with one before the run's own.
Orphan(r, k) ==
    /\ rel[k] # NoRel
    /\ rel[k].synced_at = Never \/ rel[k].synced_at < run[r].syncedAt

\* DETACH DELETE takes the relationships of a concept with it.
Detached(k, ids) == k[1] \notin ids \/ k[2] \notin ids

Prunes(r) ==
    /\ run[r].phase = "prune"
    /\ concepts' = concepts \cap run[r].plan.concepts
    /\ rel' = [k \in Key |-> IF Orphan(r, k) \/ Detached(k, run[r].plan.concepts)
                               THEN NoRel ELSE rel[k]]
    /\ Commits(r, [run[r] EXCEPT !.phase = "ok"])
    /\ UNCHANGED <<file, hand>>

\* A transaction fails for good, or the run is killed.
RunFails(r) ==
    /\ run[r].phase \in {"loaded", "concepts", "edges", "prune"}
    /\ run' = [run EXCEPT ![r].phase = "failed"]
    /\ UNCHANGED <<file, concepts, rel, hand>>

-----------------------------------------------------------------------------
(* Neo4j Browser.                                                           *)

HandWrites ==
    /\ hand < MaxHandEdits
    /\ hand' = hand + 1
    /\ run' = [q \in Runs |-> [run[q] EXCEPT !.alone = FALSE]]
    /\ UNCHANGED file

EditsByHand ==
    /\ HandWrites
    /\ \E k \in HandKeys : /\ k[1] \in concepts /\ k[2] \in concepts
                           /\ \E new \in {NoRel, [strength |-> 1, synced_at |-> Never]} :
                                rel' = [rel EXCEPT ![k] = new]
    /\ UNCHANGED concepts

DeletesByHand ==
    /\ HandWrites
    /\ \E c \in concepts :
         /\ concepts' = concepts \ {c}
         /\ rel' = [k \in Key |-> IF Detached(k, concepts \ {c}) THEN NoRel ELSE rel[k]]

-----------------------------------------------------------------------------

Next ==
    \/ FileIsEdited
    \/ EditsByHand
    \/ DeletesByHand
    \/ \E r \in Runs :
         \/ \E prune, dryRun \in BOOLEAN : RunLoads(r, prune, dryRun)
         \/ RunTakesTime(r)
         \/ MergesConcepts(r)
         \/ MergesEdges(r)
         \/ EdgesAreMerged(r)
         \/ Prunes(r)
         \/ RunFails(r)

Spec == Init /\ [][Next]_vars

-----------------------------------------------------------------------------
(* Properties.                                                              *)

\* The database is between what it was when run r read its file and that file.
IsBetween(r) ==
    /\ run[r].had \cap PlanKeys(r) \subseteq Present
    /\ Present \subseteq run[r].had \cup PlanKeys(r)
    /\ run[r].hadConcepts \cap run[r].plan.concepts \subseteq concepts
    /\ concepts \subseteq run[r].hadConcepts \cup run[r].plan.concepts
    /\ run[r].phase \in {"refused", "dry", "loaded"} =>
         Present = run[r].had /\ concepts = run[r].hadConcepts

\* A run during which nobody else writes, wherever it is, stops or fails, and
\* whichever of its transactions are repeated, leaves the router's readers with
\* no less than the database and the file have in common and no more than they
\* have together; and before its first transaction, or as a dry run or with an
\* invalid file, it changed nothing (sync.go applyPlanOn, main.go;
\* graph-sync/spec.md:19).
ReadersSeeOldOrNew ==
    \A r \in Runs : run[r].phase # "idle" /\ run[r].alone => IsBetween(r)

\* A relationship that a prune with the time of run r does not take for an orphan.
IsAhead(r, k) == rel[k].synced_at # Never /\ rel[k].synced_at >= run[r].syncedAt

\* Such a run that ends well has brought over the whole of its file, whatever
\* failed runs, overlapping runs, hand edits and other clocks had left before it.
\* With -prune it has left nothing else but relationships that were there when
\* it read the file, from a run whose clock was not behind its own, between
\* concepts of the file (sync.go, cypher.go:63, main.go:81).
RunReconciles ==
    \A r \in Runs : run[r].phase = "ok" /\ run[r].alone =>
      /\ run[r].plan.concepts \subseteq concepts
      /\ \A e \in run[r].plan.edges :
           rel[KeyOf(e)] # NoRel /\ rel[KeyOf(e)].strength = e.strength
      /\ run[r].prune =>
           /\ concepts = run[r].plan.concepts
           /\ \A k \in Present \ PlanKeys(r) : k \in run[r].had /\ IsAhead(r, k)

\* docs/neo4j-gcp.md:181 promises more of -prune, that it deletes the concepts
\* and edges the file does not have.  Not true when an earlier run's clock was
\* ahead, or showed the same time.
PruneLeavesOnlyTheFile ==
    \A r \in Runs : run[r].phase = "ok" /\ run[r].alone /\ run[r].prune =>
      Present = PlanKeys(r) /\ concepts = run[r].plan.concepts

-----------------------------------------------------------------------------
(* The inductive invariant.                                                 *)

HasConcepts == {"edges", "prune", "ok"}

\* A plan is a file that loaded.
PlansLoad ==
    \A r \in Runs : run[r].phase \notin {"idle", "refused", "failed"} =>
      Loads(run[r].plan.edges, run[r].plan.concepts)

EndsAreThere == \A k \in Present : k[1] \in concepts /\ k[2] \in concepts

\* What a run has merged so far.
IsMerged(r, e) ==
    /\ rel[KeyOf(e)] # NoRel
    /\ rel[KeyOf(e)].strength = e.strength
    /\ rel[KeyOf(e)].synced_at = run[r].syncedAt

MergedSoFar(r) ==
    {e \in run[r].plan.edges : \A i \in DOMAIN AllKinds : e.kind = AllKinds[i] => i < run[r].next}

\* What a run that is alone has done so far.
IsOnItsWay(r) ==
    /\ run[r].phase \in {"loaded", "concepts"} => run[r].next = 1
    /\ run[r].phase \in HasConcepts => run[r].plan.concepts \subseteq concepts
    /\ run[r].phase = "edges" => \A e \in MergedSoFar(r) : IsMerged(r, e)
    /\ run[r].phase \in {"prune", "ok"} => \A e \in run[r].plan.edges : IsMerged(r, e)
    /\ run[r].phase = "ok" /\ run[r].prune =>
         /\ concepts \subseteq run[r].plan.concepts
         /\ \A k \in Present \ PlanKeys(r) : IsAhead(r, k)

RunIsOnItsWay == \A r \in Runs : run[r].alone => IsOnItsWay(r)

IInv ==
    /\ TypeOK
    /\ PlansLoad
    /\ EndsAreThere
    /\ RunIsOnItsWay
    /\ ReadersSeeOldOrNew

=============================================================================
