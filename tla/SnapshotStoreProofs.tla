------------------------ MODULE SnapshotStoreProofs ------------------------
(***************************************************************************)
(* The invariants of SnapshotStore hold for any updates, timers and bounds.*)
(*                                                                         *)
(* IInv adds to the three properties what makes them inductive: a snapshot *)
(* held by a writer is a part of memory (SnapshotsAreOld), the writers that*)
(* may still rename after Close hold what Close promised (CloseCovers), and*)
(* the closer writes only while Close runs (CloserIsClose).  One lemma per *)
(* action; in each, one step per conjunct.                                 *)
(***************************************************************************)
EXTENDS SnapshotStore, TLAPS

\* Applies preserves the invariant.
LEMMA AppliesKeepsIInv ==
    ASSUME IInv, NEW u \in Updates, Applies(u)
    PROVE  IInv'
<1> USE SnapshotStoreConstants DEF IInv, Applies, flags, bounds, history, MoveFlush, EndWrite, ScheduleFlush, At, Closed, Flushers
<1>1. TypeOK'
  BY DEF TypeOK, FlushPhase
<1>2. NothingForgotten'
  BY DEF TypeOK, NothingForgotten, Answered, Carries, SnapshotsAreOld, CloserIsClose
<1>3. DirtyIsScheduled'
  BY DEF TypeOK, DirtyIsScheduled
<1>4. CloseSaves'
  BY DEF TypeOK, CloseSaves, CloseCovers, CloserIsClose
<1>5. CloseCovers'
  BY DEF TypeOK, CloseCovers, CloserIsClose, Answered, SnapshotsAreOld
<1>6. SnapshotsAreOld'
  BY DEF TypeOK, SnapshotsAreOld
<1>7. CloserIsClose'
  BY DEF TypeOK, CloserIsClose
<1>8. QED
  BY <1>1, <1>2, <1>3, <1>4, <1>5, <1>6, <1>7

\* Answers preserves the invariant.
LEMMA AnswersKeepsIInv ==
    ASSUME IInv, NEW u \in Updates, Answers(u)
    PROVE  IInv'
<1> USE SnapshotStoreConstants DEF IInv, Answers, flags, bounds, history, MoveFlush, EndWrite, ScheduleFlush, At, Closed, Flushers
<1>1. TypeOK'
  BY DEF TypeOK, FlushPhase
<1>2. NothingForgotten'
  BY DEF TypeOK, NothingForgotten, Answered, Carries, SnapshotsAreOld, CloserIsClose
<1>3. DirtyIsScheduled'
  BY DEF TypeOK, DirtyIsScheduled
<1>4. CloseSaves'
  BY DEF TypeOK, CloseSaves, CloseCovers, CloserIsClose
<1>5. CloseCovers'
  BY DEF TypeOK, CloseCovers, CloserIsClose, Answered, SnapshotsAreOld
<1>6. SnapshotsAreOld'
  BY DEF TypeOK, SnapshotsAreOld
<1>7. CloserIsClose'
  BY DEF TypeOK, CloserIsClose
<1>8. QED
  BY <1>1, <1>2, <1>3, <1>4, <1>5, <1>6, <1>7

\* TimerFires preserves the invariant.
LEMMA TimerFiresKeepsIInv ==
    ASSUME IInv, NEW f \in Timers, TimerFires(f)
    PROVE  IInv'
<1> USE SnapshotStoreConstants DEF IInv, TimerFires, flags, bounds, history, MoveFlush, EndWrite, ScheduleFlush, At, Closed, Flushers
<1>1. TypeOK'
  BY DEF TypeOK, FlushPhase
<1>2. NothingForgotten'
  BY DEF TypeOK, NothingForgotten, Answered, Carries, SnapshotsAreOld, CloserIsClose
<1>3. DirtyIsScheduled'
  BY DEF TypeOK, DirtyIsScheduled
<1>4. CloseSaves'
  BY DEF TypeOK, CloseSaves, CloseCovers, CloserIsClose
<1>5. CloseCovers'
  BY DEF TypeOK, CloseCovers, CloserIsClose, Answered, SnapshotsAreOld
<1>6. SnapshotsAreOld'
  BY DEF TypeOK, SnapshotsAreOld
<1>7. CloserIsClose'
  BY DEF TypeOK, CloserIsClose
<1>8. QED
  BY <1>1, <1>2, <1>3, <1>4, <1>5, <1>6, <1>7

\* FlushIsCalled preserves the invariant.
LEMMA FlushIsCalledKeepsIInv ==
    ASSUME IInv, NEW f \in Timers, FlushIsCalled(f)
    PROVE  IInv'
<1> USE SnapshotStoreConstants DEF IInv, FlushIsCalled, flags, bounds, history, MoveFlush, EndWrite, ScheduleFlush, At, Closed, Flushers
<1>1. TypeOK'
  BY DEF TypeOK, FlushPhase
<1>2. NothingForgotten'
  BY DEF TypeOK, NothingForgotten, Answered, Carries, SnapshotsAreOld, CloserIsClose
<1>3. DirtyIsScheduled'
  BY DEF TypeOK, DirtyIsScheduled
<1>4. CloseSaves'
  BY DEF TypeOK, CloseSaves, CloseCovers, CloserIsClose
<1>5. CloseCovers'
  BY DEF TypeOK, CloseCovers, CloserIsClose, Answered, SnapshotsAreOld
<1>6. SnapshotsAreOld'
  BY DEF TypeOK, SnapshotsAreOld
<1>7. CloserIsClose'
  BY DEF TypeOK, CloserIsClose
<1>8. QED
  BY <1>1, <1>2, <1>3, <1>4, <1>5, <1>6, <1>7

\* CloseBegins preserves the invariant.
LEMMA CloseBeginsKeepsIInv ==
    ASSUME IInv, CloseBegins
    PROVE  IInv'
<1> USE SnapshotStoreConstants DEF IInv, CloseBegins, flags, bounds, history, MoveFlush, EndWrite, ScheduleFlush, At, Closed, Flushers
<1>1. TypeOK'
  <2>1. flush' \in [Flushers -> [phase : FlushPhase, snap : SUBSET Updates]]
    BY DEF TypeOK, FlushPhase
  <2>2. promised' \subseteq Updates /\ overtaken' \in BOOLEAN
    BY DEF TypeOK, Answered
  <2>3. QED
    BY <2>1, <2>2 DEF TypeOK
<1>2. NothingForgotten'
  BY DEF TypeOK, NothingForgotten, Answered, Carries, SnapshotsAreOld, CloserIsClose
<1>3. DirtyIsScheduled'
  BY DEF TypeOK, DirtyIsScheduled
<1>4. CloseSaves'
  BY DEF TypeOK, CloseSaves, CloseCovers, CloserIsClose
<1>5. CloseCovers'
  BY DEF TypeOK, CloseCovers, CloserIsClose, Answered, SnapshotsAreOld
<1>6. SnapshotsAreOld'
  BY DEF TypeOK, SnapshotsAreOld
<1>7. CloserIsClose'
  BY DEF TypeOK, CloserIsClose
<1>8. QED
  BY <1>1, <1>2, <1>3, <1>4, <1>5, <1>6, <1>7

\* FlushClaims preserves the invariant.
LEMMA FlushClaimsKeepsIInv ==
    ASSUME IInv, NEW f \in Flushers, FlushClaims(f)
    PROVE  IInv'
<1> USE SnapshotStoreConstants DEF IInv, FlushClaims, flags, bounds, history, MoveFlush, EndWrite, ScheduleFlush, At, Closed, Flushers
<1>1. TypeOK'
  BY DEF TypeOK, FlushPhase
<1>2. NothingForgotten'
  BY DEF TypeOK, NothingForgotten, Answered, Carries, SnapshotsAreOld, CloserIsClose
<1>3. DirtyIsScheduled'
  BY DEF TypeOK, DirtyIsScheduled
<1>4. CloseSaves'
  BY DEF TypeOK, CloseSaves, CloseCovers, CloserIsClose
<1>5. CloseCovers'
  BY DEF TypeOK, CloseCovers, CloserIsClose, Answered, SnapshotsAreOld
<1>6. SnapshotsAreOld'
  BY DEF TypeOK, SnapshotsAreOld
<1>7. CloserIsClose'
  BY DEF TypeOK, CloserIsClose
<1>8. QED
  BY <1>1, <1>2, <1>3, <1>4, <1>5, <1>6, <1>7

\* TakesSnapshot preserves the invariant.
LEMMA TakesSnapshotKeepsIInv ==
    ASSUME IInv, NEW f \in Flushers, TakesSnapshot(f)
    PROVE  IInv'
<1> USE SnapshotStoreConstants DEF IInv, TakesSnapshot, flags, bounds, history, MoveFlush, EndWrite, ScheduleFlush, At, Closed, Flushers
<1>1. TypeOK'
  BY DEF TypeOK, FlushPhase
<1>2. NothingForgotten'
  BY DEF TypeOK, NothingForgotten, Answered, Carries, SnapshotsAreOld, CloserIsClose
<1>3. DirtyIsScheduled'
  BY DEF TypeOK, DirtyIsScheduled
<1>4. CloseSaves'
  BY DEF TypeOK, CloseSaves, CloseCovers, CloserIsClose
<1>5. CloseCovers'
  BY DEF TypeOK, CloseCovers, CloserIsClose, Answered, SnapshotsAreOld
<1>6. SnapshotsAreOld'
  BY DEF TypeOK, SnapshotsAreOld
<1>7. CloserIsClose'
  BY DEF TypeOK, CloserIsClose
<1>8. QED
  BY <1>1, <1>2, <1>3, <1>4, <1>5, <1>6, <1>7

\* Renames preserves the invariant.
LEMMA RenamesKeepsIInv ==
    ASSUME IInv, NEW f \in Flushers, Renames(f)
    PROVE  IInv'
<1> USE SnapshotStoreConstants DEF IInv, Renames, flags, bounds, history, MoveFlush, EndWrite, ScheduleFlush, At, Closed, Flushers
<1>1. TypeOK'
  BY DEF TypeOK, FlushPhase
<1>2. NothingForgotten'
  BY DEF TypeOK, NothingForgotten, Answered, Carries, SnapshotsAreOld, CloserIsClose
<1>3. DirtyIsScheduled'
  BY DEF TypeOK, DirtyIsScheduled
<1>4. CloseSaves'
  BY DEF TypeOK, CloseSaves, CloseCovers, CloserIsClose
<1>5. CloseCovers'
  BY DEF TypeOK, CloseCovers, CloserIsClose, Answered, SnapshotsAreOld
<1>6. SnapshotsAreOld'
  BY DEF TypeOK, SnapshotsAreOld
<1>7. CloserIsClose'
  BY DEF TypeOK, CloserIsClose
<1>8. QED
  BY <1>1, <1>2, <1>3, <1>4, <1>5, <1>6, <1>7

\* WriteFails preserves the invariant.
LEMMA WriteFailsKeepsIInv ==
    ASSUME IInv, NEW f \in Flushers, WriteFails(f)
    PROVE  IInv'
<1> USE SnapshotStoreConstants DEF IInv, WriteFails, flags, bounds, history, MoveFlush, EndWrite, ScheduleFlush, At, Closed, Flushers
<1>1. TypeOK'
  BY DEF TypeOK, FlushPhase
<1>2. NothingForgotten'
  BY DEF TypeOK, NothingForgotten, Answered, Carries, SnapshotsAreOld, CloserIsClose
<1>3. DirtyIsScheduled'
  BY DEF TypeOK, DirtyIsScheduled
<1>4. CloseSaves'
  BY DEF TypeOK, CloseSaves, CloseCovers, CloserIsClose
<1>5. CloseCovers'
  BY DEF TypeOK, CloseCovers, CloserIsClose, Answered, SnapshotsAreOld
<1>6. SnapshotsAreOld'
  BY DEF TypeOK, SnapshotsAreOld
<1>7. CloserIsClose'
  BY DEF TypeOK, CloserIsClose
<1>8. QED
  BY <1>1, <1>2, <1>3, <1>4, <1>5, <1>6, <1>7

\* RollsBack preserves the invariant.
LEMMA RollsBackKeepsIInv ==
    ASSUME IInv, NEW f \in Flushers, RollsBack(f)
    PROVE  IInv'
<1> USE SnapshotStoreConstants DEF IInv, RollsBack, flags, bounds, history, MoveFlush, EndWrite, ScheduleFlush, At, Closed, Flushers
<1>1. TypeOK'
  BY DEF TypeOK, FlushPhase
<1>2. NothingForgotten'
  BY DEF TypeOK, NothingForgotten, Answered, Carries, SnapshotsAreOld, CloserIsClose
<1>3. DirtyIsScheduled'
  BY DEF TypeOK, DirtyIsScheduled
<1>4. CloseSaves'
  BY DEF TypeOK, CloseSaves, CloseCovers, CloserIsClose
<1>5. CloseCovers'
  BY DEF TypeOK, CloseCovers, CloserIsClose, Answered, SnapshotsAreOld
<1>6. SnapshotsAreOld'
  BY DEF TypeOK, SnapshotsAreOld
<1>7. CloserIsClose'
  BY DEF TypeOK, CloserIsClose
<1>8. QED
  BY <1>1, <1>2, <1>3, <1>4, <1>5, <1>6, <1>7

\* Reschedules preserves the invariant.
LEMMA ReschedulesKeepsIInv ==
    ASSUME IInv, NEW f \in Flushers, Reschedules(f)
    PROVE  IInv'
<1> USE SnapshotStoreConstants DEF IInv, Reschedules, flags, bounds, history, MoveFlush, EndWrite, ScheduleFlush, At, Closed, Flushers
<1>1. TypeOK'
  BY DEF TypeOK, FlushPhase
<1>2. NothingForgotten'
  BY DEF TypeOK, NothingForgotten, Answered, Carries, SnapshotsAreOld, CloserIsClose
<1>3. DirtyIsScheduled'
  BY DEF TypeOK, DirtyIsScheduled
<1>4. CloseSaves'
  BY DEF TypeOK, CloseSaves, CloseCovers, CloserIsClose
<1>5. CloseCovers'
  BY DEF TypeOK, CloseCovers, CloserIsClose, Answered, SnapshotsAreOld
<1>6. SnapshotsAreOld'
  BY DEF TypeOK, SnapshotsAreOld
<1>7. CloserIsClose'
  BY DEF TypeOK, CloserIsClose
<1>8. QED
  BY <1>1, <1>2, <1>3, <1>4, <1>5, <1>6, <1>7

\* Restart preserves the invariant.
LEMMA RestartKeepsIInv ==
    ASSUME IInv, Restart
    PROVE  IInv'
<1>1. TypeOK'
  <2>1. flush' \in [Flushers -> [phase : FlushPhase, snap : SUBSET Updates]]
    BY DEF Restart, FlushPhase
  <2>2. update' \in [Updates -> {"new", "applied", "answered", "dead"}]
    BY DEF IInv, TypeOK, Restart
  <2>3. restarts' \in Nat /\ failures' \in Nat
    BY DEF IInv, TypeOK, Restart
  <2>4. /\ mem' \subseteq Updates /\ disk' \subseteq Updates
        /\ saved' \subseteq Updates /\ promised' \subseteq Updates
    BY DEF IInv, TypeOK, Restart
  <2>5. /\ dirty' \in BOOLEAN /\ flushScheduled' \in BOOLEAN /\ overtaken' \in BOOLEAN
        /\ close' \in {"open", "closing", "ok", "failed"}
    BY DEF Restart
  <2>6. QED
    BY <2>1, <2>2, <2>3, <2>4, <2>5 DEF TypeOK
<1> USE SnapshotStoreConstants DEF IInv, Restart, flags, bounds, history, MoveFlush, EndWrite, ScheduleFlush, At, Closed, Flushers
<1>2. NothingForgotten'
  BY DEF TypeOK, NothingForgotten, Answered, Carries, SnapshotsAreOld, CloserIsClose
<1>3. DirtyIsScheduled'
  BY DEF TypeOK, DirtyIsScheduled
<1>4. CloseSaves'
  BY DEF TypeOK, CloseSaves, CloseCovers, CloserIsClose
<1>5. CloseCovers'
  BY DEF TypeOK, CloseCovers, CloserIsClose, Answered, SnapshotsAreOld
<1>6. SnapshotsAreOld'
  BY DEF TypeOK, SnapshotsAreOld
<1>7. CloserIsClose'
  BY DEF TypeOK, CloserIsClose
<1>8. QED
  BY <1>1, <1>2, <1>3, <1>4, <1>5, <1>6, <1>7

\* A new store satisfies it.
LEMMA InitIInv == Init => IInv
<1> SUFFICES ASSUME Init PROVE IInv
  OBVIOUS
<1>1. flush \in [Flushers -> [phase : FlushPhase, snap : SUBSET Updates]]
  BY DEF Init, FlushPhase
<1>2. TypeOK
  BY <1>1, SnapshotStoreConstants DEF Init, TypeOK
<1>3. \A f \in Flushers : flush[f].phase = "idle"
  BY DEF Init
<1>4. ~ Closed /\ ~ dirty /\ mem = {} /\ disk = {} /\ close = "open" /\ Closer \in Flushers
  BY DEF Init, Closed, Flushers
<1>5. QED
  BY <1>2, <1>3, <1>4 DEF IInv, NothingForgotten, Answered, DirtyIsScheduled, CloseSaves, CloseCovers,
     SnapshotsAreOld, CloserIsClose, At

\* Every step of the store preserves it.
LEMMA NextIInv == IInv /\ [Next]_vars => IInv'
<1> SUFFICES ASSUME IInv, [Next]_vars PROVE IInv'
  OBVIOUS
<1>1. CASE Next
  BY <1>1, AppliesKeepsIInv, AnswersKeepsIInv, TimerFiresKeepsIInv, FlushIsCalledKeepsIInv, CloseBeginsKeepsIInv, FlushClaimsKeepsIInv, TakesSnapshotKeepsIInv, RenamesKeepsIInv, WriteFailsKeepsIInv, RollsBackKeepsIInv, ReschedulesKeepsIInv, RestartKeepsIInv DEF Next, FlushStep, Flushers
<1>2. CASE UNCHANGED vars
  BY <1>2 DEF vars, flags, bounds, history, IInv, TypeOK, NothingForgotten, Answered, Carries, DirtyIsScheduled,
     CloseSaves, CloseCovers, SnapshotsAreOld, CloserIsClose, Closed, At
<1>3. QED
  BY <1>1, <1>2

\* The inductive invariant holds in every reachable state.
THEOREM Invariance == Spec => []IInv
  BY InitIInv, NextIInv, PTL DEF Spec

\* No answered update that was never written is forgotten while the store is open.
THEOREM NothingForgottenHolds == Spec => []NothingForgotten
  BY Invariance, PTL DEF IInv

\* An open store with unsaved data always has somebody who will write it.
THEOREM DirtyIsScheduledHolds == Spec => []DirtyIsScheduled
  BY Invariance, PTL DEF IInv

\* Close saves what was answered before it, unless an older snapshot overtakes it.
THEOREM CloseSavesHolds == Spec => []CloseSaves
  BY Invariance, PTL DEF IInv

=============================================================================
