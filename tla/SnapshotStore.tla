--------------------------- MODULE SnapshotStore ---------------------------
(***************************************************************************)
(* A store kept in memory and written to one file from time to time        *)
(* (pkg/dua/profile_file.go; pkg/knowledge/visits_file.go is the same code *)
(* over the concept visits).                                               *)
(*                                                                         *)
(* The content is the set of updates applied to it: an update is one call  *)
(* of Apply, and updates of a profile are ordered by the inner store's     *)
(* mutex, so a snapshot is the set of the updates made before it.  A flush *)
(* claims the dirty flag under the mutex, and then takes its snapshot and  *)
(* replaces the file with no lock held: several flushes may overlap.       *)
(***************************************************************************)
EXTENDS Integers

CONSTANTS
    Updates,      \* calls of Apply
    Timers,       \* goroutines of time.AfterFunc, and callers of Flush
    Closer,       \* the caller of Close
    MaxFailures,  \* bound: writes that fail
    MaxRestarts   \* bound: crashes and restarts

ASSUME SnapshotStoreConstants ==
    /\ Closer \notin Timers
    /\ MaxFailures \in Nat
    /\ MaxRestarts \in Nat

Flushers == Timers \cup {Closer}

VARIABLES
    update,       \* how far each call of Apply got
    mem,          \* the updates in the inner store
    dirty, flushScheduled,
    close,        \* what became of Close; closed is set in all but "open"
    flush,        \* each flush under way, with its snapshot
    disk,         \* the updates in the file
    failures, restarts,
    saved,        \* history: the updates that were ever in the file
    promised,     \* history: the updates answered when Close was called
    overtaken     \* history: a writer then held a snapshot without them

flags == <<dirty, flushScheduled, close>>
bounds == <<failures, restarts>>
history == <<promised, overtaken>>
vars == <<update, mem, flags, flush, disk, bounds, saved, history>>

Closed == close # "open"

FlushPhase == {"idle", "starting", "claimed", "snapped", "failed", "rescheduling"}

TypeOK ==
    /\ update \in [Updates -> {"new", "applied", "answered", "dead"}]
    /\ mem \subseteq Updates
    /\ dirty \in BOOLEAN
    /\ flushScheduled \in BOOLEAN
    /\ close \in {"open", "closing", "ok", "failed"}
    /\ flush \in [Flushers -> [phase : FlushPhase, snap : SUBSET Updates]]
    /\ disk \subseteq Updates
    /\ failures \in Nat
    /\ restarts \in Nat
    /\ saved \subseteq Updates
    /\ promised \subseteq Updates
    /\ overtaken \in BOOLEAN

\* A new store over no file.
Init ==
    /\ update = [u \in Updates |-> "new"]
    /\ mem = {}
    /\ dirty = FALSE
    /\ flushScheduled = FALSE
    /\ close = "open"
    /\ flush = [f \in Flushers |-> [phase |-> "idle", snap |-> {}]]
    /\ disk = {}
    /\ failures = 0
    /\ restarts = 0
    /\ saved = {}
    /\ promised = {}
    /\ overtaken = FALSE

At(f, phase) == flush[f].phase = phase
MoveFlush(f, phase) == flush' = [flush EXCEPT ![f].phase = phase]

\* A snapshot is forgotten with the write it was taken for.
EndWrite(f, phase) == flush' = [flush EXCEPT ![f] = [phase |-> phase, snap |-> {}]]

-----------------------------------------------------------------------------
(* Apply: the inner store first, then scheduleFlush under the other mutex.  *)

Applies(u) ==
    /\ update[u] = "new"
    /\ update' = [update EXCEPT ![u] = "applied"]
    /\ mem' = mem \cup {u}
    /\ UNCHANGED <<flags, flush, disk, bounds, saved, history>>

\* scheduleFlush: nothing once closed; at most one timer at a time.
ScheduleFlush ==
    /\ dirty' = (dirty \/ ~ Closed)
    /\ flushScheduled' = (flushScheduled \/ ~ Closed)
    /\ UNCHANGED close

Answers(u) ==
    /\ update[u] = "applied"
    /\ update' = [update EXCEPT ![u] = "answered"]
    /\ ScheduleFlush
    /\ UNCHANGED <<mem, flush, disk, bounds, saved, history>>

-----------------------------------------------------------------------------
(* A flush starts from the timer, from Flush or from Close.                 *)

TimerFires(f) ==
    /\ flushScheduled
    /\ At(f, "idle")
    /\ flushScheduled' = FALSE
    /\ MoveFlush(f, "starting")
    /\ UNCHANGED <<update, mem, dirty, close, disk, bounds, saved, history>>

FlushIsCalled(f) ==
    /\ At(f, "idle")
    /\ MoveFlush(f, "starting")
    /\ UNCHANGED <<update, mem, flags, disk, bounds, saved, history>>

Answered == {u \in mem : update[u] = "answered"}

CloseBegins ==
    /\ close = "open"
    /\ close' = "closing"
    /\ MoveFlush(Closer, "starting")
    /\ promised' = Answered
    /\ overtaken' = \E f \in Flushers : At(f, "snapped") /\ ~ (Answered \subseteq flush[f].snap)
    /\ UNCHANGED <<update, mem, dirty, flushScheduled, disk, bounds, saved>>

\* Mutant of FlushClaims: Close does not force its write.
FlushClaimsUnforced(f) ==
    /\ At(f, "starting")
    /\ IF dirty THEN MoveFlush(f, "claimed") /\ UNCHANGED close
                ELSE /\ MoveFlush(f, "idle")
                     /\ close' = IF f = Closer THEN "ok" ELSE close
    /\ dirty' = FALSE
    /\ UNCHANGED <<update, mem, flushScheduled, disk, bounds, saved, history>>

\* flush returns at once when there is nothing to write, unless forced.
FlushClaims(f) ==
    /\ At(f, "starting")
    /\ MoveFlush(f, IF dirty \/ f = Closer THEN "claimed" ELSE "idle")
    /\ dirty' = FALSE
    /\ UNCHANGED <<update, mem, flushScheduled, close, disk, bounds, saved, history>>

-----------------------------------------------------------------------------
(* writeSnapshot: copy the inner store, write a temporary file, rename it.  *)

TakesSnapshot(f) ==
    /\ At(f, "claimed")
    /\ flush' = [flush EXCEPT ![f] = [phase |-> "snapped", snap |-> mem]]
    /\ UNCHANGED <<update, mem, flags, disk, bounds, saved, history>>

\* Mutant of Renames: the dirty flag is cleared after the write.
RenamesThenClears(f) ==
    /\ At(f, "snapped")
    /\ disk' = flush[f].snap
    /\ saved' = saved \cup flush[f].snap
    /\ EndWrite(f, "idle")
    /\ close' = IF f = Closer THEN "ok" ELSE close
    /\ dirty' = FALSE
    /\ UNCHANGED <<update, mem, flushScheduled, bounds, history>>

Renames(f) ==
    /\ At(f, "snapped")
    /\ disk' = flush[f].snap
    /\ saved' = saved \cup flush[f].snap
    /\ EndWrite(f, "idle")
    /\ close' = IF f = Closer THEN "ok" ELSE close
    /\ UNCHANGED <<update, mem, dirty, flushScheduled, bounds, history>>

\* Any step of writeSnapshot fails; the file is as it was.
WriteFails(f) ==
    /\ At(f, "snapped")
    /\ failures < MaxFailures
    /\ failures' = failures + 1
    /\ EndWrite(f, "failed")
    /\ UNCHANGED <<update, mem, flags, disk, restarts, saved, history>>

\* Mutant of RollsBack: the flag is set and no timer is asked for.
RollsBackOnly(f) ==
    /\ At(f, "failed")
    /\ dirty' = TRUE
    /\ MoveFlush(f, "idle")
    /\ close' = IF f = Closer THEN "failed" ELSE close
    /\ UNCHANGED <<update, mem, flushScheduled, disk, bounds, saved, history>>

\* flush sets the flag again, reads closed, and unlocks...
RollsBack(f) ==
    /\ At(f, "failed")
    /\ dirty' = TRUE
    /\ MoveFlush(f, IF Closed THEN "idle" ELSE "rescheduling")
    /\ close' = IF f = Closer THEN "failed" ELSE close
    /\ UNCHANGED <<update, mem, flushScheduled, disk, bounds, saved, history>>

\* ... and calls scheduleFlush, which locks anew.
Reschedules(f) ==
    /\ At(f, "rescheduling")
    /\ ScheduleFlush
    /\ MoveFlush(f, "idle")
    /\ UNCHANGED <<update, mem, disk, bounds, saved, history>>

-----------------------------------------------------------------------------
\* The process ends, by a crash or after Close, and a new one loads the file.
\* Calls under way die; only what the file holds comes back.
Restart ==
    /\ restarts < MaxRestarts
    /\ restarts' = restarts + 1
    /\ update' = [u \in Updates |-> IF update[u] = "applied" THEN "dead" ELSE update[u]]
    /\ mem' = disk
    /\ dirty' = FALSE
    /\ flushScheduled' = FALSE
    /\ close' = "open"
    /\ flush' = [f \in Flushers |-> [phase |-> "idle", snap |-> {}]]
    /\ promised' = {}
    /\ overtaken' = FALSE
    /\ UNCHANGED <<disk, failures, saved>>

FlushStep(f) ==
    \/ FlushClaims(f)
    \/ TakesSnapshot(f)
    \/ Renames(f)
    \/ WriteFails(f)
    \/ RollsBack(f)
    \/ Reschedules(f)

Next ==
    \/ \E u \in Updates : Applies(u) \/ Answers(u)
    \/ \E f \in Timers : TimerFires(f) \/ FlushIsCalled(f)
    \/ CloseBegins
    \/ \E f \in Flushers : FlushStep(f)
    \/ Restart

Spec == Init /\ [][Next]_vars

\* Timers fire and flushes go on while the process runs; the disk fails
\* MaxFailures times and works then.
FairSpec ==
    /\ Spec
    /\ WF_vars(\E f \in Timers : TimerFires(f))
    /\ \A f \in Flushers : WF_vars(FlushStep(f))

-----------------------------------------------------------------------------
(* Properties.                                                              *)

\* What update u still counts on to reach the file.
Carries(f, u) ==
    \/ flush[f].phase \in {"claimed", "failed", "rescheduling"}
    \/ At(f, "snapped") /\ u \in flush[f].snap

\* Until Close, an update whose Apply was answered and that was never in the
\* file is remembered: by the dirty flag, or by a flush that will write it
\* or set the flag again (claiming before the snapshot, rolling back on error).
NothingForgotten ==
    ~ Closed => \A u \in Answered \ saved : dirty \/ \E f \in Flushers : Carries(f, u)

\* Until Close, a dirty store has a timer, or a flush that is about to look at
\* the flag or to ask for a timer: no failure and no race of a timer with an
\* Apply leaves dirty data with nobody to write it.
DirtyIsScheduled ==
    ~ Closed /\ dirty => \/ flushScheduled
                         \/ \E f \in Flushers : flush[f].phase \in {"starting", "rescheduling"}

\* When Close returned without an error, the file holds every update answered
\* before the call, unless a flush had taken an older snapshot before the call
\* and was still writing it.  (Close forces a write even when another flush
\* has claimed the dirty flag and may yet fail.)
CloseSaves ==
    close = "ok" /\ ~ overtaken => promised \subseteq disk

\* Until Close or a crash, every answered update gets into the file at some time.
EveryUpdateIsSaved ==
    \A u \in Updates : u \in Answered ~> u \in saved \/ u \notin mem \/ Closed

\* The comment on Close: no write after it.  A flush still writing breaks this.
CloseIsFinal == [][close = "ok" => disk' = disk]_disk

\* A flush "debounced" by a second: once no flush is wanted, scheduled or under
\* way, the file holds what memory does.  A slow flush that renames an
\* older snapshot over a newer file breaks this, with nothing left to repair it.
QuietStoreIsSaved ==
    (/\ ~ Closed /\ ~ dirty /\ ~ flushScheduled
     /\ \A f \in Flushers : At(f, "idle")
     /\ \A u \in Updates : update[u] # "applied") => disk = mem

\* What CloseSaves rests on.
CloseCovers ==
    Closed /\ ~ overtaken =>
        /\ promised \subseteq mem
        /\ \A f \in Flushers : At(f, "snapped") => promised \subseteq flush[f].snap

\* Content only ever comes from memory, and what was written is remembered.
SnapshotsAreOld ==
    /\ disk \subseteq mem
    /\ disk \subseteq saved
    /\ \A f \in Flushers : At(f, "snapped") => flush[f].snap \subseteq mem

\* Close is the only one to use the closer, and once.
CloserIsClose ==
    ~ At(Closer, "idle") => close = "closing"

\* The inductive invariant.
IInv ==
    /\ TypeOK
    /\ NothingForgotten
    /\ DirtyIsScheduled
    /\ CloseSaves
    /\ CloseCovers
    /\ SnapshotsAreOld
    /\ CloserIsClose

=============================================================================
