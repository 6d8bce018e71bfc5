--------------------------- MODULE StationLedger ---------------------------
(***************************************************************************)
(* The in-memory ledger of live stations (pkg/vector/station_ledger.go).   *)
(*                                                                         *)
(* A record remembers who asked for a station, how far its generation got  *)
(* and whether somebody is generating it right now.  Every operation runs  *)
(* under the ledger's mutex, so each is one action, and every operation    *)
(* first drops the records older than StationTTL.  Payload fields (the     *)
(* request, the generated content, the failure cause) are carried by the   *)
(* record's status: a record holds a result exactly when it is "ready".    *)
(* UpdatedAt is written by the code and read by none of the operations.    *)
(***************************************************************************)
EXTENDS Integers

CONSTANTS
    Stations,     \* tracking ULIDs; each miss mints a fresh one
    Students,     \* student ids
    Nobody,       \* the empty student id
    Absent,       \* no record under this ULID
    StationTTL    \* AVLP_STATION_TTL, in clock ticks

ASSUME LedgerConstants ==
    /\ StationTTL \in Nat
    /\ Nobody \notin Students

VARIABLES
    ledger,       \* byID: Stations -> record or Absent
    now           \* the clock every component reads

StationStatus == {"in_progress", "ready", "failed"}

StationRecord == [owner    : Students \cup {Nobody},
                  status   : StationStatus,
                  retrying : BOOLEAN,
                  created  : Nat]

ASSUME AbsentIsNoRecord == Absent \notin StationRecord

LedgerTypeOK ==
    /\ ledger \in [Stations -> StationRecord \cup {Absent}]
    /\ now \in Nat

LedgerInit ==
    /\ ledger = [s \in Stations |-> Absent]
    /\ now = 0

-----------------------------------------------------------------------------

Expired(rec, t) == t - rec.created > StationTTL

\* purgeLocked: the ledger once every expired record is dropped.
Purged == [s \in Stations |->
             IF ledger[s] # Absent /\ Expired(ledger[s], now)
               THEN Absent ELSE ledger[s]]

Present(s) == Purged[s] # Absent

\* RegisterInProgress: a new record, over whatever was there.
RegisterInProgress(s, student) ==
    ledger' = [Purged EXCEPT ![s] = [owner    |-> student,
                                     status   |-> "in_progress",
                                     retrying |-> FALSE,
                                     created  |-> now]]

\* Mutant of MarkReady: the flag stays set.
MarkReadyKeepingFlag(s) ==
    ledger' = [Purged EXCEPT ![s] =
                 [owner    |-> IF Present(s) THEN @.owner ELSE Nobody,
                  status   |-> "ready",
                  retrying |-> Present(s) /\ @.retrying,
                  created  |-> IF Present(s) THEN @.created ELSE now]]

\* MarkReady: a record that expired meanwhile comes back, without its owner.
MarkReady(s) ==
    ledger' = [Purged EXCEPT ![s] =
                 [owner    |-> IF Present(s) THEN @.owner ELSE Nobody,
                  status   |-> "ready",
                  retrying |-> FALSE,
                  created  |-> IF Present(s) THEN @.created ELSE now]]

\* Mutant of MarkFailed: the flag stays set.
MarkFailedKeepingFlag(s) ==
    ledger' = IF Present(s) THEN [Purged EXCEPT ![s].status = "failed"] ELSE Purged

\* MarkFailed: does not bring back a record that expired meanwhile.
MarkFailed(s) ==
    ledger' = IF Present(s)
                THEN [Purged EXCEPT ![s].status = "failed", ![s].retrying = FALSE]
                ELSE Purged

\* Mutants of MayGenerate: the flag, or the status, is not looked at.
MayGenerateIgnoringFlag(s) == Present(s) /\ Purged[s].status \in {"in_progress", "failed"}
MayGenerateIgnoringStatus(s) == Present(s) /\ ~ Purged[s].retrying

\* TryBeginRetry hands the generation to the caller under this condition...
MayGenerate(s) ==
    /\ Present(s)
    /\ Purged[s].status \in {"in_progress", "failed"}
    /\ ~ Purged[s].retrying

\* ... and then sets the flag; it returns a snapshot otherwise.
TryBeginRetry(s) ==
    ledger' = IF MayGenerate(s) THEN [Purged EXCEPT ![s].retrying = TRUE]
                                ELSE Purged

\* The status in the snapshot of a refused TryBeginRetry.
RefusedStatus(s) ==
    CASE ~ Present(s)                                     -> "not_found"
      [] Present(s) /\ Purged[s].status = "ready"         -> "ready"
      [] Present(s) /\ Purged[s].status # "ready"         -> "in_progress"

\* Get: the caller reads Purged[s]; the purge itself stays.
Get == ledger' = Purged

GotStatus(s) == IF Present(s) THEN Purged[s].status ELSE "not_found"

=============================================================================
