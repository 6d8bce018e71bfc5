---------------------------- MODULE GuardedGraph ----------------------------
(***************************************************************************)
(* The read-only Neo4j client of pkg/knowledge/neo4jgraph: concurrent      *)
(* callers read through a TTL cache and a circuit breaker, and fall back   *)
(* to the curriculum file (ReadThrough) when the database does not answer. *)
(*                                                                         *)
(* Cache and breaker each have a mutex; a call takes and releases them     *)
(* several times, so every step below is one critical section or one query *)
(* of the database.  Instants are kept as the time left until them, which  *)
(* is all the code compares: an instant that has passed, and Go's zero     *)
(* time, are 0.                                                            *)
(***************************************************************************)
EXTENDS Naturals

CONSTANTS
  Callers,     \* goroutines that may read the graph at the same time
  Keys,        \* cached requests: a concept, its relations, a path
  Health,      \* the request that is never cached
  Contents,    \* what the database may hold for a key
  Absent,      \* the concept or the path does not exist
  Malformed,   \* a row that does not decode
  FromFile,    \* an answer of the fallback graph
  NoRow,
  Limit,       \* breaker.limit
  Cooldown,    \* breaker.cooldown
  TTL,         \* ttlCache.ttl
  MaxEdits     \* bound: how often the database is changed from outside

ASSUME GuardedGraphAssumption ==
  /\ {Limit, Cooldown, TTL} \subseteq Nat \ {0}
  /\ MaxEdits \in Nat
  /\ Health \notin Keys
  /\ {Absent, Malformed, NoRow} \cap Contents = {}

VARIABLES
  failures,    \* breaker.failures, counted up to Limit
  openFor,     \* time until breaker.openUntil
  loggedFor,   \* time until breaker.loggedOpenFor
  cache,       \* per key: the value and the time it is still served
  call,        \* per caller: where the call stands, its request and its row
  db, edits,   \* the database, and how often it was changed
  streak,      \* history: failures recorded since the last success, up to Limit
  quiet,       \* history: time since the last failure, up to Cooldown
  logs,        \* history: lines logged in the present open window, up to 2
  blamed       \* history: callers whose failure was recorded in that window

breaker == <<failures, openFor, loggedFor>>
history == <<streak, quiet, logs, blamed>>
vars == <<breaker, cache, call, db, edits, history>>

Rows == Contents \cup {Absent, Malformed}

Phases == {"idle", "missed", "allowed", "erred", "fetched", "decoded", "failed",
           "answered"}

Calls == [phase : Phases, key : Keys \cup {Health},
          row : Rows \cup {FromFile, NoRow}]

Empty == [row |-> NoRow, life |-> 0]
Idle == [phase |-> "idle", key |-> Health, row |-> NoRow]

TypeOK ==
  /\ failures \in 0..Limit
  /\ openFor \in 0..Cooldown
  /\ loggedFor \in 0..Cooldown
  /\ cache \in [Keys -> [row : Contents \cup {NoRow}, life : 0..(TTL + 1)]]
  /\ call \in [Callers -> Calls]
  /\ db \in [Keys -> Rows]
  /\ edits \in 0..MaxEdits
  /\ streak \in 0..Limit
  /\ quiet \in 0..Cooldown
  /\ logs \in 0..2
  /\ blamed \subseteq Callers

Init ==
  /\ failures = 0 /\ openFor = 0 /\ loggedFor = 0
  /\ cache = [k \in Keys |-> Empty]
  /\ call = [c \in Callers |-> Idle]
  /\ db \in [Keys -> Rows]
  /\ edits = 0
  /\ streak = 0 /\ quiet = Cooldown /\ logs = 0 /\ blamed = {}

At(c, p) == call[c].phase = p

\* The caller goes on to phase p with row r in hand.
Goes(c, p, r) == call' = [call EXCEPT ![c].phase = p, ![c].row = r]

-----------------------------------------------------------------------------
(* The breaker's critical sections.                                        *)

\* A breaker that never asks whether its window is open.
AllowAlways == TRUE

Allow == openFor = 0

\* A breaker that ends its window but not its count.
SuccessKeepsCount ==
  /\ failures' = failures
  /\ openFor' = 0
  /\ loggedFor' = 0

Success ==
  /\ failures' = 0
  /\ openFor' = 0
  /\ loggedFor' = 0

\* Reaching the limit opens the window, and every later failure moves its end.
Trips == failures + 1 >= Limit

\* A breaker that opens a window once and lets it run out.
FailureKeepsWindow ==
  IF Trips /\ openFor = 0
  THEN failures' = Limit /\ openFor' = Cooldown /\ loggedFor' = Cooldown
  ELSE failures' = (IF Trips THEN Limit ELSE failures + 1) /\ UNCHANGED <<openFor, loggedFor>>

Failure ==
  IF Trips
  THEN failures' = Limit /\ openFor' = Cooldown /\ loggedFor' = Cooldown
  ELSE failures' = failures + 1 /\ UNCHANGED <<openFor, loggedFor>>

\* The line is logged unless it was for a window with the very same end.
Logs == Trips /\ loggedFor # Cooldown

(* What an observer of the breaker notes down.                             *)

ObservesSuccess == streak' = 0 /\ quiet' = Cooldown /\ logs' = 0 /\ blamed' = {}

ObservesFailure(c) ==
  /\ streak' = IF streak < Limit THEN streak + 1 ELSE Limit
  /\ quiet' = 0
  /\ logs' = IF ~Logs THEN logs
             ELSE IF openFor = 0 \/ logs = 0 THEN 1 ELSE 2
  /\ blamed' = IF openFor' = 0 THEN {} ELSE blamed \cup {c}

-----------------------------------------------------------------------------
(* guarded, and ReadThrough around it.                                     *)

Served(k) == cache[k].life > 0

Begins(c, k, p, r) ==
  /\ At(c, "idle")
  /\ call' = [call EXCEPT ![c] = [phase |-> p, key |-> k, row |-> r]]

\* A cache whose entries live on while they are read.
CacheAnswersAndRenews(c, k) ==
  /\ k \in Keys
  /\ Served(k)
  /\ Begins(c, k, "answered", cache[k].row)
  /\ cache' = [cache EXCEPT ![k].life = TTL + 1]
  /\ UNCHANGED <<breaker, db, edits, history>>

CacheAnswers(c, k) ==
  /\ k \in Keys
  /\ Served(k)
  /\ Begins(c, k, "answered", cache[k].row)
  /\ UNCHANGED <<breaker, cache, db, edits, history>>

\* An expired entry is deleted; Health does not look.
CacheMisses(c, k) ==
  /\ k \in Keys => ~Served(k)
  /\ Begins(c, k, "missed", NoRow)
  /\ cache' = [j \in Keys |-> IF j = k THEN Empty ELSE cache[j]]
  /\ UNCHANGED <<breaker, db, edits, history>>

\* The request was cancelled before it began.
IsCancelled(c, k) ==
  /\ Begins(c, k, "failed", NoRow)
  /\ UNCHANGED <<breaker, cache, db, edits, history>>

AsksBreaker(c) ==
  /\ At(c, "missed")
  /\ Goes(c, IF Allow THEN "allowed" ELSE "failed", NoRow)
  /\ UNCHANGED <<breaker, cache, db, edits, history>>

Reads(c) ==
  /\ At(c, "allowed")
  /\ Goes(c, "fetched", IF call[c].key = Health THEN NoRow ELSE db[call[c].key])
  /\ UNCHANGED <<breaker, cache, db, edits, history>>

\* Any error of the driver: no connection, a timeout, a cancelled request.
ReadFails(c) ==
  /\ At(c, "allowed")
  /\ Goes(c, "erred", NoRow)
  /\ UNCHANGED <<breaker, cache, db, edits, history>>

RecordsFailure(c) ==
  /\ At(c, "erred")
  /\ Failure
  /\ ObservesFailure(c)
  /\ Goes(c, "failed", NoRow)
  /\ UNCHANGED <<cache, db, edits>>

\* The rows are decoded after the success is recorded: what is absent is the
\* answer, and what does not decode is an error that does not count.
RecordsSuccess(c) ==
  /\ At(c, "fetched")
  /\ Success
  /\ ObservesSuccess
  /\ \/ /\ call[c].row \in Contents
        /\ Goes(c, "decoded", call[c].row)
     \/ /\ call[c].row = Malformed
        /\ Goes(c, "failed", NoRow)
     \/ /\ call[c].row \in {Absent, NoRow}
        /\ Goes(c, "answered", call[c].row)
  /\ UNCHANGED <<cache, db, edits>>

Stores(c) ==
  /\ At(c, "decoded")
  /\ cache' = [cache EXCEPT ![call[c].key] = [row |-> call[c].row, life |-> TTL + 1]]
  /\ Goes(c, "answered", call[c].row)
  /\ UNCHANGED <<breaker, db, edits, history>>

FallsBack(c) ==
  /\ At(c, "failed")
  /\ Goes(c, "answered", FromFile)
  /\ UNCHANGED <<breaker, cache, db, edits, history>>

Returns(c) ==
  /\ At(c, "answered")
  /\ call' = [call EXCEPT ![c] = Idle]
  /\ UNCHANGED <<breaker, cache, db, edits, history>>

-----------------------------------------------------------------------------
(* Time passes, and graph-sync changes the database.                       *)

Less(n) == IF n > 0 THEN n - 1 ELSE 0

Tick ==
  /\ openFor' = Less(openFor)
  /\ loggedFor' = Less(loggedFor)
  /\ cache' = [k \in Keys |-> [cache[k] EXCEPT !.life = Less(@)]]
  /\ quiet' = IF quiet < Cooldown THEN quiet + 1 ELSE quiet
  /\ logs' = IF openFor' = 0 THEN 0 ELSE logs
  /\ blamed' = IF openFor' = 0 THEN {} ELSE blamed
  /\ UNCHANGED <<failures, call, db, edits, streak>>

Edits(k) ==
  /\ edits < MaxEdits
  /\ edits' = edits + 1
  /\ \E r \in Rows \ {db[k]} : db' = [db EXCEPT ![k] = r]
  /\ UNCHANGED <<breaker, cache, call, history>>

CallStep(c) ==
  \/ AsksBreaker(c) \/ Reads(c) \/ ReadFails(c) \/ RecordsFailure(c)
  \/ RecordsSuccess(c) \/ Stores(c) \/ FallsBack(c) \/ Returns(c)

BeginStep(c) ==
  \E k \in Keys \cup {Health} :
    CacheAnswers(c, k) \/ CacheMisses(c, k) \/ IsCancelled(c, k)

Next ==
  \/ \E c \in Callers : BeginStep(c) \/ CallStep(c)
  \/ \E k \in Keys : Edits(k)
  \/ Tick

Spec == Init /\ [][Next]_vars

\* Time passes, and an answer that is there is returned.  The database owes
\* nothing: a query may hang for ever.
FairSpec == Spec /\ WF_vars(Tick) /\ \A c \in Callers : WF_vars(Returns(c))

-----------------------------------------------------------------------------
(***************************************************************************)
(* The breaker is open exactly while the last Limit or more reads to end   *)
(* all failed and the cooldown has not passed since the last of them: a    *)
(* late success closes it, a late failure prolongs it, and after the       *)
(* cooldown one more failure opens it again (breaker.go, allow, success    *)
(* and failure called by readers that overlap).                            *)
(***************************************************************************)
WindowIsEarned ==
  openFor = IF streak = Limit THEN Cooldown - quiet ELSE 0

InFlight == {"allowed", "erred", "fetched"}

\* Who failed in the open window is not asking the database again.
BlamedCallersWait == \A c \in blamed : call[c].phase \notin InFlight

BlameNeedsWindow == blamed # {} => openFor > 0

\* The two instants of the breaker are always the same one.
LogMarkIsWindow == loggedFor = openFor

CountIsStreak == failures = streak

\* Only what was decoded is put in the cache.
DecodedIsContent == \A c \in Callers : At(c, "decoded") => call[c].row \in Contents

IInv ==
  /\ TypeOK
  /\ WindowIsEarned
  /\ BlamedCallersWait
  /\ BlameNeedsWindow
  /\ LogMarkIsWindow
  /\ CountIsStreak
  /\ DecodedIsContent

(***************************************************************************)
(* While the window is open a caller's failure is recorded at most once:   *)
(* the reads that were let through before it opened may each prolong it,   *)
(* and no read is let through after (guarded's allow before its run).      *)
(***************************************************************************)
OneFailurePerCaller ==
  [][\A c \in Callers :
       openFor > 0 /\ At(c, "erred") /\ ~At(c, "erred")' => c \notin blamed]_vars

(***************************************************************************)
(* An open window comes to an end though each late failure moves the end   *)
(* and the database may never answer (breaker.allow).                      *)
(***************************************************************************)
OpenWindowEnds == (openFor > 0) ~> (openFor = 0)

(***************************************************************************)
(* Once the database stops changing, the answers not taken from the file   *)
(* are what it holds: entries expire even if they are read all the time,   *)
(* and a slow read can put an old value back only for a while (ttlCache).  *)
(***************************************************************************)
AnswersBecomeFresh ==
  <>[](\A c \in Callers :
         At(c, "answered") /\ call[c].key \in Keys /\ call[c].row # FromFile
           => call[c].row = db[call[c].key])

(***************************************************************************)
(* "Log once per open window (not per request while open)", the comment in *)
(* breaker.failure.                                                        *)
(***************************************************************************)
OneLogPerWindow == logs <= 1

=============================================================================
