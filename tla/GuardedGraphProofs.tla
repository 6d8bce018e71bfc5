------------------------- MODULE GuardedGraphProofs -------------------------
(***************************************************************************)
(* What the breaker of GuardedGraph keeps for every number of callers and  *)
(* every limit, cooldown and lifetime.                                     *)
(***************************************************************************)
EXTENDS GuardedGraph, TLAPS

\* Both the breaker and its observer start with nothing to report.
LEMMA InitIInv == Init => IInv
BY GuardedGraphAssumption
DEF Init, IInv, Calls, Phases, TypeOK, WindowIsEarned, BlamedCallersWait, BlameNeedsWindow, LogMarkIsWindow,
    CountIsStreak, DecodedIsContent, At, Empty, Idle, Rows

\* A call that moves on is still a call.
LEMMA GoesStaysCall ==
  ASSUME call \in [Callers -> Calls], NEW c \in Callers,
         NEW p \in Phases, NEW r \in Rows \cup {FromFile, NoRow}, Goes(c, p, r)
  PROVE  call' \in [Callers -> Calls]
<1> DEFINE new == [call[c] EXCEPT !.phase = p, !.row = r]
<1>1. call[c] \in Calls
  OBVIOUS
<1>2. new \in Calls
  BY <1>1 DEF Calls
<1>3. call' = [call EXCEPT ![c] = new]
  BY DEF Goes
<1> QED BY <1>2, <1>3

\* A call that begins is a call.
LEMMA BeginsStaysCall ==
  ASSUME call \in [Callers -> Calls], NEW c \in Callers,
         NEW k \in Keys \cup {Health}, NEW p \in Phases,
         NEW r \in Rows \cup {FromFile, NoRow}, Begins(c, k, p, r)
  PROVE  call' \in [Callers -> Calls]
<1>1. [phase |-> p, key |-> k, row |-> r] \in Calls
  BY DEF Calls
<1> QED BY <1>1 DEF Begins

\* Types are kept by every step of the callers, of time and of the database.
LEMMA TypeStep ==
  ASSUME TypeOK, DecodedIsContent, [Next]_vars
  PROVE  TypeOK'
<1> USE GuardedGraphAssumption DEF TypeOK
<1>1. ASSUME NEW c \in Callers, NEW k \in Keys, CacheAnswers(c, k)
      PROVE  TypeOK'
  <2>1. cache[k].row \in Rows \cup {FromFile, NoRow}
    BY DEF Rows
  <2>2. call' \in [Callers -> Calls]
    BY <1>1, <2>1, BeginsStaysCall DEF CacheAnswers, Phases
  <2> QED BY <1>1, <2>2 DEF CacheAnswers, breaker, history
<1>2. ASSUME NEW c \in Callers, NEW k \in Keys \cup {Health}, CacheMisses(c, k)
      PROVE  TypeOK'
  <2>1. call' \in [Callers -> Calls]
    BY <1>2, BeginsStaysCall DEF CacheMisses, Phases
  <2> QED BY <1>2, <2>1 DEF CacheMisses, Empty, breaker, history
<1>3. ASSUME NEW c \in Callers, NEW k \in Keys \cup {Health}, IsCancelled(c, k)
      PROVE  TypeOK'
  <2>1. call' \in [Callers -> Calls]
    BY <1>3, BeginsStaysCall DEF IsCancelled, Phases
  <2> QED BY <1>3, <2>1 DEF IsCancelled, breaker, history
<1>4. ASSUME NEW c \in Callers, AsksBreaker(c)
      PROVE  TypeOK'
  <2>1. call' \in [Callers -> Calls]
    <3>1. CASE Allow
      BY <1>4, <3>1, GoesStaysCall DEF AsksBreaker, Phases
    <3>2. CASE ~Allow
      BY <1>4, <3>2, GoesStaysCall DEF AsksBreaker, Phases
    <3> QED BY <3>1, <3>2
  <2> QED BY <1>4, <2>1 DEF AsksBreaker, breaker, history
<1>5. ASSUME NEW c \in Callers, Reads(c)
      PROVE  TypeOK'
  <2> DEFINE r == IF call[c].key = Health THEN NoRow ELSE db[call[c].key]
  <2>1. r \in Rows \cup {FromFile, NoRow}
    BY DEF Calls
  <2>2. Goes(c, "fetched", r)
    BY <1>5 DEF Reads
  <2>3. call' \in [Callers -> Calls]
    BY <2>1, <2>2, GoesStaysCall DEF Phases
  <2> QED BY <1>5, <2>3 DEF Reads, breaker, history
<1>6. ASSUME NEW c \in Callers, ReadFails(c)
      PROVE  TypeOK'
  <2>1. call' \in [Callers -> Calls]
    BY <1>6, GoesStaysCall DEF ReadFails, Phases
  <2> QED BY <1>6, <2>1 DEF ReadFails, breaker, history
<1>7. ASSUME NEW c \in Callers, RecordsFailure(c)
      PROVE  TypeOK'
  <2>1. failures' \in 0..Limit /\ openFor' \in 0..Cooldown /\ loggedFor' \in 0..Cooldown
    BY <1>7 DEF RecordsFailure, Failure, Trips
  <2>2. streak' \in 0..Limit /\ quiet' \in 0..Cooldown
    BY <1>7 DEF RecordsFailure, ObservesFailure
  <2>3. logs' \in 0..2
    BY <1>7 DEF RecordsFailure, ObservesFailure
  <2>4. blamed' \subseteq Callers
    BY <1>7 DEF RecordsFailure, ObservesFailure
  <2>5. call' \in [Callers -> Calls]
    BY <1>7, GoesStaysCall DEF RecordsFailure, Phases
  <2> QED BY <1>7, <2>1, <2>2, <2>3, <2>4, <2>5 DEF RecordsFailure
<1>8. ASSUME NEW c \in Callers, RecordsSuccess(c)
      PROVE  TypeOK'
  <2>1. call[c].row \in Rows \cup {FromFile, NoRow}
    BY DEF Calls
  <2>2. call' \in [Callers -> Calls]
    BY <1>8, <2>1, GoesStaysCall DEF RecordsSuccess, Phases
  <2> QED BY <1>8, <2>2 DEF RecordsSuccess, Success, ObservesSuccess
<1>9. ASSUME NEW c \in Callers, Stores(c)
      PROVE  TypeOK'
  <2>1. call[c].row \in Rows \cup {FromFile, NoRow}
    BY DEF Calls
  <2>2. call' \in [Callers -> Calls]
    BY <1>9, <2>1, GoesStaysCall DEF Stores, Phases
  <2>3. cache' \in [Keys -> [row : Contents \cup {NoRow}, life : 0..(TTL + 1)]]
    <3>1. call[c].row \in Contents
      BY <1>9 DEF Stores, DecodedIsContent
    <3>2. [row |-> call[c].row, life |-> TTL + 1]
            \in [row : Contents \cup {NoRow}, life : 0..(TTL + 1)]
      BY <3>1
    <3> QED BY <1>9, <3>2 DEF Stores
  <2> QED BY <1>9, <2>2, <2>3 DEF Stores, breaker, history
<1>10. ASSUME NEW c \in Callers, FallsBack(c)
       PROVE  TypeOK'
  <2>1. call' \in [Callers -> Calls]
    BY <1>10, GoesStaysCall DEF FallsBack, Phases
  <2> QED BY <1>10, <2>1 DEF FallsBack, breaker, history
<1>11. ASSUME NEW c \in Callers, Returns(c)
       PROVE  TypeOK'
  <2>1. call' \in [Callers -> Calls]
    BY <1>11 DEF Returns, Idle, Calls, Phases
  <2> QED BY <1>11, <2>1 DEF Returns, breaker, history
<1>12. ASSUME Tick
       PROVE  TypeOK'
  <2>1. openFor' \in 0..Cooldown /\ loggedFor' \in 0..Cooldown
    BY <1>12 DEF Tick, Less
  <2>2. cache' \in [Keys -> [row : Contents \cup {NoRow}, life : 0..(TTL + 1)]]
    <3>1. ASSUME NEW k \in Keys
          PROVE  [cache[k] EXCEPT !.life = Less(@)]
                   \in [row : Contents \cup {NoRow}, life : 0..(TTL + 1)]
      <4>1. Less(cache[k].life) \in 0..(TTL + 1)
        BY DEF Less
      <4> QED BY <4>1
    <3> QED BY <1>12, <3>1 DEF Tick
  <2>3. quiet' \in 0..Cooldown /\ logs' \in 0..2 /\ blamed' \subseteq Callers
    BY <1>12 DEF Tick
  <2> QED BY <1>12, <2>1, <2>2, <2>3 DEF Tick
<1>13. ASSUME NEW k \in Keys, Edits(k)
       PROVE  TypeOK'
  BY <1>13 DEF Edits, breaker, history
<1>14. ASSUME UNCHANGED vars
       PROVE  TypeOK'
  BY <1>14 DEF vars, breaker, history
<1> QED
  BY <1>1, <1>2, <1>3, <1>4, <1>5, <1>6, <1>7, <1>8, <1>9, <1>10, <1>11,
     <1>12, <1>13, <1>14
  DEF Next, BeginStep, CallStep, CacheAnswers

\* What a reader of the database does leaves the breaker and its observer be:
\* only RecordsFailure, RecordsSuccess and Tick touch them.
QuietStep(c) ==
  \/ \E k \in Keys \cup {Health} :
       CacheAnswers(c, k) \/ CacheMisses(c, k) \/ IsCancelled(c, k)
  \/ AsksBreaker(c) \/ Reads(c) \/ ReadFails(c)
  \/ Stores(c) \/ FallsBack(c) \/ Returns(c)

\* Such a step, by somebody who is not blamed or does not ask, keeps the
\* blamed callers away from the database: none of them enters InFlight, since
\* while anybody is blamed the breaker is open and lets nobody through.
LEMMA QuietKeepsBlamed ==
  ASSUME TypeOK, BlamedCallersWait, BlameNeedsWindow,
         NEW c \in Callers, QuietStep(c)
  PROVE  BlamedCallersWait'
<1>1. UNCHANGED <<openFor, blamed>>
  BY DEF QuietStep, CacheAnswers, CacheMisses, IsCancelled, AsksBreaker, Reads,
         ReadFails, Stores, FallsBack, Returns, breaker, history
<1>2. \A d \in Callers \ {c} : call'[d] = call[d]
  BY DEF TypeOK, QuietStep, CacheAnswers, CacheMisses, IsCancelled, AsksBreaker,
         Reads, ReadFails, Stores, FallsBack, Returns, Goes, Begins
<1>3. c \in blamed => call'[c].phase \notin InFlight
  <2> SUFFICES ASSUME c \in blamed
               PROVE  call'[c].phase \notin InFlight
    OBVIOUS
  <2>1. openFor > 0 /\ call[c].phase \notin InFlight
    BY DEF BlamedCallersWait, BlameNeedsWindow
  <2>2. CASE AsksBreaker(c)
    <3>1. ~Allow
      BY <2>1 DEF Allow
    <3>2. call'[c].phase = "failed"
      BY <2>2, <3>1 DEF AsksBreaker, Goes, TypeOK
    <3> QED BY <3>2 DEF InFlight
  <2>3. CASE Reads(c) \/ ReadFails(c)
    BY <2>1, <2>3 DEF Reads, ReadFails, At, InFlight
  <2>4. CASE Stores(c) \/ FallsBack(c)
    <3>1. PICK r : Goes(c, "answered", r)
      BY <2>4 DEF Stores, FallsBack
    <3>2. call'[c].phase = "answered"
      BY <3>1 DEF Goes, TypeOK
    <3> QED BY <3>2 DEF InFlight
  <2>6. CASE Returns(c)
    <3>1. call'[c] = Idle
      BY <2>6 DEF Returns, TypeOK
    <3>2. Idle.phase = "idle"
      BY DEF Idle
    <3> QED BY <3>1, <3>2 DEF InFlight
  <2>5. ASSUME NEW k \in Keys \cup {Health},
               CacheAnswers(c, k) \/ CacheMisses(c, k) \/ IsCancelled(c, k)
        PROVE  call'[c].phase \notin InFlight
    BY <2>5 DEF CacheAnswers, CacheMisses, IsCancelled, Begins, InFlight, TypeOK
  <2> QED BY <2>2, <2>3, <2>4, <2>5, <2>6 DEF QuietStep
<1> QED BY <1>1, <1>2, <1>3 DEF BlamedCallersWait, TypeOK

\* Rows that are not contents never reach the phase decoded.
LEMMA DecodedStep ==
  ASSUME TypeOK, DecodedIsContent, [Next]_vars
  PROVE  DecodedIsContent'
<1> USE DEF TypeOK, DecodedIsContent, At
<1>1. ASSUME NEW c \in Callers, QuietStep(c)
      PROVE  DecodedIsContent'
  <2>1. CASE AsksBreaker(c)
    <3>1. CASE Allow
      BY <2>1, <3>1 DEF AsksBreaker, Goes
    <3>2. CASE ~Allow
      BY <2>1, <3>2 DEF AsksBreaker, Goes
    <3> QED BY <3>1, <3>2
  <2>2. CASE Reads(c)
    BY <2>2 DEF Reads, Goes
  <2>4. CASE ReadFails(c)
    BY <2>4 DEF ReadFails, Goes
  <2>5. CASE Stores(c) \/ FallsBack(c)
    <3>1. PICK r : Goes(c, "answered", r)
      BY <2>5 DEF Stores, FallsBack
    <3> QED BY <3>1 DEF Goes
  <2>6. CASE Returns(c)
    <3>1. \A d \in Callers : call'[d] = IF d = c THEN Idle ELSE call[d]
      BY <2>6 DEF Returns
    <3>2. Idle.phase # "decoded"
      BY DEF Idle
    <3> QED BY <3>1, <3>2
  <2>3. ASSUME NEW k \in Keys \cup {Health},
               CacheAnswers(c, k) \/ CacheMisses(c, k) \/ IsCancelled(c, k)
        PROVE  DecodedIsContent'
    BY <2>3 DEF CacheAnswers, CacheMisses, IsCancelled, Begins
  <2> QED BY <1>1, <2>1, <2>2, <2>3, <2>4, <2>5, <2>6 DEF QuietStep
<1>2. ASSUME NEW c \in Callers, RecordsFailure(c)
      PROVE  DecodedIsContent'
  BY <1>2 DEF RecordsFailure, Goes
<1>3. ASSUME NEW c \in Callers, RecordsSuccess(c)
      PROVE  DecodedIsContent'
  <2>1. CASE call[c].row \in Contents /\ Goes(c, "decoded", call[c].row)
    BY <2>1 DEF Goes
  <2>2. CASE Goes(c, "failed", NoRow)
    BY <2>2 DEF Goes
  <2>3. CASE Goes(c, "answered", call[c].row)
    BY <2>3 DEF Goes
  <2> QED BY <1>3, <2>1, <2>2, <2>3 DEF RecordsSuccess
<1>4. ASSUME UNCHANGED call
      PROVE  DecodedIsContent'
  BY <1>4
<1> QED
  BY <1>1, <1>2, <1>3, <1>4
  DEF Next, BeginStep, CallStep, QuietStep, Tick, Edits, vars

\* A step that moves the breaker keeps what relates it to its observer.
LEMMA BreakerStep ==
  ASSUME IInv, [Next]_vars
  PROVE  /\ WindowIsEarned' /\ BlamedCallersWait' /\ BlameNeedsWindow'
         /\ LogMarkIsWindow' /\ CountIsStreak'
<1> DEFINE Kept == /\ WindowIsEarned /\ BlamedCallersWait /\ BlameNeedsWindow
                   /\ LogMarkIsWindow /\ CountIsStreak
<1> USE GuardedGraphAssumption
<1>0. Limit \in Nat \ {0} /\ Cooldown \in Nat \ {0}
  BY DEF GuardedGraphAssumption
<1>1. ASSUME NEW c \in Callers, RecordsFailure(c)
      PROVE  Kept'
  <2>1. call'[c].phase = "failed" /\ \A d \in Callers \ {c} : call'[d] = call[d]
    BY <1>1 DEF RecordsFailure, Goes, IInv, TypeOK
  <2>2. BlamedCallersWait'
    BY <1>1, <2>1
    DEF RecordsFailure, ObservesFailure, BlamedCallersWait, IInv, InFlight, TypeOK
  <2>3. CountIsStreak' /\ LogMarkIsWindow'
    BY <1>0, <1>1
    DEF RecordsFailure, Failure, Trips, ObservesFailure, CountIsStreak,
        LogMarkIsWindow, IInv, TypeOK
  <2>4. WindowIsEarned'
    BY <1>0, <1>1
    DEF RecordsFailure, Failure, Trips, ObservesFailure, CountIsStreak,
        WindowIsEarned, IInv, TypeOK
  <2>5. BlameNeedsWindow'
    BY <1>0, <1>1
    DEF RecordsFailure, Failure, ObservesFailure, BlameNeedsWindow, IInv, TypeOK
  <2> QED BY <2>2, <2>3, <2>4, <2>5
<1>2. ASSUME NEW c \in Callers, RecordsSuccess(c)
      PROVE  Kept'
  BY <1>0, <1>2
  DEF RecordsSuccess, Success, ObservesSuccess, WindowIsEarned, BlamedCallersWait,
      BlameNeedsWindow, LogMarkIsWindow, CountIsStreak, IInv, TypeOK
<1>3. CASE Tick
  <2>1. WindowIsEarned' /\ LogMarkIsWindow' /\ CountIsStreak'
    BY <1>0, <1>3 DEF Tick, Less, WindowIsEarned, LogMarkIsWindow, CountIsStreak, IInv, TypeOK
  <2>2. BlamedCallersWait' /\ BlameNeedsWindow'
    BY <1>0, <1>3 DEF Tick, Less, BlamedCallersWait, BlameNeedsWindow, IInv, TypeOK
  <2> QED BY <2>1, <2>2
<1>4. ASSUME NEW c \in Callers, QuietStep(c)
      PROVE  Kept'
  <2>1. UNCHANGED <<breaker, history>>
    BY <1>4 DEF QuietStep, CacheAnswers, CacheMisses, IsCancelled, AsksBreaker,
       Reads, ReadFails, Stores, FallsBack, Returns
  <2>2. BlamedCallersWait'
    BY <1>4, QuietKeepsBlamed DEF IInv
  <2> QED
    BY <2>1, <2>2
    DEF breaker, history, WindowIsEarned, BlameNeedsWindow, LogMarkIsWindow,
        CountIsStreak, IInv
<1>5. ASSUME UNCHANGED <<breaker, history, call>>
      PROVE  Kept'
  BY <1>5
  DEF breaker, history, WindowIsEarned, BlamedCallersWait, BlameNeedsWindow,
      LogMarkIsWindow, CountIsStreak, IInv
<1> QED
  BY <1>1, <1>2, <1>3, <1>4, <1>5
  DEF Next, BeginStep, CallStep, QuietStep, Edits, vars

\* IInv is inductive: the breaker, its observer, the calls and the types.
THEOREM InvariantHolds == Spec => []IInv
<1>1. IInv /\ [Next]_vars => IInv'
  BY TypeStep, DecodedStep, BreakerStep DEF IInv
<1> QED BY InitIInv, <1>1, PTL DEF Spec

\* The breaker is open exactly for a cooldown after the last failure of a
\* streak that reached the limit, however the readers overlap.
THEOREM WindowIsAlwaysEarned == Spec => []WindowIsEarned
<1>1. IInv => WindowIsEarned
  BY DEF IInv
<1> QED BY InvariantHolds, <1>1, PTL

\* An open window records the failure of each caller at most once.
THEOREM OneFailureEach == Spec => OneFailurePerCaller
<1>1. IInv /\ [Next]_vars
        => [\A c \in Callers :
              openFor > 0 /\ At(c, "erred") /\ ~At(c, "erred")' => c \notin blamed]_vars
  BY DEF IInv, BlamedCallersWait, At, InFlight
<1> QED BY InvariantHolds, <1>1, PTL DEF Spec, OneFailurePerCaller

=============================================================================
