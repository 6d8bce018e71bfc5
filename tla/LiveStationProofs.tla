------------------------- MODULE LiveStationProofs -------------------------
(***************************************************************************)
(* Theorems about LiveStation, for every number of stations, pollers and   *)
(* students, every pair of TTLs and an unbounded run (MaxTime is any       *)
(* natural number).                                                        *)
(***************************************************************************)
EXTENDS LiveStationProps, TLAPS

-----------------------------------------------------------------------------
(* What the operations of the ledger leave in it, for every ledger.          *)

\* The purge keeps a record as it was or drops it.
LEMMA PurgedType ==
  ASSUME LedgerTypeOK
  PROVE  /\ Purged \in [Stations -> StationRecord \cup {Absent}]
         /\ \A s \in Stations : Purged[s] = ledger[s] \/ Purged[s] = Absent
  BY DEF LedgerTypeOK, Purged

\* What RegisterInProgress leaves in the ledger.
LEMMA RegisterType ==
  ASSUME LedgerTypeOK, NEW s \in Stations, NEW u \in Students \cup {Nobody},
         RegisterInProgress(s, u)
  PROVE  /\ ledger' \in [Stations -> StationRecord \cup {Absent}]
         /\ \A r \in Stations \ {s} : ledger'[r] = ledger[r] \/ ledger'[r] = Absent
         /\ ledger'[s] \in StationRecord
         /\ ledger'[s].status = "in_progress"
         /\ ledger'[s].retrying = FALSE
  BY PurgedType DEF LedgerTypeOK, RegisterInProgress, StationRecord, StationStatus

\* What MarkReady leaves in the ledger: the station's record is ready, and
\* its flag released, whether or not it was there.
LEMMA MarkReadyType ==
  ASSUME LedgerTypeOK, NEW s \in Stations, MarkReady(s)
  PROVE  /\ ledger' \in [Stations -> StationRecord \cup {Absent}]
         /\ \A r \in Stations \ {s} : ledger'[r] = ledger[r] \/ ledger'[r] = Absent
         /\ ledger'[s] \in StationRecord
         /\ ledger'[s].status = "ready"
         /\ ledger'[s].retrying = FALSE
  <1>1. Purged[s] \in StationRecord \/ ~ Present(s)
    BY PurgedType DEF Present
  <1>2. ledger'[s] \in StationRecord
    BY <1>1, PurgedType DEF LedgerTypeOK, MarkReady, StationRecord, StationStatus
  <1>. QED
    BY <1>2, PurgedType DEF LedgerTypeOK, MarkReady

\* What MarkFailed leaves: the record failed with its flag released, or none.
LEMMA MarkFailedType ==
  ASSUME LedgerTypeOK, NEW s \in Stations, MarkFailed(s)
  PROVE  /\ ledger' \in [Stations -> StationRecord \cup {Absent}]
         /\ \A r \in Stations \ {s} : ledger'[r] = ledger[r] \/ ledger'[r] = Absent
         /\ \/ ledger'[s] = Absent
            \/ /\ ledger[s] # Absent
               /\ ledger'[s] \in StationRecord
               /\ ledger'[s].status = "failed"
               /\ ledger'[s].retrying = FALSE
  <1>1. CASE ~ Present(s)
    BY <1>1, PurgedType DEF LedgerTypeOK, MarkFailed, Present
  <1>2. CASE Present(s)
    <2>1. Purged[s] = ledger[s] /\ ledger[s] \in StationRecord
      BY <1>2, PurgedType DEF Present
    <2>2. ledger' = [Purged EXCEPT ![s] = [ledger[s] EXCEPT !.status = "failed",
                                                            !.retrying = FALSE]]
      BY <1>2, <2>1, PurgedType DEF MarkFailed, StationRecord
    <2>. QED
      BY <2>1, <2>2, PurgedType, AbsentIsNoRecord DEF LedgerTypeOK, StationRecord, StationStatus
  <1>. QED BY <1>1, <1>2

\* What TryBeginRetry leaves: at most the flag of one record changes.
LEMMA TryBeginRetryType ==
  ASSUME LedgerTypeOK, NEW s \in Stations, TryBeginRetry(s)
  PROVE  /\ ledger' \in [Stations -> StationRecord \cup {Absent}]
         /\ \A r \in Stations \ {s} : ledger'[r] = ledger[r] \/ ledger'[r] = Absent
         /\ ~ MayGenerate(s) => ledger'[s] = ledger[s] \/ ledger'[s] = Absent
         /\ MayGenerate(s) =>
              /\ ledger[s] # Absent
              /\ ledger[s].status # "ready"
              /\ ~ ledger[s].retrying
              /\ ledger'[s] \in StationRecord
              /\ ledger'[s].status = ledger[s].status
              /\ ledger'[s].retrying = TRUE
  <1>1. CASE ~ MayGenerate(s)
    BY <1>1, PurgedType DEF LedgerTypeOK, TryBeginRetry
  <1>2. CASE MayGenerate(s)
    <2>1. Purged[s] = ledger[s] /\ ledger[s] \in StationRecord
      BY <1>2, PurgedType DEF MayGenerate, Present
    <2>2. ledger' = [Purged EXCEPT ![s] = [ledger[s] EXCEPT !.retrying = TRUE]]
      BY <1>2, <2>1, PurgedType DEF TryBeginRetry, StationRecord
    <2>. QED
      BY <1>2, <2>1, <2>2, PurgedType, AbsentIsNoRecord DEF LedgerTypeOK, MayGenerate, StationRecord
  <1>. QED BY <1>1, <1>2

\* Get only purges.
LEMMA GetType ==
  ASSUME LedgerTypeOK, Get
  PROVE  /\ ledger' \in [Stations -> StationRecord \cup {Absent}]
         /\ \A r \in Stations : ledger'[r] = ledger[r] \/ ledger'[r] = Absent
  BY PurgedType DEF Get

-----------------------------------------------------------------------------
(***************************************************************************)
(* Type correctness.                                                       *)
(***************************************************************************)

\* The initial values have their types (NewStationLedger, NewIndex, NewRouter).
LEMMA InitTypeOK == Init => TypeOK
  BY LiveStationConstants
  DEF Init, LedgerInit, TypeOK, LedgerTypeOK, Workers, JobPhase, Query, QueryPC,
      QueryOutcome, PollAnswer

\* Each step of a query keeps the types: of its own record first, then of
\* the rest of the state.
LEMMA QueryTypeOK ==
  ASSUME TypeOK, NEW s \in Stations, QueryStep(s)
  PROVE  TypeOK'
  <1>1. (IF Present(s) THEN Purged[s].status ELSE "in_progress") \in QueryOutcome
    BY PurgedType DEF TypeOK, Present, StationRecord, QueryOutcome, StationStatus
  <1>2. query' \in [Stations -> Query]
    <2>1. ASSUME NEW pc \in QueryPC
          PROVE  [query EXCEPT ![s].pc = pc] \in [Stations -> Query]
      BY DEF TypeOK, Query
    <2>2. ASSUME NEW pc \in QueryPC, NEW r \in Stations
          PROVE  [query EXCEPT ![s].pc = pc, ![s].seen = r] \in [Stations -> Query]
      BY DEF TypeOK, Query
    <2>3. ASSUME NEW pc \in QueryPC, NEW outcome \in QueryOutcome
          PROVE  [query EXCEPT ![s].pc = pc, ![s].outcome = outcome] \in [Stations -> Query]
      BY DEF TypeOK, Query
    <2>4. CASE QueryMatchesLive(s)
      <3>1. PICK n \in LiveNode :
              query' = [query EXCEPT ![s].pc = "hydrating", ![s].seen = n.station]
        BY <2>4 DEF QueryMatchesLive, LivePurged, TypeOK
      <3>2. n.station \in Stations /\ "hydrating" \in QueryPC
        BY DEF LiveNode, QueryPC
      <3>. QED
        BY <2>2, <3>1, <3>2
    <2>5. CASE QueryHydrates(s)
      BY <2>3, <2>5 DEF QueryHydrates, ReplyToQuery, QueryPC, QueryOutcome
    <2>6. CASE QueryMatchesCurated(s)
      BY <2>3, <2>6 DEF QueryMatchesCurated, ReplyToQuery, QueryPC, QueryOutcome
    <2>7. CASE QueryReceives(s)
      <3>1. CASE MoveQuery(s, "waiting", "replying")
        BY <2>1, <3>1 DEF MoveQuery, QueryPC
      <3>2. CASE ReplyToQuery(s, "waiting", "generated")
        BY <2>3, <3>2 DEF ReplyToQuery, QueryPC, QueryOutcome
      <3>. QED
        BY <2>7, <3>1, <3>2 DEF QueryReceives
    <2>8. CASE QueryMisses(s) \/ QueryStopsWaiting(s)
      BY <2>1, <2>8 DEF QueryMisses, QueryStopsWaiting, MoveQuery, QueryPC
    <2>9. CASE QueryRegisters(s)
      BY <2>1, <2>9 DEF QueryRegisters, MoveQuery, QueryPC
    <2>10. CASE QueryAcquires(s)
      BY <2>1, <2>10 DEF QueryAcquires, MoveQuery, QueryPC
    <2>11. CASE QueryRepliesPending(s)
      <3>1. "replied" \in QueryPC
        BY DEF QueryPC
      <3>. QED
        BY <1>1, <2>3, <2>11, <3>1 DEF QueryRepliesPending, ReplyToQuery
    <2>. QED
      BY <2>4, <2>5, <2>6, <2>7, <2>8, <2>9, <2>10, <2>11 DEF QueryStep
  <1>3. LedgerTypeOK'
    <2>1. CASE QueryRegisters(s)
      BY <2>1, RegisterType, LiveStationConstants DEF QueryRegisters, TypeOK, LedgerTypeOK
    <2>2. CASE QueryAcquires(s)
      BY <2>2, TryBeginRetryType DEF QueryAcquires, TypeOK, LedgerTypeOK
    <2>3. CASE QueryHydrates(s) \/ QueryRepliesPending(s)
      BY <2>3, GetType DEF QueryHydrates, QueryRepliesPending, TypeOK, LedgerTypeOK
    <2>4. CASE UNCHANGED <<ledger, now>>
      BY <2>4 DEF TypeOK, LedgerTypeOK
    <2>. QED
      BY <2>1, <2>2, <2>3, <2>4
      DEF QueryStep, QueryMatchesCurated, QueryMatchesLive, QueryMisses, QueryReceives,
          QueryStopsWaiting
  <1>4. job' \in [Workers -> [phase : JobPhase, station : Stations]]
    <2>1. job' = job \/ job' = [job EXCEPT ![s].phase = "generating"]
      BY DEF QueryStep, QueryMatchesCurated, QueryMatchesLive, QueryHydrates, QueryMisses,
             QueryRegisters, QueryAcquires, QueryReceives, QueryStopsWaiting,
             QueryRepliesPending
    <2>2. s \in Workers /\ "generating" \in JobPhase
      BY DEF Workers, JobPhase
    <2>3. CASE job' = job
      BY <2>3 DEF TypeOK
    <2>4. CASE job' = [job EXCEPT ![s].phase = "generating"]
      BY <2>2, <2>4 DEF TypeOK
    <2>. QED
      BY <2>1, <2>3, <2>4
  <1>5. poll' = poll /\ liveNodes' \subseteq liveNodes /\ made' = made
    BY DEF QueryStep, QueryMatchesCurated, QueryMatchesLive, QueryHydrates, QueryMisses,
           QueryRegisters, QueryAcquires, QueryReceives, QueryStopsWaiting,
           QueryRepliesPending, LivePurged
  <1>6. /\ poll' \in [Pollers -> [student : Students \cup {Nobody}, answer : PollAnswer]]
        /\ liveNodes' \subseteq LiveNode
        /\ made' \in [Stations -> Nat]
    BY <1>5 DEF TypeOK
  <1>. QED
    BY <1>2, <1>3, <1>4, <1>6 DEF TypeOK

\* Each step of a generation, of its caller, and of a poll keeps the types.
LEMMA WorkTypeOK ==
  ASSUME TypeOK, NEW w \in Workers, GenerateStep(w) \/ StoreStep(w)
  PROVE  TypeOK'
  <1> USE DEF TypeOK, LedgerTypeOK, MoveJob, JobPhase
  <1>1. CASE GenerateSucceeds(w)
    BY <1>1 DEF GenerateSucceeds, LivePurged, LiveNode
  <1>2. CASE GenerateFails(w)
    BY <1>2 DEF GenerateFails, LivePurged
  <1>3. CASE StoreReady(w)
    BY <1>3, MarkReadyType DEF StoreReady
  <1>4. CASE StoreFailed(w)
    BY <1>4, MarkFailedType DEF StoreFailed
  <1>. QED
    BY <1>1, <1>2, <1>3, <1>4 DEF GenerateStep, StoreStep

\* Each step of a poll keeps the types.
LEMMA PollTypeOK ==
  ASSUME TypeOK, NEW p \in Pollers,
         \/ \E s \in Stations, student \in Students : PollReads(p, s, student)
         \/ PollAcquires(p)
         \/ PollRereads(p)
  PROVE  TypeOK'
  <1> USE DEF TypeOK, LedgerTypeOK, JobPhase, Workers
  <1>0. \A s \in Stations : Present(s) => Purged[s].status \in StationStatus
    BY PurgedType DEF Present, StationRecord
  <1>1. ASSUME NEW s \in Stations, NEW student \in Students, PollReads(p, s, student)
        PROVE  TypeOK'
    <2>1. FirstAnswer(s, student) \in PollAnswer
      BY <1>0 DEF FirstAnswer, PollAnswer
    <2>. QED
      BY <1>1, <2>1, GetType DEF PollReads
  <1>2. CASE PollAcquires(p)
    <2>1. RefusedStatus(job[p].station) \in PollAnswer
      BY <1>0 DEF RefusedStatus, PollAnswer, StationStatus
    <2>. QED
      BY <1>2, <2>1, TryBeginRetryType DEF PollAcquires, MoveJob
  <1>3. CASE PollRereads(p)
    <2>1. GotStatus(job[p].station) \in PollAnswer
      BY <1>0 DEF GotStatus, PollAnswer
    <2>. QED
      BY <1>3, <2>1, GetType DEF PollRereads
  <1>. QED
    BY <1>1, <1>2, <1>3

\* Every step keeps the types.
LEMMA NextTypeOK == TypeOK /\ [Next]_vars => TypeOK'
  <1> SUFFICES ASSUME TypeOK, [Next]_vars PROVE TypeOK'
    OBVIOUS
  <1>1. CASE Tick
    BY <1>1, LiveStationConstants DEF Tick, TypeOK, LedgerTypeOK
  <1>2. CASE UNCHANGED vars
    BY <1>2 DEF vars, TypeOK, LedgerTypeOK
  <1>. QED
    BY <1>1, <1>2, QueryTypeOK, WorkTypeOK, PollTypeOK DEF Next

\* Every variable keeps its type in every behaviour.
THEOREM TypeCorrect == Spec => []TypeOK
  BY InitTypeOK, NextTypeOK, PTL DEF Spec

-----------------------------------------------------------------------------
(***************************************************************************)
(* The inductive invariant.  Most steps are quiet: they start and end no   *)
(* generation, give no station a record, and only drop expired entries.    *)
(***************************************************************************)

\* A router that just started satisfies the inductive invariant.
LEMMA InitIInv == Init => IInv
  BY InitTypeOK
  DEF Init, LedgerInit, IInv, TypeOK, SingleFlight, UnregisteredIsFresh,
      GoroutineOwnsStation, FlagWhileInFlight, FlagOnlyInFlight, NodeProgress,
      SerialsAreMade, SerialsAreUnique, InFlight, Workers

\* A step that starts no generation, ends none and registers nothing keeps
\* the invariant.
LEMMA Quiet ==
  ASSUME IInv, TypeOK',
         \A s \in Stations : ledger'[s] = ledger[s] \/ ledger'[s] = Absent,
         \A w \in Workers : \/ job'[w] = job[w]
                            \/ ~ InFlight(w) /\ ~ InFlight(w)',
         \A s \in Stations : job'[s] = job[s],
         \A s \in Stations : query'[s].pc \in Unregistered => query[s].pc \in Unregistered,
         made' = made,
         liveNodes' \subseteq liveNodes
  PROVE  IInv'
  <1>1. \A w \in Workers : InFlight(w)' => InFlight(w) /\ job'[w] = job[w]
    BY DEF InFlight
  <1>2. \A w \in Workers : InFlight(w) => InFlight(w)' /\ job'[w] = job[w]
    BY DEF InFlight
  <1>3. SingleFlight'
    BY <1>1 DEF IInv, SingleFlight
  <1>4. UnregisteredIsFresh'
    BY <1>1 DEF IInv, UnregisteredIsFresh
  <1>5. GoroutineOwnsStation'
    BY DEF IInv, GoroutineOwnsStation
  <1>6. FlagWhileInFlight'
    BY <1>1 DEF IInv, FlagWhileInFlight, TypeOK
  <1>7. FlagOnlyInFlight'
    BY <1>2 DEF IInv, FlagOnlyInFlight
  <1>8. NodeProgress'
    BY <1>1, <1>2 DEF IInv, NodeProgress, InFlight
  <1>9. SerialsAreMade' /\ SerialsAreUnique'
    BY DEF IInv, SerialsAreMade, SerialsAreUnique
  <1>. QED
    BY <1>3, <1>4, <1>5, <1>6, <1>7, <1>8, <1>9 DEF IInv

\* A query's quiet steps, and those of a poll that generates nothing.
LEMMA QuietQuery ==
  ASSUME IInv, TypeOK', NEW s \in Stations,
         \/ QueryMatchesCurated(s) \/ QueryMatchesLive(s) \/ QueryHydrates(s)
         \/ QueryMisses(s) \/ QueryReceives(s) \/ QueryStopsWaiting(s)
         \/ QueryRepliesPending(s)
         \/ QueryAcquires(s) /\ ~ MayGenerate(s)
  PROVE  IInv'
  <1>1. \A r \in Stations : ledger'[r] = ledger[r] \/ ledger'[r] = Absent
    BY GetType, TryBeginRetryType
    DEF QueryMatchesCurated, QueryMatchesLive, QueryHydrates, QueryMisses, QueryReceives,
        QueryStopsWaiting, QueryRepliesPending, QueryAcquires, IInv, TypeOK
  <1>2. job' = job /\ made' = made /\ liveNodes' \subseteq liveNodes
    BY DEF QueryMatchesCurated, QueryMatchesLive, QueryHydrates, QueryMisses, QueryReceives,
           QueryStopsWaiting, QueryRepliesPending, QueryAcquires, LivePurged
  <1>3. \A r \in Stations : query'[r].pc \in Unregistered => query[r].pc \in Unregistered
    <2>1. /\ \A r \in Stations \ {s} : query'[r] = query[r]
          /\ query'[s].pc \in Unregistered => query[s].pc \in Unregistered
      BY DEF QueryMatchesCurated, QueryMatchesLive, QueryHydrates, QueryMisses,
             QueryReceives, QueryStopsWaiting, QueryRepliesPending, QueryAcquires,
             MoveQuery, ReplyToQuery, Unregistered, IInv, TypeOK, Query
    <2>. QED
      BY <2>1
  <1>. QED
    BY <1>1, <1>2, <1>3, Quiet

\* A poll that reads, is refused or answers is such a step.
LEMMA QuietPoll ==
  ASSUME IInv, TypeOK', NEW p \in Pollers,
         \/ \E s \in Stations, student \in Students : PollReads(p, s, student)
         \/ PollAcquires(p) /\ ~ MayGenerate(job[p].station)
         \/ PollRereads(p)
  PROVE  IInv'
  <1>0. job[p].station \in Stations /\ p \in Workers /\ p \notin Stations
    BY LiveStationConstants DEF IInv, TypeOK, Workers
  <1>1. \A r \in Stations : ledger'[r] = ledger[r] \/ ledger'[r] = Absent
    BY <1>0, GetType, TryBeginRetryType DEF PollReads, PollAcquires, PollRereads, IInv, TypeOK
  <1>2. query' = query /\ made' = made /\ liveNodes' = liveNodes
    BY DEF PollReads, PollAcquires, PollRereads
  <1>3. /\ \A w \in Workers \ {p} : job'[w] = job[w]
        /\ ~ InFlight(p) /\ ~ InFlight(p)'
    BY <1>0 DEF PollReads, PollAcquires, PollRereads, MoveJob, InFlight, IInv, TypeOK
  <1>. QED
    BY <1>0, <1>1, <1>2, <1>3, Quiet DEF Workers

\* The station's record appears: it is fresh, so nobody is generating it.
LEMMA RegistersIInv ==
  ASSUME IInv, TypeOK', NEW s \in Stations, QueryRegisters(s)
  PROVE  IInv'
  <1>1. /\ ledger'[s].status # "ready" /\ ~ ledger'[s].retrying
        /\ \A r \in Stations \ {s} : ledger'[r] = ledger[r] \/ ledger'[r] = Absent
    BY RegisterType, LiveStationConstants DEF QueryRegisters, IInv, TypeOK
  <1>2. job' = job /\ made' = made /\ liveNodes' = liveNodes
    BY DEF QueryRegisters
  <1>3. /\ query[s].pc \in Unregistered
        /\ query'[s].pc \notin Unregistered
        /\ \A r \in Stations \ {s} : query'[r] = query[r]
    BY DEF QueryRegisters, MoveQuery, Unregistered, IInv, TypeOK, Query
  <1>4. made[s] = 0 /\ \A w \in Workers : job[w].station = s => ~ InFlight(w)
    BY <1>3 DEF IInv, UnregisteredIsFresh
  <1>5. \A w \in Workers : InFlight(w)' <=> InFlight(w)
    BY <1>2 DEF InFlight
  <1>6. SingleFlight' /\ GoroutineOwnsStation' /\ SerialsAreMade' /\ SerialsAreUnique'
    BY <1>2, <1>5
    DEF IInv, SingleFlight, GoroutineOwnsStation, SerialsAreMade, SerialsAreUnique
  <1>7. UnregisteredIsFresh'
    BY <1>1, <1>2, <1>3, <1>5 DEF IInv, UnregisteredIsFresh
  <1>8. FlagWhileInFlight' /\ FlagOnlyInFlight'
    BY <1>1, <1>2, <1>4, <1>5 DEF IInv, TypeOK, FlagWhileInFlight, FlagOnlyInFlight
  <1>9. NodeProgress'
    BY <1>1, <1>2, <1>4 DEF IInv, NodeProgress
  <1>. QED
    BY <1>6, <1>7, <1>8, <1>9 DEF IInv

\* A worker, of whatever kind, takes the flag: nobody else can be in flight.
LEMMA AcquiresIInv ==
  ASSUME IInv, TypeOK', NEW w \in Workers, NEW s \in Stations,
         job[w].station = s, MayGenerate(s), TryBeginRetry(s),
         job' = [job EXCEPT ![w].phase = "generating"],
         \A r \in Stations : query'[r].pc \in Unregistered => query[r].pc \in Unregistered,
         UNCHANGED <<liveNodes, made>>
  PROVE  IInv'
  <1>1. /\ ledger[s] # Absent /\ ledger[s].status # "ready" /\ ~ ledger[s].retrying
        /\ ledger'[s].status # "ready" /\ ledger'[s].retrying = TRUE
        /\ \A r \in Stations \ {s} : ledger'[r] = ledger[r] \/ ledger'[r] = Absent
    <2>1. LedgerTypeOK
      BY DEF IInv, TypeOK
    <2>. QED
      BY <2>1, TryBeginRetryType
  <1>2. /\ job'[w] = [phase |-> "generating", station |-> s]
        /\ \A v \in Workers \ {w} : job'[v] = job[v]
        /\ \A v \in Workers : job'[v].station = job[v].station
    BY DEF IInv, TypeOK
  <1>3. \A v \in Workers : job[v].station = s => ~ InFlight(v)
    BY <1>1 DEF IInv, FlagWhileInFlight
  <1>4. \A v \in Workers : InFlight(v)' <=> v = w \/ InFlight(v)
    BY <1>2 DEF InFlight
  <1>5. made[s] = 0
    BY <1>1, <1>3 DEF IInv, NodeProgress, InFlight
  <1>6. query[s].pc \notin Unregistered
    BY <1>1 DEF IInv, UnregisteredIsFresh
  <1>7. SingleFlight' /\ GoroutineOwnsStation'
    BY <1>2, <1>3, <1>4 DEF IInv, SingleFlight, GoroutineOwnsStation, Workers
  <1>8. UnregisteredIsFresh'
    BY <1>1, <1>2, <1>4, <1>6 DEF IInv, UnregisteredIsFresh
  <1>9. FlagWhileInFlight' /\ FlagOnlyInFlight'
    BY <1>1, <1>2, <1>3, <1>4 DEF IInv, TypeOK, FlagWhileInFlight, FlagOnlyInFlight
  <1>10. NodeProgress'
    BY <1>1, <1>2, <1>5 DEF IInv, NodeProgress
  <1>11. SerialsAreMade' /\ SerialsAreUnique'
    BY DEF IInv, SerialsAreMade, SerialsAreUnique
  <1>. QED
    BY <1>7, <1>8, <1>9, <1>10, <1>11 DEF IInv

\* A worker's job as the only one that changes, its station staying.
LEMMA JobMoves ==
  ASSUME TypeOK, NEW w \in Workers, NEW from, NEW to, MoveJob(w, from, to)
  PROVE  /\ job[w].phase = from
         /\ job'[w].phase = to
         /\ \A v \in Workers \ {w} : job'[v] = job[v]
         /\ \A v \in Workers : job'[v].station = job[v].station
  BY DEF MoveJob, TypeOK

\* The node is registered: no other generation for the station is in flight,
\* none came before, and the flag keeps everybody else out.
LEMMA GenerateSucceedsIInv ==
  ASSUME IInv, TypeOK', NEW w \in Workers, GenerateSucceeds(w)
  PROVE  IInv'
  <1> DEFINE s == job[w].station
  <1>0. TypeOK /\ s \in Stations
    BY DEF IInv, TypeOK
  <1>1. /\ job[w].phase = "generating" /\ job'[w].phase = "generated"
        /\ \A v \in Workers \ {w} : job'[v] = job[v]
        /\ \A v \in Workers : job'[v].station = job[v].station
    BY <1>0, JobMoves DEF GenerateSucceeds
  <1>2. \A v \in Workers : InFlight(v)' <=> InFlight(v)
    BY <1>1 DEF InFlight
  <1>3. /\ ledger' = ledger /\ query' = query
        /\ liveNodes' \subseteq
             liveNodes \cup {[station |-> s, serial |-> made[s] + 1, created |-> now]}
        /\ made' = [made EXCEPT ![s] = @ + 1]
    BY DEF GenerateSucceeds, LivePurged
  <1>4. made[s] = 0 /\ InFlight(w)
    BY <1>0, <1>1 DEF IInv, NodeProgress, InFlight
  <1>5. /\ made'[s] = 1
        /\ \A r \in Stations \ {s} : made'[r] = made[r]
    BY <1>0, <1>3, <1>4 DEF TypeOK
  <1>6. query[s].pc \notin Unregistered
    BY <1>0, <1>4 DEF IInv, UnregisteredIsFresh
  <1>7. \A v \in Workers \ {w} : job[v].station = s => ~ InFlight(v)
    BY <1>4 DEF IInv, SingleFlight
  <1>8. SingleFlight' /\ GoroutineOwnsStation'
    BY <1>1, <1>2 DEF IInv, SingleFlight, GoroutineOwnsStation, Workers
  <1>9. UnregisteredIsFresh'
    BY <1>0, <1>1, <1>2, <1>3, <1>5, <1>6 DEF IInv, UnregisteredIsFresh
  <1>10. FlagWhileInFlight' /\ FlagOnlyInFlight'
    BY <1>1, <1>2, <1>3 DEF IInv, FlagWhileInFlight, FlagOnlyInFlight
  <1>11. NodeProgress'
    <2>1. \A v \in Workers : job[v].station = s => job'[v].phase \notin {"generating", "errored"}
      BY <1>1, <1>7 DEF InFlight
    <2>2. \A r \in Stations \ {s} : \A v \in Workers : job[v].station = r => job'[v] = job[v]
      BY <1>1
    <2>. QED
      BY <1>0, <1>1, <1>3, <1>5, <2>1, <2>2 DEF IInv, NodeProgress
  <1>12. \A n \in liveNodes : n.station # s
    BY <1>4 DEF IInv, SerialsAreMade
  <1>13. SerialsAreMade' /\ SerialsAreUnique'
    <2>1. \A n \in liveNodes : n.station \in Stations
      BY <1>0 DEF TypeOK, LiveNode
    <2>. QED
      BY <1>3, <1>4, <1>5, <1>12, <2>1 DEF IInv, SerialsAreMade, SerialsAreUnique
  <1>. QED
    BY <1>8, <1>9, <1>10, <1>11, <1>13 DEF IInv

\* A failed generation leaves no node: its flag is still to be released.
LEMMA GenerateFailsIInv ==
  ASSUME IInv, TypeOK', NEW w \in Workers, GenerateFails(w)
  PROVE  IInv'
  <1>0. TypeOK
    BY DEF IInv
  <1>1. /\ job[w].phase = "generating" /\ job'[w].phase = "errored"
        /\ \A v \in Workers \ {w} : job'[v] = job[v]
        /\ \A v \in Workers : job'[v].station = job[v].station
    BY <1>0, JobMoves DEF GenerateFails
  <1>2. \A v \in Workers : InFlight(v)' <=> InFlight(v)
    BY <1>1 DEF InFlight
  <1>3. /\ ledger' = ledger /\ query' = query /\ made' = made
        /\ liveNodes' \subseteq liveNodes
    BY DEF GenerateFails, LivePurged
  <1>4. SingleFlight' /\ GoroutineOwnsStation' /\ UnregisteredIsFresh'
    BY <1>1, <1>2, <1>3
    DEF IInv, SingleFlight, GoroutineOwnsStation, UnregisteredIsFresh, Workers
  <1>5. FlagWhileInFlight' /\ FlagOnlyInFlight'
    BY <1>1, <1>2, <1>3 DEF IInv, FlagWhileInFlight, FlagOnlyInFlight
  <1>6. NodeProgress'
    BY <1>1, <1>3 DEF IInv, NodeProgress
  <1>7. SerialsAreMade' /\ SerialsAreUnique'
    BY <1>3 DEF IInv, SerialsAreMade, SerialsAreUnique
  <1>. QED
    BY <1>4, <1>5, <1>6, <1>7 DEF IInv

\* The result goes into the ledger and the flag is released, whether the
\* record is still there or comes back.
LEMMA StoreReadyIInv ==
  ASSUME IInv, TypeOK', NEW w \in Workers, StoreReady(w)
  PROVE  IInv'
  <1> DEFINE s == job[w].station
  <1>0. TypeOK /\ LedgerTypeOK /\ s \in Stations
    BY DEF IInv, TypeOK
  <1>1. /\ job[w].phase = "generated" /\ job'[w].phase = "stored"
        /\ \A v \in Workers \ {w} : job'[v] = job[v]
        /\ \A v \in Workers : job'[v].station = job[v].station
    BY <1>0, JobMoves DEF StoreReady
  <1>2. /\ ledger'[s].status = "ready" /\ ledger'[s].retrying = FALSE
        /\ \A r \in Stations \ {s} : ledger'[r] = ledger[r] \/ ledger'[r] = Absent
    BY <1>0, MarkReadyType DEF StoreReady
  <1>3. query' = query /\ made' = made /\ liveNodes' = liveNodes
    BY DEF StoreReady
  <1>4. \A v \in Workers : InFlight(v)' <=> v # w /\ InFlight(v)
    BY <1>1 DEF InFlight
  <1>5. \A v \in Workers \ {w} : job[v].station = s => ~ InFlight(v)
    BY <1>1 DEF IInv, SingleFlight, InFlight
  <1>6. made[s] = 1 /\ query[s].pc \notin Unregistered
    BY <1>0, <1>1 DEF IInv, NodeProgress, UnregisteredIsFresh, InFlight
  <1>7. SingleFlight' /\ GoroutineOwnsStation'
    BY <1>1, <1>4 DEF IInv, SingleFlight, GoroutineOwnsStation, Workers
  <1>8. UnregisteredIsFresh'
    BY <1>1, <1>2, <1>3, <1>4, <1>6 DEF IInv, UnregisteredIsFresh
  <1>9. FlagWhileInFlight'
    BY <1>0, <1>1, <1>2, <1>4, <1>5 DEF IInv, FlagWhileInFlight, TypeOK
  <1>10. FlagOnlyInFlight'
    BY <1>1, <1>2, <1>4 DEF IInv, FlagOnlyInFlight
  <1>11. NodeProgress'
    <2>1. \A r \in Stations \ {s} : \A v \in Workers : job[v].station = r => job'[v] = job[v]
      BY <1>1
    <2>2. \A v \in Workers : job'[v].phase \in {"generating", "errored", "generated"}
                               => job'[v] = job[v]
      BY <1>1
    <2>. QED
      BY <1>1, <1>2, <1>3, <1>6, <2>1, <2>2 DEF IInv, NodeProgress
  <1>12. SerialsAreMade' /\ SerialsAreUnique'
    BY <1>3 DEF IInv, SerialsAreMade, SerialsAreUnique
  <1>. QED
    BY <1>7, <1>8, <1>9, <1>10, <1>11, <1>12 DEF IInv

\* The failure goes into the ledger and the flag is released.
LEMMA StoreFailedIInv ==
  ASSUME IInv, TypeOK', NEW w \in Workers, StoreFailed(w)
  PROVE  IInv'
  <1> DEFINE s == job[w].station
  <1>0. TypeOK /\ LedgerTypeOK /\ s \in Stations
    BY DEF IInv, TypeOK
  <1>1. /\ job[w].phase = "errored" /\ job'[w].phase = "refused"
        /\ \A v \in Workers \ {w} : job'[v] = job[v]
        /\ \A v \in Workers : job'[v].station = job[v].station
    BY <1>0, JobMoves DEF StoreFailed
  <1>2. /\ ledger'[s] # Absent =>
             ledger[s] # Absent /\ ledger'[s].status = "failed" /\ ledger'[s].retrying = FALSE
        /\ \A r \in Stations \ {s} : ledger'[r] = ledger[r] \/ ledger'[r] = Absent
    BY <1>0, MarkFailedType DEF StoreFailed
  <1>3. query' = query /\ made' = made /\ liveNodes' = liveNodes
    BY DEF StoreFailed
  <1>4. \A v \in Workers : InFlight(v)' <=> v # w /\ InFlight(v)
    BY <1>1 DEF InFlight
  <1>5. \A v \in Workers \ {w} : job[v].station = s => ~ InFlight(v)
    BY <1>1 DEF IInv, SingleFlight, InFlight
  <1>6. made[s] = 0
    BY <1>0, <1>1 DEF IInv, NodeProgress
  <1>7. SingleFlight' /\ GoroutineOwnsStation'
    BY <1>1, <1>4 DEF IInv, SingleFlight, GoroutineOwnsStation, Workers
  <1>8. UnregisteredIsFresh'
    BY <1>1, <1>2, <1>3, <1>4 DEF IInv, UnregisteredIsFresh
  <1>9. FlagWhileInFlight'
    BY <1>0, <1>1, <1>2, <1>4, <1>5 DEF IInv, FlagWhileInFlight, TypeOK
  <1>10. FlagOnlyInFlight'
    BY <1>1, <1>2, <1>4 DEF IInv, FlagOnlyInFlight
  <1>11. NodeProgress'
    <2>1. \A v \in Workers : job'[v].phase \in {"generating", "errored", "generated"}
                               => job'[v] = job[v]
      BY <1>1
    <2>2. \A v \in Workers : job[v].phase = "generated" => job'[v] = job[v]
      BY <1>1
    <2>. QED
      BY <1>1, <1>2, <1>3, <1>6, <2>1, <2>2 DEF IInv, NodeProgress
  <1>12. SerialsAreMade' /\ SerialsAreUnique'
    BY <1>3 DEF IInv, SerialsAreMade, SerialsAreUnique
  <1>. QED
    BY <1>7, <1>8, <1>9, <1>10, <1>11, <1>12 DEF IInv

\* IInv is inductive.
LEMMA NextIInv == IInv /\ [Next]_vars => IInv'
  <1> SUFFICES ASSUME IInv, [Next]_vars PROVE IInv'
    OBVIOUS
  <1>0. TypeOK /\ TypeOK'
    BY NextTypeOK DEF IInv
  <1>1. CASE UNCHANGED vars
    BY <1>0, <1>1, Quiet DEF vars
  <1>2. CASE Tick
    BY <1>0, <1>2, Quiet DEF Tick
  <1>3. ASSUME NEW s \in Stations, QueryStep(s)
        PROVE  IInv'
    <2>1. CASE QueryRegisters(s)
      BY <1>0, <2>1, RegistersIInv
    <2>2. CASE QueryAcquires(s) /\ MayGenerate(s)
      <3>1. s \in Workers /\ job[s].station = s
        BY DEF IInv, GoroutineOwnsStation, Workers
      <3>2. \A r \in Stations : query'[r].pc \in Unregistered => query[r].pc \in Unregistered
        <4>1. /\ \A r \in Stations \ {s} : query'[r] = query[r]
              /\ query'[s].pc = "waiting"
          BY <1>0, <2>2 DEF QueryAcquires, MoveQuery, TypeOK, Query
        <4>. QED
          BY <4>1 DEF Unregistered
      <3>. QED
        BY <1>0, <2>2, <3>1, <3>2, AcquiresIInv DEF QueryAcquires
    <2>. QED
      BY <1>0, <1>3, <2>1, <2>2, QuietQuery DEF QueryStep
  <1>4. ASSUME NEW w \in Workers, GenerateStep(w) \/ StoreStep(w)
        PROVE  IInv'
    BY <1>0, <1>4, GenerateSucceedsIInv, GenerateFailsIInv, StoreReadyIInv, StoreFailedIInv
    DEF GenerateStep, StoreStep
  <1>5. ASSUME NEW p \in Pollers,
               \/ \E s \in Stations, student \in Students : PollReads(p, s, student)
               \/ PollAcquires(p)
               \/ PollRereads(p)
        PROVE  IInv'
    <2>1. CASE PollAcquires(p) /\ MayGenerate(job[p].station)
      <3>1. p \in Workers /\ job[p].station \in Stations
        BY <1>0 DEF TypeOK, Workers
      <3>. QED
        BY <1>0, <2>1, <3>1, AcquiresIInv DEF PollAcquires, MoveJob
    <2>. QED
      BY <1>0, <1>5, <2>1, QuietPoll
  <1>. QED
    BY <1>1, <1>2, <1>3, <1>4, <1>5 DEF Next

\* The inductive invariant holds in every reachable state.
THEOREM Invariance == Spec => []IInv
  BY InitIInv, NextIInv, PTL DEF Spec

-----------------------------------------------------------------------------

\* Never two generations of one station at a time (StationRecord.Retrying).
THEOREM SingleFlightHolds == Spec => []SingleFlight
  <1>1. IInv => SingleFlight
    BY DEF IInv
  <1>. QED
    BY <1>1, Invariance, PTL

\* Never two live nodes for one station, whatever expires when.
THEOREM OneNodeHolds == Spec => []OneNodePerStation
  <1>1. IInv => OneNodePerStation
    BY DEF IInv, SerialsAreMade, SerialsAreUnique, OneNodePerStation
  <1>. QED
    BY <1>1, Invariance, PTL

\* The retrying flag is set exactly during a generation.
THEOREM RetryFlagHolds == Spec => []RetryFlagTracksGeneration
  <1>1. IInv => RetryFlagTracksGeneration
    BY DEF IInv, FlagWhileInFlight, FlagOnlyInFlight, RetryFlagTracksGeneration
  <1>. QED
    BY <1>1, Invariance, PTL

-----------------------------------------------------------------------------
(***************************************************************************)
(* What a step may do to a record that was ready.                          *)
(***************************************************************************)

\* Ready records survive every step unless they expired.
LEMMA ReadyStep ==
  ASSUME IInv, [Next]_vars, NEW s \in Stations,
         ledger[s] # Absent, ledger[s].status = "ready"
  PROVE  \/ ledger'[s] = ledger[s]
         \/ ledger'[s] = Absent /\ Expired(ledger[s], now)
  <1>0. TypeOK /\ LedgerTypeOK
    BY DEF IInv, TypeOK
  <1>1. /\ Purged[s] = ledger[s] \/ (Purged[s] = Absent /\ Expired(ledger[s], now))
        /\ DOMAIN Purged = Stations
    BY DEF Purged
  <1>2. made[s] = 1
    BY <1>0 DEF IInv, NodeProgress
  <1>3. \A w \in Workers : job[w].station = s => ~ InFlight(w)
    BY DEF IInv, FlagWhileInFlight
  <1>4. query[s].pc \notin Unregistered
    BY DEF IInv, UnregisteredIsFresh
  <1>5. ~ MayGenerate(s)
    BY <1>1 DEF MayGenerate, Present
  <1>6. CASE UNCHANGED ledger
    BY <1>6
  <1>7. CASE Get
    BY <1>1, <1>7 DEF Get
  <1>8. ASSUME NEW r \in Stations, TryBeginRetry(r)
        PROVE  ledger'[s] = Purged[s]
    BY <1>1, <1>5, <1>8 DEF TryBeginRetry
  <1>9. ASSUME NEW r \in Stations \ {s}, RegisterInProgress(r, Owner[r])
        PROVE  ledger'[s] = Purged[s]
    BY <1>1, <1>9 DEF RegisterInProgress
  <1>10. ASSUME NEW r \in Stations \ {s}, MarkReady(r) \/ MarkFailed(r)
         PROVE  ledger'[s] = Purged[s]
    BY <1>1, <1>10 DEF MarkReady, MarkFailed
  <1>11. ASSUME NEW w \in Workers, GenerateStep(w) \/ StoreStep(w)
         PROVE  ledger' = ledger \/ ledger'[s] = Purged[s]
    <2>1. CASE GenerateStep(w)
      BY <2>1 DEF GenerateStep, GenerateSucceeds, GenerateFails
    <2>2. CASE StoreStep(w)
      <3>1. InFlight(w) /\ (MarkReady(job[w].station) \/ MarkFailed(job[w].station))
        BY <2>2 DEF StoreStep, StoreReady, StoreFailed, MoveJob, InFlight
      <3>2. job[w].station \in Stations \ {s}
        BY <1>0, <1>3, <3>1 DEF TypeOK
      <3>. QED
        BY <1>10, <3>1, <3>2
    <2>. QED
      BY <1>11, <2>1, <2>2
  <1>12. ASSUME NEW r \in Stations, QueryStep(r)
         PROVE  \/ ledger' = ledger \/ Get
                \/ ledger'[s] = Purged[s]
    <2>1. CASE QueryRegisters(r)
      <3>1. r # s
        BY <1>4, <2>1 DEF QueryRegisters, MoveQuery, Unregistered
      <3>. QED
        BY <1>9, <2>1, <3>1 DEF QueryRegisters
    <2>2. CASE QueryAcquires(r)
      BY <1>8, <2>2 DEF QueryAcquires
    <2>. QED
      BY <1>12, <2>1, <2>2
      DEF QueryStep, QueryMatchesCurated, QueryMatchesLive, QueryHydrates, QueryMisses,
          QueryReceives, QueryStopsWaiting, QueryRepliesPending
  <1>13. ASSUME NEW p \in Pollers,
                \/ \E r \in Stations, student \in Students : PollReads(p, r, student)
                \/ PollAcquires(p)
                \/ PollRereads(p)
         PROVE  Get \/ ledger'[s] = Purged[s]
    <2>1. job[p].station \in Stations
      BY <1>0 DEF TypeOK, Workers
    <2>. QED
      BY <1>8, <1>13, <2>1 DEF PollReads, PollAcquires, PollRereads
  <1>. QED
    BY <1>1, <1>6, <1>7, <1>11, <1>12, <1>13 DEF Next, Tick, vars

\* A ready station stays ready until its record is too old.
THEOREM ReadyIsFinalHolds == Spec => ReadyIsFinal
  <1>1. IInv /\ [Next]_vars =>
          [\A s \in Stations :
             ledger[s] # Absent /\ ledger[s].status = "ready" =>
                \/ ledger'[s] = ledger[s]
                \/ ledger'[s] = Absent /\ Expired(ledger[s], now)]_vars
    BY ReadyStep
  <1>. QED
    BY <1>1, Invariance, PTL DEF Spec, ReadyIsFinal

-----------------------------------------------------------------------------
(***************************************************************************)
(* LiveStation implements StationPromise.                                  *)
(***************************************************************************)

\* A step that leaves the phases and stations of the generating jobs alone,
\* and made, is a stuttering step of the promise.
LEMMA Stutters ==
  ASSUME TypeOK, TypeOK',
         \A w \in Workers : \/ job'[w] = job[w]
                            \/ job[w].phase # "generating" /\ job'[w].phase # "generating",
         made' = made
  PROVE  UNCHANGED Promise!vars
  <1>1. Generating' = Generating
    BY DEF Generating
  <1>2. Published' = Published
    BY DEF Published
  <1>. QED
    BY <1>1, <1>2 DEF Promise!vars

\* What it means for a station to be generating.
LEMMA GeneratingJob ==
  ASSUME TypeOK, NEW w \in Workers, NEW s \in Stations
  PROVE  job[w] = [phase |-> "generating", station |-> s]
           <=> job[w].phase = "generating" /\ job[w].station = s
  BY DEF TypeOK

\* Taking the flag starts a generation of a station that has none, and no
\* node yet.
LEMMA AcquireStarts ==
  ASSUME IInv, TypeOK', NEW w \in Workers, NEW s \in Stations,
         job[w].station = s, MayGenerate(s),
         job' = [job EXCEPT ![w].phase = "generating"],
         made' = made
  PROVE  Promise!Start(s)
  <1>0. TypeOK /\ LedgerTypeOK
    BY DEF IInv, TypeOK
  <1>1. ledger[s] # Absent /\ ledger[s].status # "ready" /\ ~ ledger[s].retrying
    BY <1>0, PurgedType DEF MayGenerate, Present
  <1>2. \A v \in Workers : job[v].station = s => ~ InFlight(v)
    BY <1>1 DEF IInv, FlagWhileInFlight
  <1>3. s \notin Generating
    BY <1>0, <1>2, GeneratingJob DEF Generating, InFlight
  <1>4. made[s] = 0
    BY <1>1, <1>2 DEF IInv, NodeProgress, InFlight
  <1>5. job'[w] = [phase |-> "generating", station |-> s]
        /\ \A v \in Workers \ {w} : job'[v] = job[v]
    BY <1>0 DEF TypeOK
  <1>6. job[w].phase # "generating"
    BY <1>2 DEF InFlight
  <1>7. Generating' = Generating \cup {s}
    BY <1>0, <1>5, <1>6 DEF Generating
  <1>8. s \notin Published /\ Published' = Published
    BY <1>4 DEF Published
  <1>. QED
    BY <1>3, <1>7, <1>8 DEF Promise!Start

\* The end of a generation, its job being the only one of its station.
LEMMA GenerateEnds ==
  ASSUME IInv, TypeOK', NEW w \in Workers, GenerateStep(w)
  PROVE  Promise!Publish(job[w].station) \/ Promise!GiveUp(job[w].station)
  <1> DEFINE s == job[w].station
  <1>0. TypeOK /\ s \in Stations
    BY DEF IInv, TypeOK
  <1>1. /\ job[w].phase = "generating" /\ job'[w].phase # "generating"
        /\ \A v \in Workers \ {w} : job'[v] = job[v]
    BY <1>0, JobMoves DEF GenerateStep, GenerateSucceeds, GenerateFails
  <1>2. s \in Generating
    BY <1>0, <1>1, GeneratingJob DEF Generating
  <1>3. \A v \in Workers \ {w} : job[v].station = s => job[v].phase # "generating"
    BY <1>1 DEF IInv, SingleFlight, InFlight
  <1>4. Generating' = Generating \ {s}
    <2>1. \A r \in Stations : r # s => job[w] # [phase |-> "generating", station |-> r]
      BY <1>0, GeneratingJob
    <2>2. \A r \in Stations : job'[w] # [phase |-> "generating", station |-> r]
      BY <1>1
    <2>3. \A v \in Workers \ {w} : job'[v] # [phase |-> "generating", station |-> s]
      BY <1>0, <1>1, <1>3, GeneratingJob
    <2>. QED
      BY <1>1, <2>1, <2>2, <2>3 DEF Generating
  <1>5. CASE GenerateSucceeds(w)
    <2>1. made' = [made EXCEPT ![s] = @ + 1]
      BY <1>5 DEF GenerateSucceeds
    <2>2. Published' = Published \cup {s}
      BY <1>0, <2>1 DEF Published, TypeOK
    <2>. QED
      BY <1>2, <1>4, <2>2 DEF Promise!Publish
  <1>6. CASE GenerateFails(w)
    BY <1>2, <1>4, <1>6 DEF Promise!GiveUp, GenerateFails, Published
  <1>. QED
    BY <1>5, <1>6 DEF GenerateStep

\* Every step of the router is a step of the promise, or stutters.
LEMMA PromiseStep == IInv /\ IInv' /\ [Next]_vars => [Promise!Next]_(Promise!vars)
  <1> SUFFICES ASSUME IInv, IInv', [Next]_vars PROVE [Promise!Next]_(Promise!vars)
    OBVIOUS
  <1>0. TypeOK /\ TypeOK' /\ job \in [Workers -> [phase : JobPhase, station : Stations]]
    BY DEF IInv, TypeOK
  <1>1. CASE UNCHANGED vars \/ Tick
    BY <1>0, <1>1, Stutters DEF vars, Tick
  <1>2. ASSUME NEW s \in Stations, QueryStep(s)
        PROVE  [Promise!Next]_(Promise!vars)
    <2>1. CASE QueryAcquires(s) /\ MayGenerate(s)
      BY <1>0, <2>1, AcquireStarts
      DEF QueryAcquires, IInv, GoroutineOwnsStation, Workers, Promise!Next
    <2>2. CASE job' = job /\ made' = made
      BY <1>0, <2>2, Stutters
    <2>. QED
      BY <1>2, <2>1, <2>2
      DEF QueryStep, QueryMatchesCurated, QueryMatchesLive, QueryHydrates, QueryMisses,
          QueryRegisters, QueryAcquires, QueryReceives, QueryStopsWaiting,
          QueryRepliesPending
  <1>3. ASSUME NEW w \in Workers, GenerateStep(w)
        PROVE  [Promise!Next]_(Promise!vars)
    BY <1>0, <1>3, GenerateEnds DEF TypeOK, Promise!Next
  <1>4. ASSUME NEW w \in Workers, StoreStep(w)
        PROVE  [Promise!Next]_(Promise!vars)
    <2>1. /\ job[w].phase # "generating" /\ job'[w].phase # "generating"
          /\ \A v \in Workers \ {w} : job'[v] = job[v]
          /\ made' = made
      BY <1>0, <1>4, JobMoves DEF StoreStep, StoreReady, StoreFailed
    <2>. QED
      BY <1>0, <2>1, Stutters
  <1>5. ASSUME NEW p \in Pollers,
               \/ \E s \in Stations, student \in Students : PollReads(p, s, student)
               \/ PollAcquires(p)
               \/ PollRereads(p)
        PROVE  [Promise!Next]_(Promise!vars)
    <2>0. p \in Workers /\ job[p].station \in Stations
      BY <1>0 DEF Workers
    <2>1. CASE PollAcquires(p) /\ MayGenerate(job[p].station)
      BY <1>0, <2>0, <2>1, AcquireStarts DEF PollAcquires, MoveJob, Promise!Next
    <2>2. CASE /\ made' = made
               /\ job[p].phase # "generating" /\ job'[p].phase # "generating"
               /\ \A v \in Workers \ {p} : job'[v] = job[v]
      BY <1>0, <2>2, Stutters
    <2>. QED
      BY <1>0, <1>5, <2>0, <2>1, <2>2 DEF PollReads, PollAcquires, PollRereads, MoveJob
  <1>. QED
    BY <1>1, <1>2, <1>3, <1>4, <1>5 DEF Next

\* LiveStation implements StationPromise.
THEOREM PromiseKept == Spec => ImplementsPromise
  <1>1. Init => Promise!Init
    BY DEF Init, Promise!Init, Generating, Published
  <1>. QED
    BY <1>1, PromiseStep, Invariance, PTL DEF Spec, ImplementsPromise, Promise!Spec

-----------------------------------------------------------------------------
(***************************************************************************)
(* Ownership.                                                              *)
(***************************************************************************)

\* A ledger operation keeps a record's owner, or forgets it when a record
\* comes back ready.
LEMMA OwnersKept ==
  ASSUME TypeOK, RecordHasOwner, NEW s \in Stations,
         \/ RegisterInProgress(s, Owner[s]) \/ MarkReady(s) \/ TryBeginRetry(s) \/ Get
         \/ MarkFailed(s) /\ (ledger[s] # Absent => ledger[s].status # "ready")
  PROVE  RecordHasOwner'
  <1>0. LedgerTypeOK
    BY DEF TypeOK
  <1>1. /\ Purged \in [Stations -> StationRecord \cup {Absent}]
        /\ \A r \in Stations :
             Purged[r] # Absent =>
               /\ Purged[r] \in StationRecord
               /\ \/ Purged[r].owner = Owner[r]
                  \/ Purged[r].owner = Nobody /\ Purged[r].status = "ready"
    BY <1>0, PurgedType DEF RecordHasOwner
  <1>2. \A r \in Stations \ {s} : ledger'[r] = Purged[r]
    BY <1>1 DEF RegisterInProgress, MarkReady, MarkFailed, TryBeginRetry, Get
  <1>3. ledger'[s] # Absent =>
          \/ ledger'[s].owner = Owner[s]
          \/ ledger'[s].owner = Nobody /\ ledger'[s].status = "ready"
    <2>1. CASE RegisterInProgress(s, Owner[s])
      BY <1>1, <2>1 DEF RegisterInProgress
    <2>2. CASE MarkReady(s)
      BY <1>1, <2>2 DEF MarkReady, Present
    <2>3. CASE MarkFailed(s) /\ (ledger[s] # Absent => ledger[s].status # "ready")
      <3>1. CASE Present(s)
        <4>1. /\ ledger'[s].owner = Purged[s].owner
              /\ Purged[s].status # "ready"
          BY <1>0, <1>1, <2>3, <3>1, PurgedType DEF MarkFailed, Present, StationRecord
        <4>. QED
          BY <1>1, <3>1, <4>1 DEF Present
      <3>2. CASE ~ Present(s)
        BY <2>3, <3>2 DEF MarkFailed, Present
      <3>. QED
        BY <3>1, <3>2
    <2>4. CASE TryBeginRetry(s)
      <3>1. CASE MayGenerate(s)
        BY <1>1, <2>4, <3>1 DEF TryBeginRetry, MayGenerate, Present, StationRecord
      <3>2. CASE ~ MayGenerate(s)
        BY <1>1, <2>4, <3>2 DEF TryBeginRetry
      <3>. QED
        BY <3>1, <3>2
    <2>5. CASE Get
      BY <1>1, <2>5 DEF Get
    <2>. QED
      BY <2>1, <2>2, <2>3, <2>4, <2>5
  <1>. QED
    BY <1>1, <1>2, <1>3 DEF RecordHasOwner

\* What a poll may answer about a record, to a student it was not hidden from.
LEMMA AnswerToOwner ==
  ASSUME TypeOK, RecordHasOwner, NEW s \in Stations, NEW student \in Students
  PROVE  /\ FirstAnswer(s, student) \in {"none", "in_progress", "failed"}
              => student = Owner[s]
         /\ GotStatus(s) \in {"in_progress", "failed"} => Purged[s].owner = Owner[s]
  <1>1. LedgerTypeOK /\ Owner[s] \in Students
    BY LiveStationConstants DEF TypeOK
  <1>2. Present(s) => \/ Purged[s].owner = Owner[s]
                      \/ Purged[s].owner = Nobody /\ Purged[s].status = "ready"
    BY <1>1, PurgedType DEF Present, RecordHasOwner
  <1>. QED
    BY <1>1, <1>2, LedgerConstants DEF FirstAnswer, GotStatus, Hidden

\* At the start nobody has been told anything.
LEMMA InitOwnerInv == Init => OwnerInv
  BY DEF Init, LedgerInit, OwnerInv, RecordHasOwner, OnlyOwnerGoesOn, OwnerOnlyWhilePending,
         Workers

\* Every step keeps the owners and what was told to whom.
LEMMA NextOwnerInv == IInv /\ OwnerInv /\ [Next]_vars => OwnerInv'
  <1> SUFFICES ASSUME IInv, OwnerInv, [Next]_vars PROVE OwnerInv'
    OBVIOUS
  <1>0. TypeOK
    BY DEF IInv
  <1>1. ASSUME UNCHANGED ledger PROVE RecordHasOwner'
    BY <1>1 DEF OwnerInv, RecordHasOwner
  <1>2. ASSUME UNCHANGED poll,
               \A p \in Pollers : \/ job'[p] = job[p]
                                  \/ /\ job[p].phase # "idle"
                                     /\ job'[p].station = job[p].station
        PROVE  OnlyOwnerGoesOn' /\ OwnerOnlyWhilePending'
    BY <1>2 DEF OwnerInv, OnlyOwnerGoesOn, OwnerOnlyWhilePending
  <1>3. CASE UNCHANGED vars \/ Tick
    BY <1>1, <1>2, <1>3 DEF vars, Tick, OwnerInv
  <1>4. ASSUME NEW s \in Stations, QueryStep(s)
        PROVE  OwnerInv'
    <2>1. RecordHasOwner'
      BY <1>0, <1>1, <1>4, OwnersKept
      DEF OwnerInv, QueryStep, QueryMatchesCurated, QueryMatchesLive, QueryHydrates,
          QueryMisses, QueryRegisters, QueryAcquires, QueryReceives, QueryStopsWaiting,
          QueryRepliesPending
    <2>2. UNCHANGED poll /\ \A p \in Pollers : job'[p] = job[p]
      BY <1>0, <1>4, LiveStationConstants
      DEF TypeOK, QueryStep, QueryMatchesCurated, QueryMatchesLive, QueryHydrates,
          QueryMisses, QueryRegisters, QueryAcquires, QueryReceives, QueryStopsWaiting,
          QueryRepliesPending, Workers
    <2>. QED
      BY <1>2, <2>1, <2>2 DEF OwnerInv
  <1>5. ASSUME NEW w \in Workers, GenerateStep(w) \/ StoreStep(w)
        PROVE  OwnerInv'
    <2>0. job[w].station \in Stations
      BY <1>0 DEF TypeOK
    <2>1. RecordHasOwner'
      <3>1. CASE GenerateStep(w)
        BY <1>1, <3>1 DEF GenerateStep, GenerateSucceeds, GenerateFails
      <3>2. CASE StoreReady(w)
        BY <1>0, <2>0, <3>2, OwnersKept DEF OwnerInv, StoreReady
      <3>3. CASE StoreFailed(w)
        <4>1. ledger[job[w].station] # Absent => ledger[job[w].station].status # "ready"
          BY <3>3 DEF StoreFailed, MoveJob, InFlight, IInv, FlagWhileInFlight
        <4>. QED
          BY <1>0, <2>0, <3>3, <4>1, OwnersKept DEF OwnerInv, StoreFailed
      <3>. QED
        BY <1>5, <3>1, <3>2, <3>3 DEF StoreStep
    <2>2. /\ UNCHANGED poll
          /\ job[w].phase # "idle"
          /\ job'[w].station = job[w].station
          /\ \A v \in Workers \ {w} : job'[v] = job[v]
      BY <1>0, <1>5, JobMoves
      DEF GenerateStep, StoreStep, GenerateSucceeds, GenerateFails, StoreReady, StoreFailed
    <2>. QED
      BY <1>2, <2>1, <2>2 DEF OwnerInv, Workers
  <1>6. ASSUME NEW p \in Pollers, NEW s \in Stations, NEW student \in Students,
               PollReads(p, s, student)
        PROVE  OwnerInv'
    <2>1. RecordHasOwner'
      BY <1>0, <1>6, OwnersKept DEF OwnerInv, PollReads
    <2>2. /\ poll'[p] = [student |-> student, answer |-> FirstAnswer(s, student)]
          /\ job'[p].station = s
          /\ job'[p].phase # "idle" => FirstAnswer(s, student) = "none"
          /\ \A q \in Pollers \ {p} : poll'[q] = poll[q] /\ job'[q] = job[q]
      BY <1>0, <1>6, LiveStationConstants DEF PollReads, TypeOK, Workers
    <2>. QED
      BY <1>0, <2>1, <2>2, AnswerToOwner
      DEF OwnerInv, OnlyOwnerGoesOn, OwnerOnlyWhilePending
  <1>7. ASSUME NEW p \in Pollers, PollAcquires(p) \/ PollRereads(p)
        PROVE  OwnerInv'
    <2>0. job[p].station \in Stations
      BY <1>0 DEF TypeOK, Workers
    <2>1. RecordHasOwner'
      BY <1>0, <1>7, <2>0, OwnersKept DEF OwnerInv, PollAcquires, PollRereads
    <2>2. poll[p].student = Owner[job[p].station]
      BY <1>7 DEF PollAcquires, PollRereads, MoveJob, OwnerInv, OnlyOwnerGoesOn
    <2>3. /\ poll'[p].student = poll[p].student
          /\ job'[p].station = job[p].station
          /\ \A q \in Pollers \ {p} : poll'[q] = poll[q] /\ job'[q] = job[q]
      BY <1>0, <1>7, LiveStationConstants
      DEF PollAcquires, PollRereads, MoveJob, TypeOK, Workers
    <2>. QED
      BY <2>1, <2>2, <2>3 DEF OwnerInv, OnlyOwnerGoesOn, OwnerOnlyWhilePending
  <1>. QED
    BY <1>3, <1>4, <1>5, <1>6, <1>7 DEF Next

\* While a station is not ready nobody but its owner hears of it.
THEOREM OwnerOnlyWhilePendingHolds == Spec => []OwnerOnlyWhilePending
  <1>1. OwnerInv => OwnerOnlyWhilePending
    BY DEF OwnerInv
  <1>. QED
    BY <1>1, InitOwnerInv, NextOwnerInv, Invariance, PTL DEF Spec

=============================================================================
