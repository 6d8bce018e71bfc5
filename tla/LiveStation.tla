---------------------------- MODULE LiveStation ----------------------------
(***************************************************************************)
(* Live stations end to end: a query that finds no material mints a        *)
(* tracking ULID, registers it in the ledger and generates a station in a  *)
(* goroutine; the query answers when the generation does or when it stops  *)
(* waiting, whichever is first; pollers look the station up and may take   *)
(* over a generation nobody is running; queries match the live nodes that  *)
(* generations left in the index.                                          *)
(*                                                                         *)
(* pkg/vector/router.go, pkg/vector/station_ledger.go (LookupStation),     *)
(* pkg/livestation/generator.go, the live nodes of pkg/vector/index.go.    *)
(*                                                                         *)
(* Abstracted: vectors and similarity (which node a query matches is a     *)
(* nondeterministic choice), texts, and curated nodes, which no step here  *)
(* changes.  A query and the ULID it mints are the same element of         *)
(* Stations.                                                               *)
(***************************************************************************)
EXTENDS StationLedger

CONSTANTS
    Pollers,              \* concurrent GetLiveStation calls
    Owner,                \* Owner[s]: the student whose query minted s
    NodeTTL,              \* AVLP_LIVE_NODE_TTL, in clock ticks
    GeneratorAvailable,   \* Router.Enabled /\ Router.Live # nil
    MaxTime               \* bound: the clock stops here

ASSUME LiveStationConstants ==
    /\ Owner \in [Stations -> Students]
    /\ NodeTTL \in Nat
    /\ GeneratorAvailable \in BOOLEAN
    /\ MaxTime \in Nat
    /\ Stations \cap Pollers = {}

VARIABLES
    query,      \* query[s]: the QueryNearest call that may mint s
    job,        \* job[w]: one call of GenerateLive, and what becomes of it
    poll,       \* poll[p]: the student asking and the last answer
    liveNodes,  \* the live nodes in the index
    made        \* made[s]: live nodes ever registered for s (history)

vars == <<ledger, now, query, job, poll, liveNodes, made>>

(***************************************************************************)
(* GenerateLive is called by the goroutine of a query, which works on its  *)
(* own station, or by a poller, on the station it asks for.                *)
(***************************************************************************)
Workers == Stations \cup Pollers

QueryPC == {"new", "missed", "registered", "waiting", "replying",
            "hydrating", "replied"}

\* "live_bare" is a match answered without its content; the three statuses
\* are those of a LiveStationPending answer.
QueryOutcome == {"none", "curated", "live", "live_bare", "generated"}
                  \cup StationStatus

JobPhase == {"idle", "acquiring", "generating", "generated", "errored",
             "stored", "refused"}

PollAnswer == {"none", "not_found"} \cup StationStatus

Query == [pc : QueryPC, seen : Stations, outcome : QueryOutcome]

LiveNode == [station : Stations, serial : Nat, created : Nat]

TypeOK ==
    /\ LedgerTypeOK
    /\ query \in [Stations -> Query]
    /\ job \in [Workers -> [phase : JobPhase, station : Stations]]
    /\ poll \in [Pollers -> [student : Students \cup {Nobody}, answer : PollAnswer]]
    /\ liveNodes \subseteq LiveNode
    /\ made \in [Stations -> Nat]

Init ==
    /\ LedgerInit
    /\ query = [s \in Stations |-> [pc |-> "new", seen |-> s, outcome |-> "none"]]
    /\ job \in [Workers -> [phase : {"idle"}, station : Stations]]
    /\ \A s \in Stations : job[s].station = s
    /\ poll = [p \in Pollers |-> [student |-> Nobody, answer |-> "none"]]
    /\ liveNodes = {}
    /\ made = [s \in Stations |-> 0]

-----------------------------------------------------------------------------

\* purgeLiveLocked, run first by every operation of the index.
LivePurged == {n \in liveNodes : now - n.created <= NodeTTL}

InFlight(w) == job[w].phase \in {"generating", "generated", "errored"}

MoveQuery(s, from, to) ==
    /\ query[s].pc = from
    /\ query' = [query EXCEPT ![s].pc = to]

ReplyToQuery(s, from, outcome) ==
    /\ query[s].pc = from
    /\ query' = [query EXCEPT ![s].pc = "replied", ![s].outcome = outcome]

MoveJob(w, from, to) ==
    /\ job[w].phase = from
    /\ job' = [job EXCEPT ![w].phase = to]

-----------------------------------------------------------------------------
(* QueryNearestWithOptions                                                 *)

\* Nearest returns a curated node over the threshold.
QueryMatchesCurated(s) ==
    /\ ReplyToQuery(s, "new", "curated")
    /\ liveNodes' = LivePurged
    /\ UNCHANGED <<ledger, now, job, poll, made>>

\* Nearest returns a live node over the threshold: hydrateLiveMatch is next.
QueryMatchesLive(s) ==
    /\ query[s].pc = "new"
    /\ \E n \in LivePurged :
         query' = [query EXCEPT ![s].pc = "hydrating", ![s].seen = n.station]
    /\ liveNodes' = LivePurged
    /\ UNCHANGED <<ledger, now, job, poll, made>>

\* hydrateLiveMatch takes the content from the ledger if it is there.
QueryHydrates(s) ==
    /\ ReplyToQuery(s, "hydrating",
                    IF GotStatus(query[s].seen) = "ready" THEN "live" ELSE "live_bare")
    /\ Get
    /\ UNCHANGED <<now, job, poll, liveNodes, made>>

\* No node reaches the threshold: a ULID is minted and the event emitted.
QueryMisses(s) ==
    /\ MoveQuery(s, "new", "missed")
    /\ liveNodes' = LivePurged
    /\ UNCHANGED <<ledger, now, job, poll, made>>

QueryRegisters(s) ==
    /\ MoveQuery(s, "missed", IF GeneratorAvailable THEN "registered" ELSE "replying")
    /\ RegisterInProgress(s, Owner[s])
    /\ UNCHANGED <<now, job, poll, liveNodes, made>>

\* Mutant of QueryAcquires: the goroutine starts without TryBeginRetry.
QueryAcquiresNothing(s) ==
    /\ MoveQuery(s, "registered", "waiting")
    /\ job' = [job EXCEPT ![s].phase = "generating"]
    /\ UNCHANGED <<ledger, now, poll, liveNodes, made>>

\* TryBeginRetry, then the goroutine: pending at once if a poller was faster.
QueryAcquires(s) ==
    /\ MoveQuery(s, "registered", IF MayGenerate(s) THEN "waiting" ELSE "replying")
    /\ TryBeginRetry(s)
    /\ job' = IF MayGenerate(s) THEN [job EXCEPT ![s].phase = "generating"] ELSE job
    /\ UNCHANGED <<now, poll, liveNodes, made>>

\* The goroutine's result arrives on the channel.
QueryReceives(s) ==
    /\ \/ job[s].phase = "stored"  /\ ReplyToQuery(s, "waiting", "generated")
       \/ job[s].phase = "refused" /\ MoveQuery(s, "waiting", "replying")
    /\ UNCHANGED <<ledger, now, job, poll, liveNodes, made>>

\* Mutant of QueryStopsWaiting: the query waits for the result.
QueryWaitsForResult(s) ==
    /\ job[s].phase \in {"stored", "refused"}
    /\ MoveQuery(s, "waiting", "replying")
    /\ UNCHANGED <<ledger, now, job, poll, liveNodes, made>>

\* The deadline passes (at once if it is 0) or the caller's context is done;
\* a result already on the channel does not prevent it.
QueryStopsWaiting(s) ==
    /\ MoveQuery(s, "waiting", "replying")
    /\ UNCHANGED <<ledger, now, job, poll, liveNodes, made>>

\* pendingOutcome: the ledger's status, "in_progress" without a record.
QueryRepliesPending(s) ==
    /\ ReplyToQuery(s, "replying",
                    IF Present(s) THEN Purged[s].status ELSE "in_progress")
    /\ Get
    /\ UNCHANGED <<now, job, poll, liveNodes, made>>

-----------------------------------------------------------------------------
(* GenerateLive and what its caller does with the result                   *)

\* Generate succeeds: registering the live node is its last step.
GenerateSucceeds(w) ==
    LET s == job[w].station IN
    /\ MoveJob(w, "generating", "generated")
    /\ liveNodes' = LivePurged \cup
                      {[station |-> s, serial |-> made[s] + 1, created |-> now]}
    /\ made' = [made EXCEPT ![s] = @ + 1]
    /\ UNCHANGED <<ledger, now, query, poll>>

\* Retrieval, embedding or registration fails, before or after the index
\* was consulted (topicHints); no node is left behind.
GenerateFails(w) ==
    /\ MoveJob(w, "generating", "errored")
    /\ liveNodes' \in {liveNodes, LivePurged}
    /\ UNCHANGED <<ledger, now, query, poll, made>>

StoreReady(w) ==
    /\ MoveJob(w, "generated", "stored")
    /\ MarkReady(job[w].station)
    /\ UNCHANGED <<now, query, poll, liveNodes, made>>

StoreFailed(w) ==
    /\ MoveJob(w, "errored", "refused")
    /\ MarkFailed(job[w].station)
    /\ UNCHANGED <<now, query, poll, liveNodes, made>>

-----------------------------------------------------------------------------
(* LookupStation                                                           *)

Hidden(s, student) ==
    /\ student # Nobody
    /\ Purged[s].owner # Nobody
    /\ student # Purged[s].owner

\* Mutant of FirstAnswer: the owner is not looked at.
FirstAnswerToAnyone(s, student) ==
    IF ~ Present(s) THEN "not_found"
    ELSE IF Purged[s].status = "ready" \/ ~ GeneratorAvailable THEN Purged[s].status
    ELSE "none"

\* What the first Get settles; "none" means: go on and try to generate.
FirstAnswer(s, student) ==
    IF ~ Present(s) \/ Hidden(s, student) THEN "not_found"
    ELSE IF Purged[s].status = "ready" \/ ~ GeneratorAvailable THEN Purged[s].status
    ELSE "none"

\* A call of GetLiveStation comes in, from a student it could identify
\* (an empty student id is refused before), and reads the ledger.
PollReads(p, s, student) ==
    /\ job[p].phase = "idle"
    /\ Get
    /\ poll' = [poll EXCEPT ![p] = [student |-> student,
                                    answer  |-> FirstAnswer(s, student)]]
    /\ job' = [job EXCEPT ![p] =
                 [phase   |-> IF FirstAnswer(s, student) = "none" THEN "acquiring" ELSE "idle",
                  station |-> s]]
    /\ UNCHANGED <<now, query, liveNodes, made>>

\* TryBeginRetry: generate, or answer with the snapshot.
PollAcquires(p) ==
    LET s == job[p].station IN
    /\ MoveJob(p, "acquiring", IF MayGenerate(s) THEN "generating" ELSE "idle")
    /\ TryBeginRetry(s)
    /\ poll' = IF MayGenerate(s) THEN poll
               ELSE [poll EXCEPT ![p].answer = RefusedStatus(s)]
    /\ UNCHANGED <<now, query, liveNodes, made>>

\* Mutant of PollRereads: a failed generation is never reported.
PollRereadsSuccess(p) ==
    /\ job[p].phase = "stored"
    /\ job' = [job EXCEPT ![p].phase = "idle"]
    /\ Get
    /\ poll' = [poll EXCEPT ![p].answer = GotStatus(job[p].station)]
    /\ UNCHANGED <<now, query, liveNodes, made>>

\* Get, after MarkReady or MarkFailed.
PollRereads(p) ==
    /\ job[p].phase \in {"stored", "refused"}
    /\ job' = [job EXCEPT ![p].phase = "idle"]
    /\ Get
    /\ poll' = [poll EXCEPT ![p].answer = GotStatus(job[p].station)]
    /\ UNCHANGED <<now, query, liveNodes, made>>

-----------------------------------------------------------------------------

Tick ==
    /\ now < MaxTime
    /\ now' = now + 1
    /\ UNCHANGED <<ledger, query, job, poll, liveNodes, made>>

QueryStep(s) ==
    \/ QueryMatchesCurated(s)
    \/ QueryMatchesLive(s)
    \/ QueryHydrates(s)
    \/ QueryMisses(s)
    \/ QueryRegisters(s)
    \/ QueryAcquires(s)
    \/ QueryReceives(s)
    \/ QueryStopsWaiting(s)
    \/ QueryRepliesPending(s)

GenerateStep(w) == GenerateSucceeds(w) \/ GenerateFails(w)

StoreStep(w) == StoreReady(w) \/ StoreFailed(w)

Next ==
    \/ Tick
    \/ \E s \in Stations : QueryStep(s)
    \/ \E w \in Workers : GenerateStep(w) \/ StoreStep(w)
    \/ \E p \in Pollers :
         \/ \E s \in Stations, student \in Students : PollReads(p, s, student)
         \/ PollAcquires(p)
         \/ PollRereads(p)

Spec == Init /\ [][Next]_vars

\* Goroutines and RPC handlers keep running; GenerateLive may take forever.
HandlersRun ==
    /\ \A s \in Stations :
         /\ WF_vars(query[s].pc # "new" /\ QueryStep(s))
    /\ \A w \in Workers : WF_vars(StoreStep(w))
    /\ \A p \in Pollers : WF_vars(PollAcquires(p)) /\ WF_vars(PollRereads(p))

SlowSpec == Spec /\ HandlersRun

\* The retriever, the embedder and the synthesizer bound their own calls
\* (HTTP client timeouts, bounded retries), so GenerateLive returns.
GeneratorReturns == \A w \in Workers : WF_vars(GenerateStep(w))

FairSpec == SlowSpec /\ GeneratorReturns

=============================================================================
