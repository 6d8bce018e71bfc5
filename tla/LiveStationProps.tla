-------------------------- MODULE LiveStationProps --------------------------
(***************************************************************************)
(* The properties of LiveStation: what the runs check and the theorems of  *)
(* LiveStationProofs are about.                                            *)
(***************************************************************************)
EXTENDS LiveStation

\* At most one call of GenerateLive is under way for a station, counting the
\* query's goroutine and every poll, from TryBeginRetry until its result is
\* in the ledger ("un unico GenerateLive", README; router.go:192-193).
SingleFlight ==
    \A v, w \in Workers :
        InFlight(v) /\ InFlight(w) /\ job[v].station = job[w].station => v = w

\* A doubt puts at most one live node in the index, though queries, polls,
\* retries and expired ledger records compete to generate it: a second node
\* would make the index answer the same doubt with two stations.
OneNodePerStation ==
    \A m, n \in liveNodes : m.station = n.station => m = n

\* The retrying flag of a record is set exactly while a generation for its
\* station is under way: it neither outlives the generation (the station
\* would never be retried) nor is lost during it (it would be duplicated).
RetryFlagTracksGeneration ==
    \A s \in Stations :
        ledger[s] # Absent =>
          (ledger[s].retrying <=> \E w \in Workers : InFlight(w) /\ job[w].station = s)

\* While its owner is on record, nobody else learns that a station exists:
\* the answer to another student is "not found" (server.go:190).
OwnerOnlyWhilePending ==
    \A p \in Pollers :
        poll[p].answer \in {"in_progress", "failed"} =>
          poll[p].student = Owner[job[p].station]

\* "student_id incorrecto -> NotFound" (README.md:97), at any time.
OwnerOnly ==
    \A p \in Pollers :
        poll[p].answer \notin {"none", "not_found"} =>
          poll[p].student = Owner[job[p].station]

\* A LiveStationPending answer says "in_progress" or "failed"
\* (proto/router_api.proto:50); a ready station is answered as a match.
PendingIsNotReady == \A s \in Stations : query[s].outcome # "ready"

-----------------------------------------------------------------------------
(* Action properties                                                       *)

\* A ready record is never demoted, by a late failure or another generation:
\* it stays ready until the purge drops it for its age.
ReadyIsFinal ==
    [][\A s \in Stations :
          ledger[s] # Absent /\ ledger[s].status = "ready" =>
             \/ ledger'[s] = ledger[s]
             \/ ledger'[s] = Absent /\ Expired(ledger[s], now)]_vars

-----------------------------------------------------------------------------
(* Liveness                                                                *)

\* The query is answered even if GenerateLive never returns: the RPC does
\* not wait longer than the deadline (live-station-delivery/spec.md:34).
QueryIsAnswered ==
    \A s \in Stations : (query[s].pc # "new") ~> (query[s].pc = "replied")

\* Every generation is accounted for in the ledger: the retrying flag is
\* released or its record expires, so no station is stuck "in progress".
RetryFlagIsReleased ==
    \A s \in Stations :
        (ledger[s] # Absent /\ ledger[s].retrying)
          ~> (ledger[s] = Absent \/ ~ ledger[s].retrying)

\* Once GenerateLive returns, a poll in progress is answered.
PollIsAnswered ==
    \A p \in Pollers : (job[p].phase # "idle") ~> (job[p].phase = "idle")

-----------------------------------------------------------------------------
(* Refinement                                                              *)

Generating == {s \in Stations :
                 \E w \in Workers : job[w] = [phase |-> "generating", station |-> s]}

Published == {s \in Stations : made[s] > 0}

Promise == INSTANCE StationPromise WITH running <- Generating, published <- Published

\* LiveStation implements StationPromise: a step that starts, ends or
\* publishes a generation is allowed by the promise, all others stutter.
ImplementsPromise == Promise!Spec

-----------------------------------------------------------------------------
(* The inductive invariant of the safety properties.                       *)

\* Before it registers, a query's station is unknown to everybody.
Unregistered == {"new", "missed", "hydrating"}

UnregisteredIsFresh ==
    \A s \in Stations :
        query[s].pc \in Unregistered =>
          /\ ledger[s] = Absent
          /\ made[s] = 0
          /\ \A w \in Workers : job[w].station = s => ~ InFlight(w)

\* The goroutine of a query works on its own station.
GoroutineOwnsStation == \A s \in Stations : job[s].station = s

\* While a generation is under way its record, if any is left, shows it.
FlagWhileInFlight ==
    \A w \in Workers :
        LET s == job[w].station IN
        InFlight(w) /\ ledger[s] # Absent =>
          ledger[s].retrying /\ ledger[s].status # "ready"

FlagOnlyInFlight ==
    \A s \in Stations :
        ledger[s] # Absent /\ ledger[s].retrying =>
          \E w \in Workers : InFlight(w) /\ job[w].station = s

\* How far a station's one node has come.
NodeProgress ==
    \A s \in Stations :
        /\ made[s] \in {0, 1}
        /\ made[s] = 0 =>
             /\ \A w \in Workers : job[w].station = s => job[w].phase # "generated"
             /\ ledger[s] # Absent => ledger[s].status # "ready"
        /\ made[s] = 1 =>
             /\ \A w \in Workers :
                  job[w].station = s => job[w].phase \notin {"generating", "errored"}
             /\ ledger[s] # Absent /\ ledger[s].status # "ready" =>
                  \E w \in Workers : job[w].phase = "generated" /\ job[w].station = s

\* The live nodes carry the serial numbers made counts.
SerialsAreMade ==
    \A n \in liveNodes : n.serial = 1 /\ made[n.station] = 1

\* ... and one serial number was given out at one time only.
SerialsAreUnique ==
    \A m, n \in liveNodes : m.station = n.station /\ m.serial = n.serial => m = n

IInv ==
    /\ TypeOK
    /\ SingleFlight
    /\ UnregisteredIsFresh
    /\ GoroutineOwnsStation
    /\ FlagWhileInFlight
    /\ FlagOnlyInFlight
    /\ NodeProgress
    /\ SerialsAreMade
    /\ SerialsAreUnique

(***************************************************************************)
(* The inductive invariant of OwnerOnlyWhilePending.                       *)
(***************************************************************************)

\* A record has its owner, or came back ready after it expired.
RecordHasOwner ==
    \A s \in Stations :
        ledger[s] # Absent =>
          \/ ledger[s].owner = Owner[s]
          \/ ledger[s].owner = Nobody /\ ledger[s].status = "ready"

\* Only the owner's poll goes beyond the first look at the ledger.
OnlyOwnerGoesOn ==
    \A p \in Pollers :
        job[p].phase # "idle" => poll[p].student = Owner[job[p].station]

OwnerInv == RecordHasOwner /\ OnlyOwnerGoesOn /\ OwnerOnlyWhilePending

=============================================================================
