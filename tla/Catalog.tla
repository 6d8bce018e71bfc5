------------------------------ MODULE Catalog ------------------------------
(***************************************************************************)
(* What can be found, and where it is kept: the vector index, the registry *)
(* of interactive nodes, the directory of seed files and the ledger, with  *)
(* the operations that move a station between them.                        *)
(*                                                                         *)
(* A query that no node matches asks for a station; the generated station  *)
(* becomes a live node of the index and a ready record of the ledger; a    *)
(* teacher promotes it to a seed file, a curated node and a registered     *)
(* interactive node; students append buttons to registered nodes; and a    *)
(* restart starts over from the files.  How a station is generated is the  *)
(* subject of LiveStation: here a station is one in progress, then a live  *)
(* node, then ready.  A node is named by its id, a station's node by the   *)
(* station.  Titles, markdown and sources are carried along unchanged.     *)
(***************************************************************************)
EXTENDS VectorIndex, StationLedger

CONSTANTS
    Seeds,          \* curated interactive nodes, files from the start
    Demo,           \* nodes seeded into the index only
    Home,           \* where the text of a seed or demo node is embedded
    Rank,           \* order of the file names in the directory
    Buttons,        \* calls of Mutate; each mints a fresh button
    Thresholds,     \* valid similarity thresholds
    BuiltIn,        \* DefaultSimilarityThreshold
    EnvThreshold,   \* AVLP_SIMILARITY_THRESHOLD, or Unset
    Unset,
    MaxTime,        \* bound: clock ticks
    MaxRestarts     \* bound: crashes and restarts

Files == Seeds \cup Stations

ASSUME CatalogConstants ==
    /\ Nodes = Seeds \cup Demo \cup Stations
    /\ Seeds \cap Demo = {} /\ Seeds \cap Stations = {} /\ Demo \cap Stations = {}
    /\ Home \in [Seeds \cup Demo -> Points]
    /\ Rank \in [Files -> Nat]
    /\ Thresholds \subseteq Int
    /\ BuiltIn \in Thresholds
    /\ Unset \notin Thresholds
    /\ EnvThreshold \in Thresholds \cup {Unset}
    /\ MaxTime \in Nat /\ MaxRestarts \in Nat

\* Generated ids carry a fresh ULID; only hand-written seeds may clash.
ASSUME FreshUlids ==
    \A m \in Demo \cup Stations : \A n \in Nodes : UlidOf[m] = UlidOf[n] => m = n

VARIABLES
    station,    \* what was asked for under each tracking ULID, and how far it is
    registry,   \* each registered node: its embedding and its live buttons
    files,      \* the seed directory
    promo,      \* the Promote call that holds the promoter's mutex
    call,       \* the Mutate calls
    config,     \* the threshold in AVLP_CONFIG_PATH
    threshold,  \* Router.DefaultThreshold
    complete,   \* the last LoadDir read every file
    restarts,
    promoted,   \* history: stations whose promotion was answered
    created,    \* history: answers with created=true
    again       \* history: stations promoted again since the last restart

index == <<nodes, ring>>
history == <<promoted, created, again>>
vars == <<index, ledger, now, station, registry, files, promo, call,
          config, threshold, complete, restarts, history>>

Seed == [point : Points, text : Points]    \* the embedding; where its text is embedded
Registered == [point : Points, buttons : SUBSET Buttons]
Idle == [phase |-> "idle"]

ASSUME AbsentIsNoSeed == Absent \notin Seed /\ Absent \notin Registered

StationStage == {"new", "asked", "live", "ready", "gone"}

TypeOK ==
    /\ LedgerTypeOK
    /\ IndexTypeOK
    /\ station \in [Stations -> [stage : StationStage, seed : Seed]]
    /\ registry \in [Nodes -> Registered \cup {Absent}]
    /\ files \in [Files -> Seed \cup {Absent}]
    /\ promo \in {Idle} \cup
                 [phase : {"write", "index", "register"}, of : Stations,
                  seed : Seed, created : BOOLEAN]
    /\ call \in [Buttons -> [phase : {"new", "found", "added", "ended"}, of : Files]]
    /\ config \in Thresholds \cup {Unset}
    /\ threshold \in Thresholds
    /\ complete \in BOOLEAN
    /\ restarts \in Nat
    /\ promoted \subseteq Stations
    /\ created \in [Stations -> Nat]
    /\ again \subseteq Stations

-----------------------------------------------------------------------------
(* Start: the demo nodes, then the directory, then the index.               *)

SeedOf(n) == [point |-> Home[n], text |-> Home[n]]

\* LoadDir reads the files in the order of their names and gives up at the
\* first that cannot be read, decoded, embedded or registered.
Loadable(dir) == {L \in SUBSET {n \in Files : dir[n] # Absent} :
                    \A n \in L : \A m \in Files :
                      dir[m] # Absent /\ Rank[m] < Rank[n] => m \in L}

IsComplete(L, dir) == L = {n \in Files : dir[n] # Absent}

\* The registered nodes are indexed, in any order, only if LoadDir succeeded;
\* of two with one ULID the second is refused.
Indexable(L, dir) ==
    IF IsComplete(L, dir)
      THEN {I \in SUBSET L :
              /\ \A m, n \in I : UlidOf[m] = UlidOf[n] => m = n
              /\ \A n \in L : \E m \in I : UlidOf[m] = UlidOf[n]}
      ELSE {{}}

\* Registry.Put: the node replaces the one of its id, with no live buttons.
Put(point) == [point |-> point, buttons |-> {}]

\* LoadDir embeds the text anew, whatever embedding the file has.
RegistryAtStart(L, dir) ==
    [n \in Nodes |-> IF n \in L THEN Put(dir[n].text) ELSE Absent]

\* Mutant of NodesAtStart: a seed is indexed under the embedding of its file.
NodesOfFiles(I, dir) ==
    [n \in Nodes |-> IF n \in Demo THEN Curated(Home[n])
                     ELSE IF n \in I THEN Curated(dir[n].point) ELSE NoNode]

NodesAtStart(I, dir) ==
    [n \in Nodes |-> IF n \in Demo THEN Curated(Home[n])
                     ELSE IF n \in I THEN Curated(dir[n].text) ELSE NoNode]

\* ResolveEffectiveThreshold: environment, then file, then built-in default.
EffectiveThreshold(file) ==
    IF EnvThreshold # Unset THEN EnvThreshold
    ELSE IF file # Unset THEN file ELSE BuiltIn

Init ==
    /\ LedgerInit
    /\ files = [n \in Files |-> IF n \in Seeds THEN SeedOf(n) ELSE Absent]
    /\ config = Unset
    /\ \E L \in Loadable(files) : \E I \in Indexable(L, files) :
         /\ registry = RegistryAtStart(L, files)
         /\ complete = IsComplete(L, files)
         /\ nodes = NodesAtStart(I, files)
         /\ ring = {UlidOf[n] : n \in Demo \cup I}
    /\ threshold = EffectiveThreshold(config)
    /\ station \in [Stations -> [stage : {"new"}, seed : Seed]]
    /\ call \in [Buttons -> [phase : {"new"}, of : Files]]
    /\ promo = Idle
    /\ restarts = 0
    /\ promoted = {}
    /\ created = [s \in Stations |-> 0]
    /\ again = {}

\* A crash loses everything but the files, and the process starts again.
Restart ==
    /\ restarts < MaxRestarts
    /\ restarts' = restarts + 1
    /\ \E L \in Loadable(files) : \E I \in Indexable(L, files) :
         /\ registry' = RegistryAtStart(L, files)
         /\ complete' = IsComplete(L, files)
         /\ nodes' = NodesAtStart(I, files)
         /\ ring' = {UlidOf[n] : n \in Demo \cup I}
    /\ threshold' = EffectiveThreshold(config)
    /\ ledger' = [s \in Stations |-> Absent]
    /\ station' = [s \in Stations |->
                     IF station[s].stage = "new" THEN station[s]
                                                 ELSE [station[s] EXCEPT !.stage = "gone"]]
    /\ call' = [b \in Buttons |->
                  IF call[b].phase = "new" THEN call[b]
                                           ELSE [call[b] EXCEPT !.phase = "ended"]]
    /\ promo' = Idle
    /\ again' = {}
    /\ UNCHANGED <<now, files, config, promoted, created>>

-----------------------------------------------------------------------------
(* Queries, and the stations they ask for.                                  *)

\* A threshold outside (0, 1] in the request counts as none.
RequestThreshold(asked) == IF asked = Unset THEN threshold ELSE asked

Passes(q, n, asked) == Similarity(q, n) >= RequestThreshold(asked)

\* A live match is hydrated from the ledger.
QueryMatches(q, asked) ==
    /\ \E n \in Nearest(q, now) :
         /\ Passes(q, n, asked)
         /\ ledger' = IF nodes[n].live THEN Purged ELSE ledger
    /\ PurgeLive(now)
    /\ UNCHANGED <<now, station, registry, files, promo, call, config,
                   threshold, complete, restarts, history>>

\* The doubt of station s is embedded at q; its text may be embedded elsewhere,
\* for a client may send an embedding of its own.
QueryMisses(s, asked) ==
    /\ station[s].stage = "new"
    /\ \A n \in Nearest(station[s].seed.point, now) :
         ~ Passes(station[s].seed.point, n, asked)
    /\ station' = [station EXCEPT ![s].stage = "asked"]
    /\ RegisterInProgress(s, Nobody)
    /\ PurgeLive(now)
    /\ UNCHANGED <<now, registry, files, promo, call, config, threshold,
                   complete, restarts, history>>

StationGoesLive(s) ==
    /\ station[s].stage = "asked"
    /\ station' = [station EXCEPT ![s].stage = "live"]
    /\ Upsert(s, Live(station[s].seed.point, now), now)
    /\ UNCHANGED <<ledger, now, registry, files, promo, call, config, threshold,
                   complete, restarts, history>>

StationIsReady(s) ==
    /\ station[s].stage = "live"
    /\ station' = [station EXCEPT ![s].stage = "ready"]
    /\ MarkReady(s)
    /\ UNCHANGED <<index, now, registry, files, promo, call, config, threshold,
                   complete, restarts, history>>

\* harness calibrate --apply; a running router does not look at the file again.
Calibrate(t) ==
    /\ config' = t
    /\ UNCHANGED <<index, ledger, now, station, registry, files, promo, call,
                   threshold, complete, restarts, history>>

-----------------------------------------------------------------------------
(* Promotion: one call at a time, under the promoter's mutex.               *)

Promotes(s, phase, seed, new) ==
    promo' = [phase |-> phase, of |-> s, seed |-> seed, created |-> new]

\* Mutant of SeedFound: the directory is not looked at.
SeedFoundNever(s) == FALSE

SeedFound(s) == files[s] # Absent

PromoteFindsSeed(s) ==
    /\ promo = Idle
    /\ SeedFound(s)
    /\ Promotes(s, "index", files[s], FALSE)
    /\ UNCHANGED <<index, ledger, now, station, registry, files, call, config,
                   threshold, complete, restarts, history>>

PromoteBuilds(s) ==
    /\ promo = Idle
    /\ ~ SeedFound(s)
    /\ GotStatus(s) = "ready"
    /\ Get
    /\ Promotes(s, "write", station[s].seed, TRUE)
    /\ UNCHANGED <<index, now, station, registry, files, call, config,
                   threshold, complete, restarts, history>>

\* ErrStationNotFound, ErrStationNotReady.
PromoteRefuses(s) ==
    /\ promo = Idle
    /\ ~ SeedFound(s)
    /\ GotStatus(s) # "ready"
    /\ Get
    /\ UNCHANGED <<index, now, station, registry, files, promo, call, config,
                   threshold, complete, restarts, history>>

\* The rename is the step that counts; before it the directory is as it was.
PromoteWrites ==
    /\ promo.phase = "write"
    /\ files' = [files EXCEPT ![promo.of] = promo.seed]
    /\ promo' = [promo EXCEPT !.phase = "index"]
    /\ UNCHANGED <<index, ledger, now, station, registry, call, config,
                   threshold, complete, restarts, history>>

PromoteFailsToWrite ==
    /\ promo.phase = "write"
    /\ promo' = Idle
    /\ UNCHANGED <<index, ledger, now, station, registry, files, call, config,
                   threshold, complete, restarts, history>>

\* Mutant of Promoted: the node stays a live one.
PromotedLive(seed) == Live(seed.point, now)

Promoted(seed) == Curated(seed.point)

\* installCurated: the index first, then the registry.  A fresh ULID is never
\* refused.
PromoteIndexes ==
    /\ promo.phase = "index"
    /\ Upsert(promo.of, Promoted(promo.seed), now)
    /\ promo' = [promo EXCEPT !.phase = "register"]
    /\ UNCHANGED <<ledger, now, station, registry, files, call, config,
                   threshold, complete, restarts, history>>

PromoteRegisters ==
    /\ promo.phase = "register"
    /\ registry' = [registry EXCEPT ![promo.of] = Put(promo.seed.point)]
    /\ promo' = Idle
    /\ promoted' = promoted \cup {promo.of}
    /\ created' = IF promo.created THEN [created EXCEPT ![promo.of] = @ + 1] ELSE created
    /\ again' = IF promo.created THEN again ELSE again \cup {promo.of}
    /\ UNCHANGED <<index, ledger, now, station, files, call, config,
                   threshold, complete, restarts>>

\* installCurated is answered with an error: an embedding of another length,
\* before the index, or a node that Put refuses (media without alternatives),
\* after it.  Put takes again what it took once in this process.
PromoteFailsToInstall ==
    /\ \/ promo.phase = "index"
       \/ promo.phase = "register" /\ registry[promo.of] = Absent
    /\ promo' = Idle
    /\ UNCHANGED <<index, ledger, now, station, registry, files, call, config,
                   threshold, complete, restarts, history>>

-----------------------------------------------------------------------------
(* Mutate: the node is looked up, material retrieved with no lock held, and *)
(* the button appended by the node's id.                                    *)

MutateFinds(b) ==
    /\ call[b].phase = "new"
    /\ registry[call[b].of] # Absent
    /\ call' = [call EXCEPT ![b].phase = "found"]
    /\ UNCHANGED <<index, ledger, now, station, registry, files, promo, config,
                   threshold, complete, restarts, history>>

MutateFails(b) ==
    /\ call[b].phase = "found"
    /\ call' = [call EXCEPT ![b].phase = "ended"]
    /\ UNCHANGED <<index, ledger, now, station, registry, files, promo, config,
                   threshold, complete, restarts, history>>

\* Mutant of Appended: the node found before is put back with one button.
AppendedToOld(buttons, b) == {b}

Appended(buttons, b) == buttons \cup {b}

MutateAppends(b) ==
    /\ call[b].phase = "found"
    /\ registry[call[b].of] # Absent
    /\ registry' = [registry EXCEPT ![call[b].of].buttons = Appended(@, b)]
    /\ call' = [call EXCEPT ![b].phase = "added"]
    /\ UNCHANGED <<index, ledger, now, station, files, promo, config,
                   threshold, complete, restarts, history>>

-----------------------------------------------------------------------------

\* Len, HasULID, Nodes and Get.
IndexIsRead ==
    /\ PurgeLive(now)
    /\ UNCHANGED <<ledger, now, station, registry, files, promo, call, config,
                   threshold, complete, restarts, history>>

Tick ==
    /\ now < MaxTime
    /\ now' = now + 1
    /\ UNCHANGED <<index, ledger, station, registry, files, promo, call, config,
                   threshold, complete, restarts, history>>

Next ==
    \/ Restart
    \/ Tick
    \/ IndexIsRead
    \/ PromoteWrites
    \/ PromoteFailsToWrite
    \/ PromoteFailsToInstall
    \/ PromoteIndexes
    \/ PromoteRegisters
    \/ \E t \in Thresholds : Calibrate(t)
    \/ \E q \in Points, asked \in Thresholds \cup {Unset} : QueryMatches(q, asked)
    \/ \E s \in Stations :
         \/ \E asked \in Thresholds \cup {Unset} : QueryMisses(s, asked)
         \/ StationGoesLive(s)
         \/ StationIsReady(s)
         \/ PromoteFindsSeed(s)
         \/ PromoteBuilds(s)
         \/ PromoteRefuses(s)
    \/ \E b \in Buttons : MutateFinds(b) \/ MutateFails(b) \/ MutateAppends(b)

Spec == Init /\ [][Next]_vars

-----------------------------------------------------------------------------
(* Properties.                                                              *)

IsCurated(n) == nodes[n] # NoNode /\ ~ nodes[n].live

\* A promotion that was answered outlives crashes, expiry and repetition: the
\* seed is on disk, and the node is curated in the index and registered, unless
\* the last start gave up on the directory; then promoting again brings it back
\* (live_station_promoter.go, registry.go LoadDir, purgeLiveLocked).
PromotionIsDurable ==
    \A s \in promoted :
      /\ files[s] # Absent
      /\ complete \/ s \in again => IsCurated(s) /\ registry[s] # Absent

\* However often Promote is called, and wherever a call stops half way, it is
\* answered with created=true at most once (live_station_promoter.go:57-69).
CreatedOnce == \A s \in Stations : created[s] <= 1

\* A button that a student was answered stays on its node through overlapping
\* calls of Mutate and a first promotion; only a repeated promotion drops it
\* (mutate.go, registry.go AppendButton and Put).
ButtonsAreKept ==
    \A b \in Buttons :
      LET n == call[b].of IN
      call[b].phase = "added" /\ n \notin again =>
        registry[n] # Absent /\ b \in registry[n].buttons

\* installCurated is between the index and the registry with node n.
HalfInstalled(n) == promo.phase = "register" /\ promo.of = n

\* A node the registry serves is itself a curated node of the index, with the
\* embedding the registry has (but for the moment in which a promotion replaces
\* one after the other), whatever expired, was promoted or restarted since.
\* There are two exceptions.  After a start that gave up on the directory nothing
\* was indexed, and only promoting again helps.  And of hand-written seeds with
\* one ULID the index takes the first and refuses the others, which stay
\* registered (cmd/router/main.go:133-158, registry.go:113-121).
RegistryIsSearchable ==
    \A n \in Nodes : registry[n] # Absent /\ (complete \/ n \in again) =>
      \/ IsCurated(n) /\ (HalfInstalled(n) \/ nodes[n].point = registry[n].point)
      \/ \E m \in Seeds \ {n} : n \in Seeds /\ UlidOf[m] = UlidOf[n] /\ IsCurated(m)

\* A doubt that comes back, and passes the threshold against its live station
\* by the margin, is matched (index.go Nearest, router.go:135-151).
RepeatedDoubtIsMatched ==
    \A q \in Points, asked \in Thresholds \cup {Unset} :
      \A l \in Class(TRUE, now) :
        Similarity(q, l) >= RequestThreshold(asked) + Margin =>
          /\ Nearest(q, now) # {}
          /\ \A n \in Nearest(q, now) : Passes(q, n, asked)

\* What index.go:28 says of live stations, without "by the margin".
RepeatedDoubtLandsOnItsStation ==
    \A q \in Points, asked \in Thresholds \cup {Unset} :
      \A l \in Class(TRUE, now) :
        Similarity(q, l) >= RequestThreshold(asked) =>
          \A n \in Nearest(q, now) : Passes(q, n, asked)

-----------------------------------------------------------------------------
(* The inductive invariant.                                                 *)

\* Where a promotion under way stands with the directory and the registry.
PromoIsInOrder ==
    promo # Idle =>
      LET s == promo.of IN
      /\ station[s].stage \notin {"new", "asked"}
      /\ promo.phase = "write" => promo.created /\ files[s] = Absent
      /\ promo.phase # "write" => files[s] # Absent
      /\ promo.phase = "register" => IsCurated(s) /\ nodes[s].point = promo.seed.point
      /\ promo.created => registry[s] = Absent /\ created[s] = 0

\* A station is registered only from its seed, is answered created=true only
\* once it has one, and its record is ready only if it is.
RegisteredFromSeed ==
    \A s \in Stations :
      /\ registry[s] # Absent => files[s] # Absent
      /\ created[s] # 0 => files[s] # Absent
      /\ ledger[s] # Absent /\ ledger[s].status = "ready" => station[s].stage = "ready"

\* A station's node is put into the index once.
StationsAreNew ==
    \A s \in Stations :
      station[s].stage \in {"new", "asked"} => nodes[s] = NoNode /\ files[s] = Absent

IInv ==
    /\ TypeOK
    /\ RingIsNodes
    /\ PromoIsInOrder
    /\ RegisteredFromSeed
    /\ StationsAreNew
    /\ PromotionIsDurable
    /\ CreatedOnce
    /\ ButtonsAreKept
    /\ RegistryIsSearchable

=============================================================================
