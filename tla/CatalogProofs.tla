---------------------------- MODULE CatalogProofs ----------------------------
(***************************************************************************)
(* Proofs about Catalog: what is promoted stays findable, and what was     *)
(* answered stays, for any stations, seeds, buttons, lifetimes, embeddings *)
(* and restarts.                                                           *)
(***************************************************************************)
EXTENDS Catalog, TLAPS, WellFoundedInduction

-----------------------------------------------------------------------------
(* The ledger.                                                              *)

\* The purge keeps a record as it was or drops it.
LEMMA PurgedType ==
  ASSUME LedgerTypeOK
  PROVE  /\ Purged \in [Stations -> StationRecord \cup {Absent}]
         /\ \A s \in Stations : Purged[s] = ledger[s] \/ Purged[s] = Absent
  BY DEF LedgerTypeOK, Purged

\* What RegisterInProgress leaves in the ledger.
LEMMA RegisterType ==
  ASSUME LedgerTypeOK, NEW s \in Stations, NEW u \in Students \cup {Nobody},
         RegisterInProgress(s, u)
  PROVE  /\ ledger' \in [Stations -> StationRecord \cup {Absent}]
         /\ \A r \in Stations \ {s} : ledger'[r] = ledger[r] \/ ledger'[r] = Absent
         /\ ledger'[s] \in StationRecord
         /\ ledger'[s].status = "in_progress"
         /\ ledger'[s].retrying = FALSE
  BY PurgedType DEF LedgerTypeOK, RegisterInProgress, StationRecord, StationStatus

\* What MarkReady leaves in the ledger: the station's record is ready, and
\* its flag released, whether or not it was there.
LEMMA MarkReadyType ==
  ASSUME LedgerTypeOK, NEW s \in Stations, MarkReady(s)
  PROVE  /\ ledger' \in [Stations -> StationRecord \cup {Absent}]
         /\ \A r \in Stations \ {s} : ledger'[r] = ledger[r] \/ ledger'[r] = Absent
         /\ ledger'[s] \in StationRecord
         /\ ledger'[s].status = "ready"
         /\ ledger'[s].retrying = FALSE
  <1>1. Purged[s] \in StationRecord \/ ~ Present(s)
    BY PurgedType DEF Present
  <1>2. ledger'[s] \in StationRecord
    BY <1>1, PurgedType DEF LedgerTypeOK, MarkReady, StationRecord, StationStatus
  <1>. QED
    BY <1>2, PurgedType DEF LedgerTypeOK, MarkReady

\* Get only purges.
LEMMA GetType ==
  ASSUME LedgerTypeOK, Get
  PROVE  /\ ledger' \in [Stations -> StationRecord \cup {Absent}]
         /\ \A r \in Stations : ledger'[r] = ledger[r] \/ ledger'[r] = Absent
  BY PurgedType DEF Get

-----------------------------------------------------------------------------
(* The index.                                                               *)

\* The purge keeps a node as it was, or drops a live one.
LEMMA KeptNodes ==
    ASSUME IndexTypeOK, NEW t
    PROVE  /\ Kept(t) \in [Nodes -> IndexNode \cup {NoNode}]
           /\ \A n \in Nodes : \/ Kept(t)[n] = nodes[n] /\ ~ Stale(n, t)
                               \/ /\ Kept(t)[n] = NoNode /\ Stale(n, t)
                                  /\ nodes[n] # NoNode /\ nodes[n].live
BY DEF IndexTypeOK, Kept, Stale

\* What is left of the ring are the ULIDs of what is left of the nodes.
LEMMA KeptRingIsKept ==
    ASSUME IndexTypeOK, RingIsNodes, NEW t
    PROVE  KeptRing(t) = {UlidOf[n] : n \in {m \in Nodes : Kept(t)[m] # NoNode}}
<1>1. \A n \in Nodes : Kept(t)[n] # NoNode <=> nodes[n] # NoNode /\ ~ Stale(n, t)
  BY KeptNodes
<1>2. \A n \in Nodes : Stale(n, t) => nodes[n] # NoNode
  BY DEF Stale
<1>3. ASSUME NEW u
      PROVE  u \in KeptRing(t) <=> \E n \in Nodes : Kept(t)[n] # NoNode /\ UlidOf[n] = u
  <2>1. u \in KeptRing(t) <=> /\ \E n \in Nodes : nodes[n] # NoNode /\ UlidOf[n] = u
                              /\ \A n \in Nodes : Stale(n, t) => UlidOf[n] # u
    BY DEF KeptRing, RingIsNodes
  <2>2. \A m, n \in Nodes : nodes[m] # NoNode /\ nodes[n] # NoNode /\ UlidOf[m] = UlidOf[n] => m = n
    BY DEF RingIsNodes
  <2> QED
    BY <1>1, <1>2, <2>1, <2>2
<1> QED
  BY <1>3

\* Whatever an operation of the index does, nodes it is not about keep their
\* place or, live and old, lose it.
OthersKeep(S) ==
    \A n \in Nodes \ S :
      nodes'[n] = nodes[n] \/ (nodes'[n] = NoNode /\ nodes[n] # NoNode /\ nodes[n].live)

LEMMA PurgeStep ==
    ASSUME IndexTypeOK, RingIsNodes, NEW t, PurgeLive(t)
    PROVE  IndexTypeOK' /\ RingIsNodes' /\ OthersKeep({})
<1>1. nodes' = Kept(t) /\ ring' = KeptRing(t)
  BY DEF PurgeLive
<1>2. IndexTypeOK'
  BY <1>1, KeptNodes DEF IndexTypeOK, KeptRing
<1>3. RingIsNodes'
  BY <1>1, KeptNodes, KeptRingIsKept DEF RingIsNodes
<1> QED
  BY <1>1, <1>2, <1>3, KeptNodes DEF OthersKeep

LEMMA UpsertStep ==
    ASSUME IndexTypeOK, RingIsNodes, NEW t, NEW n \in Nodes, NEW node \in IndexNode,
           Upsert(n, node, t)
    PROVE  IndexTypeOK' /\ RingIsNodes' /\ OthersKeep({n}) /\ nodes'[n] = node
<1>1. /\ nodes' = [Kept(t) EXCEPT ![n] = node] /\ CanUpsert(n, t)
      /\ ring' = IF Kept(t)[n] # NoNode THEN KeptRing(t) ELSE KeptRing(t) \cup {UlidOf[n]}
  BY DEF Upsert
<1>2. Kept(t) \in [Nodes -> IndexNode \cup {NoNode}] /\ node # NoNode
  BY KeptNodes, NoNodeIsNoNode
<1>3. nodes'[n] = node /\ \A m \in Nodes \ {n} : nodes'[m] = Kept(t)[m]
  BY <1>1, <1>2
<1>4. UlidOf \in [Nodes -> Ulids]
  BY IndexConstants
<1>5. IndexTypeOK'
  BY <1>1, <1>2, <1>4 DEF IndexTypeOK, KeptRing
<1>6. ring' = {UlidOf[m] : m \in {k \in Nodes : nodes'[k] # NoNode}}
  <2>1. {k \in Nodes : nodes'[k] # NoNode} = {k \in Nodes : Kept(t)[k] # NoNode} \cup {n}
    BY <1>2, <1>3
  <2>2. {UlidOf[m] : m \in {k \in Nodes : nodes'[k] # NoNode}} = KeptRing(t) \cup {UlidOf[n]}
    BY <2>1, KeptRingIsKept
  <2>3. Kept(t)[n] # NoNode => UlidOf[n] \in KeptRing(t)
    BY KeptRingIsKept
  <2> QED
    BY <1>1, <2>2, <2>3
<1>7. ASSUME NEW k \in Nodes, NEW m \in Nodes, nodes'[k] # NoNode, nodes'[m] # NoNode,
             UlidOf[k] = UlidOf[m]
      PROVE  k = m
  <2>1. \A j \in Nodes : Kept(t)[j] # NoNode => nodes[j] # NoNode /\ UlidOf[j] \in KeptRing(t)
    BY KeptNodes, KeptRingIsKept
  <2>2. CASE k # n /\ m # n
    BY <1>3, <1>7, <2>1, <2>2 DEF RingIsNodes
  <2>3. ASSUME NEW j \in Nodes \ {n}, nodes'[j] # NoNode, UlidOf[j] = UlidOf[n] PROVE FALSE
    <3>1. Kept(t)[j] # NoNode /\ UlidOf[n] \in KeptRing(t)
      BY <1>3, <2>1, <2>3
    <3>2. Kept(t)[n] # NoNode
      BY <1>1, <3>1 DEF CanUpsert
    <3> QED
      BY <2>1, <2>3, <3>1, <3>2 DEF RingIsNodes
  <2> QED
    BY <1>7, <2>2, <2>3
<1> QED
  BY <1>3, <1>5, <1>6, <1>7, KeptNodes DEF RingIsNodes, OthersKeep

-----------------------------------------------------------------------------
(* Steps that are not about promotion or buttons.                           *)

LEMMA Names == Stations \subseteq Nodes /\ Files \subseteq Nodes /\ Stations \subseteq Files
BY CatalogConstants DEF Files

\* The promotion under way, if there is one.
LEMMA PromoIs ==
    ASSUME TypeOK
    PROVE  \/ promo = Idle /\ promo.phase = "idle"
           \/ /\ promo # Idle /\ promo.phase \in {"write", "index", "register"}
              /\ promo.of \in Stations /\ promo.seed \in Seed /\ promo.created \in BOOLEAN
<1>1. CASE promo = Idle
  BY <1>1 DEF Idle
<1>2. CASE promo \in [phase : {"write", "index", "register"}, of : Stations,
                     seed : Seed, created : BOOLEAN]
  <2>1. promo.phase \in {"write", "index", "register"}
    BY <1>2
  <2>2. promo # Idle
    BY <2>1 DEF Idle
  <2> QED
    BY <1>2, <2>1, <2>2
<1> QED
  BY <1>1, <1>2 DEF TypeOK

\* No curated node is lost or moved.
CuratedKeep == \A n \in Nodes : IsCurated(n) => IsCurated(n)' /\ nodes'[n] = nodes[n]

\* No curated node is lost, and only that of a promotion half way is moved.
CuratedNearlyKeep ==
    \A n \in Nodes : IsCurated(n) => IsCurated(n)' /\ (HalfInstalled(n)' \/ nodes'[n] = nodes[n])

\* What the registry serves stays searchable if it does for each node.
LEMMA StillSearchable ==
    ASSUME RegistryIsSearchable, UNCHANGED <<registry, complete, again>>, CuratedNearlyKeep,
           \A n \in Nodes : HalfInstalled(n) => HalfInstalled(n)' \/ registry[n] = Absent
    PROVE  RegistryIsSearchable'
<1> SUFFICES ASSUME NEW n \in Nodes, registry[n] # Absent, complete \/ n \in again
             PROVE  \/ IsCurated(n)' /\ (HalfInstalled(n)' \/ nodes'[n].point = registry[n].point)
                    \/ \E m \in Seeds \ {n} : n \in Seeds /\ UlidOf[m] = UlidOf[n] /\ IsCurated(m)'
  BY DEF RegistryIsSearchable
<1>1. CASE IsCurated(n) /\ (HalfInstalled(n) \/ nodes[n].point = registry[n].point)
  BY <1>1 DEF CuratedNearlyKeep
<1>2. CASE \E m \in Seeds \ {n} : n \in Seeds /\ UlidOf[m] = UlidOf[n] /\ IsCurated(m)
  BY <1>2, Names, CatalogConstants DEF CuratedNearlyKeep
<1> QED
  BY <1>1, <1>2 DEF RegistryIsSearchable

\* What was promoted, registered and answered stays true while no curated node
\* is lost, and stations only move on.
LEMMA Frame ==
    ASSUME IInv, TypeOK', RingIsNodes', StationsAreNew',
           UNCHANGED <<registry, files, promo, call, complete, history>>,
           CuratedKeep,
           \A s \in Stations :
             /\ station[s].stage \notin {"new", "asked"} => station'[s].stage \notin {"new", "asked"}
             /\ ledger'[s] # Absent /\ ledger'[s].status = "ready" => station'[s].stage = "ready"
    PROVE  IInv'
<1>1. PromoIsInOrder'
  <2>1. CASE promo = Idle
    BY <2>1 DEF PromoIsInOrder
  <2>2. CASE promo # Idle
    <3>1. promo.of \in Stations /\ promo.of \in Nodes
      BY <2>2, PromoIs, Names DEF IInv
    <3> QED
      BY <2>2, <3>1 DEF IInv, PromoIsInOrder, CuratedKeep, history
  <2> QED
    BY <2>1, <2>2
<1>2. RegisteredFromSeed'
  BY DEF IInv, RegisteredFromSeed, history
<1>3. PromotionIsDurable'
  BY Names DEF IInv, PromotionIsDurable, CuratedKeep, history, TypeOK
<1>4. CreatedOnce' /\ ButtonsAreKept'
  BY DEF IInv, CreatedOnce, ButtonsAreKept, history
<1>5. RegistryIsSearchable'
  BY StillSearchable DEF IInv, CuratedKeep, CuratedNearlyKeep, history, HalfInstalled
<1> QED
  BY <1>1, <1>2, <1>3, <1>4, <1>5 DEF IInv

\* Curated nodes are none of those that an operation on S may lose.
LEMMA CuratedStay ==
    ASSUME NEW S, OthersKeep(S), NEW n \in Nodes \ S, IsCurated(n)
    PROVE  IsCurated(n)' /\ nodes'[n] = nodes[n]
BY DEF OthersKeep, IsCurated

LEMMA AbsentStay ==
    ASSUME NEW S, OthersKeep(S), NEW n \in Nodes \ S, nodes[n] = NoNode
    PROVE  nodes'[n] = NoNode
BY DEF OthersKeep

\* A ledger whose records other than those of S are dropped or as they were.
LedgerKeeps(S) ==
    /\ LedgerTypeOK'
    /\ \A s \in Stations \ S : ledger'[s] = ledger[s] \/ ledger'[s] = Absent

LEMMA TickStep == ASSUME IInv, Tick PROVE IInv'
<1>1. TypeOK'
  BY DEF IInv, TypeOK, LedgerTypeOK, IndexTypeOK, Tick, index, history
<1>2. RingIsNodes' /\ StationsAreNew'
  BY DEF IInv, Tick, index, RingIsNodes, StationsAreNew
<1>3. CuratedKeep
  BY DEF Tick, index, IsCurated, CuratedKeep
<1> QED
  BY <1>1, <1>2, <1>3, Frame DEF Tick, IInv, RegisteredFromSeed

LEMMA CalibrateStep == ASSUME IInv, NEW t \in Thresholds, Calibrate(t) PROVE IInv'
<1>1. TypeOK'
  BY DEF IInv, TypeOK, LedgerTypeOK, IndexTypeOK, Calibrate, index, history
<1>2. RingIsNodes' /\ StationsAreNew'
  BY DEF IInv, Calibrate, index, RingIsNodes, StationsAreNew
<1>3. CuratedKeep
  BY DEF Calibrate, index, IsCurated, CuratedKeep
<1> QED
  BY <1>1, <1>2, <1>3, Frame DEF Calibrate, IInv, RegisteredFromSeed

\* The index or the ledger is read.
LEMMA ReadStep ==
    ASSUME IInv, PurgeLive(now) \/ UNCHANGED index, LedgerKeeps({}),
           UNCHANGED <<now, station, registry, files, promo, call, config,
                       threshold, complete, restarts, history>>
    PROVE  IInv'
<1>1. IndexTypeOK' /\ RingIsNodes' /\ OthersKeep({})
  <2>1. CASE PurgeLive(now)
    BY <2>1, PurgeStep DEF IInv, TypeOK
  <2>2. CASE UNCHANGED index
    BY <2>2 DEF index, IInv, TypeOK, IndexTypeOK, RingIsNodes, OthersKeep
  <2> QED
    BY <2>1, <2>2
<1>2. TypeOK'
  BY <1>1 DEF IInv, TypeOK, LedgerKeeps, history
<1>3. CuratedKeep
  BY <1>1, CuratedStay DEF CuratedKeep
<1>4. StationsAreNew'
  BY <1>1, AbsentStay, Names DEF IInv, StationsAreNew
<1>5. \A s \in Stations :
        ledger'[s] # Absent /\ ledger'[s].status = "ready" => station'[s].stage = "ready"
  BY DEF IInv, RegisteredFromSeed, LedgerKeeps
<1> QED
  BY <1>1, <1>2, <1>3, <1>4, <1>5, Frame

\* A station takes the next stage.
LEMMA StageStep ==
    ASSUME IInv, NEW s \in Stations, NEW stage \in StationStage,
           stage # "new", stage = "asked" => station[s].stage = "new",
           station' = [station EXCEPT ![s].stage = stage],
           IndexTypeOK', RingIsNodes', stage # "asked" => OthersKeep({s}), stage = "asked" => OthersKeep({}),
           IsCurated(s) => IsCurated(s)' /\ nodes'[s] = nodes[s],
           LedgerTypeOK', \A r \in Stations \ {s} : ledger'[r] = ledger[r] \/ ledger'[r] = Absent,
           ledger'[s] # Absent /\ ledger'[s].status = "ready" => stage = "ready",
           UNCHANGED <<now, registry, files, promo, call, config,
                       threshold, complete, restarts, history>>
    PROVE  IInv'
<1>1. station \in [Stations -> [stage : StationStage, seed : Seed]]
  BY DEF IInv, TypeOK
<1>2. /\ station' \in [Stations -> [stage : StationStage, seed : Seed]]
      /\ station'[s].stage = stage
      /\ \A r \in Stations \ {s} : station'[r] = station[r]
  BY <1>1
<1>3. TypeOK'
  BY <1>2 DEF IInv, TypeOK, history
<1>4. CuratedKeep
  <2>1. ASSUME NEW n \in Nodes, IsCurated(n) PROVE IsCurated(n)' /\ nodes'[n] = nodes[n]
    <3>1. CASE n = s
      BY <2>1, <3>1
    <3>2. CASE n # s
      BY <2>1, <3>2, CuratedStay
    <3> QED
      BY <3>1, <3>2
  <2> QED
    BY <2>1 DEF CuratedKeep
<1>5. StationsAreNew'
  <2>1. ASSUME NEW r \in Stations, station'[r].stage \in {"new", "asked"}
        PROVE  nodes'[r] = NoNode /\ files'[r] = Absent
    <3>1. nodes[r] = NoNode /\ files[r] = Absent
      BY <1>2, <2>1 DEF IInv, StationsAreNew
    <3>2. r = s => stage = "asked"
      BY <1>2, <2>1
    <3> QED
      BY <3>1, <3>2, AbsentStay, Names
  <2> QED
    BY <2>1 DEF StationsAreNew
<1>6. \A r \in Stations :
        /\ station[r].stage \notin {"new", "asked"} => station'[r].stage \notin {"new", "asked"}
        /\ ledger'[r] # Absent /\ ledger'[r].status = "ready" => station'[r].stage = "ready"
  BY <1>2 DEF IInv, RegisteredFromSeed
<1> QED
  BY <1>3, <1>4, <1>5, <1>6, Frame

LEMMA QueryMatchesStep ==
    ASSUME IInv, NEW q, NEW asked, QueryMatches(q, asked)
    PROVE  IInv'
<1>1. ledger' = Purged \/ ledger' = ledger
  BY DEF QueryMatches
<1>2. LedgerKeeps({})
  BY <1>1, PurgedType DEF LedgerKeeps, IInv, TypeOK, LedgerTypeOK, QueryMatches
<1> QED
  BY <1>2, ReadStep DEF QueryMatches

LEMMA IndexIsReadStep == ASSUME IInv, IndexIsRead PROVE IInv'
<1>1. LedgerKeeps({})
  BY DEF LedgerKeeps, IInv, TypeOK, LedgerTypeOK, IndexIsRead
<1> QED
  BY <1>1, ReadStep DEF IndexIsRead

LEMMA RefusesStep == ASSUME IInv, NEW s \in Stations, PromoteRefuses(s) PROVE IInv'
<1>1. LedgerKeeps({})
  BY GetType DEF LedgerKeeps, IInv, TypeOK, LedgerTypeOK, PromoteRefuses
<1> QED
  BY <1>1, ReadStep DEF PromoteRefuses

LEMMA QueryMissesStep ==
    ASSUME IInv, NEW s \in Stations, NEW asked, QueryMisses(s, asked)
    PROVE  IInv'
<1>1. /\ ledger' \in [Stations -> StationRecord \cup {Absent}]
      /\ \A r \in Stations \ {s} : ledger'[r] = ledger[r] \/ ledger'[r] = Absent
      /\ ledger'[s].status = "in_progress"
  BY RegisterType DEF IInv, TypeOK, QueryMisses
<1>2. LedgerTypeOK'
  BY <1>1 DEF IInv, TypeOK, LedgerTypeOK, QueryMisses
<1>3. IndexTypeOK' /\ RingIsNodes' /\ OthersKeep({})
  BY PurgeStep DEF IInv, TypeOK, QueryMisses
<1>4. IsCurated(s) => IsCurated(s)' /\ nodes'[s] = nodes[s]
  BY DEF IInv, StationsAreNew, QueryMisses, IsCurated
<1>5. "asked" \in StationStage
  BY DEF StationStage
<1> QED
  BY <1>1, <1>2, <1>3, <1>4, <1>5, StageStep DEF QueryMisses

LEMMA GoesLiveStep == ASSUME IInv, NEW s \in Stations, StationGoesLive(s) PROVE IInv'
<1> DEFINE node == Live(station[s].seed.point, now)
<1>1. node \in IndexNode
  BY DEF IInv, TypeOK, LedgerTypeOK, Live, IndexNode, Seed
<1>2. Upsert(s, node, now) /\ station[s].stage = "asked"
  BY DEF StationGoesLive
<1> HIDE DEF node
<1>3. IndexTypeOK' /\ RingIsNodes' /\ OthersKeep({s})
  BY <1>1, <1>2, UpsertStep, Names DEF IInv, TypeOK
<1>4. IsCurated(s) => IsCurated(s)' /\ nodes'[s] = nodes[s]
  BY <1>2 DEF IInv, StationsAreNew, IsCurated
<1>5. "live" \in StationStage /\ LedgerTypeOK'
  BY DEF StationStage, IInv, TypeOK, LedgerTypeOK, StationGoesLive
<1>6. ~ (ledger[s] # Absent /\ ledger[s].status = "ready")
  BY <1>2 DEF IInv, RegisteredFromSeed
<1> QED
  BY <1>3, <1>4, <1>5, <1>6, StageStep DEF StationGoesLive

LEMMA IsReadyStep == ASSUME IInv, NEW s \in Stations, StationIsReady(s) PROVE IInv'
<1>1. /\ ledger' \in [Stations -> StationRecord \cup {Absent}]
      /\ \A r \in Stations \ {s} : ledger'[r] = ledger[r] \/ ledger'[r] = Absent
  BY MarkReadyType DEF IInv, TypeOK, StationIsReady
<1>2. LedgerTypeOK'
  BY <1>1 DEF IInv, TypeOK, LedgerTypeOK, StationIsReady
<1>3. IndexTypeOK' /\ RingIsNodes' /\ OthersKeep({s})
  BY DEF IInv, TypeOK, StationIsReady, index, IndexTypeOK, RingIsNodes, OthersKeep
<1>5. IsCurated(s) => IsCurated(s)' /\ nodes'[s] = nodes[s]
  BY DEF StationIsReady, index, IsCurated
<1>4. "ready" \in StationStage
  BY DEF StationStage
<1> QED
  BY <1>1, <1>2, <1>3, <1>4, <1>5, StageStep DEF StationIsReady

-----------------------------------------------------------------------------
(* Promotion.                                                               *)

\* Steps of a promotion before it is answered: no curated node is lost, no seed
\* is taken away.
LEMMA PromoStep ==
    ASSUME IInv, TypeOK', RingIsNodes', StationsAreNew', PromoIsInOrder',
           UNCHANGED <<station, registry, call, complete, history>>, CuratedNearlyKeep,
           \A n \in Nodes : HalfInstalled(n) => HalfInstalled(n)' \/ registry[n] = Absent,
           \A n \in Files : files[n] # Absent => files'[n] # Absent,
           \A s \in Stations : ledger'[s] = ledger[s] \/ ledger'[s] = Absent
    PROVE  IInv'
<1>1. RegisteredFromSeed'
  BY Names DEF IInv, RegisteredFromSeed, history
<1>2. PromotionIsDurable'
  BY Names DEF IInv, PromotionIsDurable, CuratedNearlyKeep, history, TypeOK
<1>3. CreatedOnce' /\ ButtonsAreKept'
  BY DEF IInv, CreatedOnce, ButtonsAreKept, history
<1>4. RegistryIsSearchable'
  BY StillSearchable DEF IInv, history
<1> QED
  BY <1>1, <1>2, <1>3, <1>4 DEF IInv

LEMMA IndexUnchanged ==
    ASSUME IInv, UNCHANGED index
    PROVE  /\ IndexTypeOK' /\ RingIsNodes'
           /\ CuratedKeep /\ CuratedNearlyKeep
           /\ UNCHANGED <<station, files>> => StationsAreNew'
BY DEF IInv, TypeOK, index, IndexTypeOK, RingIsNodes, IsCurated, StationsAreNew, CuratedKeep,
       CuratedNearlyKeep

LEMMA FindsSeedStep == ASSUME IInv, NEW s \in Stations, PromoteFindsSeed(s) PROVE IInv'
<1>1. /\ files[s] # Absent /\ UNCHANGED index
      /\ promo' = [phase |-> "index", of |-> s, seed |-> files[s], created |-> FALSE]
      /\ UNCHANGED <<ledger, now, station, registry, files, call, config,
                     threshold, complete, restarts, history>>
  BY DEF PromoteFindsSeed, Promotes, SeedFound
<1>2. files[s] \in Seed
  BY <1>1, Names DEF IInv, TypeOK
<1>3. TypeOK'
  BY <1>1, <1>2, IndexUnchanged DEF IInv, TypeOK, LedgerTypeOK, history
<1>4. PromoIsInOrder'
  BY <1>1 DEF PromoIsInOrder, IInv, StationsAreNew
<1>5. \A n \in Nodes : ~ HalfInstalled(n)
  BY DEF HalfInstalled, PromoteFindsSeed, Idle
<1> QED
  BY <1>1, <1>3, <1>4, <1>5, IndexUnchanged, PromoStep

LEMMA BuildsStep == ASSUME IInv, NEW s \in Stations, PromoteBuilds(s) PROVE IInv'
<1>1. /\ files[s] = Absent /\ UNCHANGED index /\ GotStatus(s) = "ready" /\ Get
      /\ promo' = [phase |-> "write", of |-> s, seed |-> station[s].seed, created |-> TRUE]
      /\ UNCHANGED <<now, station, registry, files, call, config,
                     threshold, complete, restarts, history>>
  BY DEF PromoteBuilds, Promotes, SeedFound
<1>2. LedgerTypeOK' /\ \A r \in Stations : ledger'[r] = ledger[r] \/ ledger'[r] = Absent
  BY <1>1, GetType DEF IInv, TypeOK, LedgerTypeOK
<1>3. station[s].seed \in Seed
  BY DEF IInv, TypeOK
<1>4. TypeOK'
  BY <1>1, <1>2, <1>3, IndexUnchanged DEF IInv, TypeOK, history
<1>5. ledger[s] # Absent /\ ledger[s].status = "ready"
  BY <1>1, PurgedType DEF GotStatus, Present, IInv, TypeOK
<1>6. station[s].stage = "ready" /\ registry[s] = Absent /\ created[s] = 0
  BY <1>1, <1>5 DEF IInv, RegisteredFromSeed
<1>7. PromoIsInOrder'
  BY <1>1, <1>6 DEF PromoIsInOrder, history
<1>8. \A n \in Nodes : ~ HalfInstalled(n)
  BY DEF HalfInstalled, PromoteBuilds, Idle
<1> QED
  BY <1>1, <1>2, <1>4, <1>7, <1>8, IndexUnchanged, PromoStep

LEMMA WritesStep == ASSUME IInv, PromoteWrites PROVE IInv'
<1> DEFINE s == promo.of
<1>1. /\ promo.phase = "write" /\ UNCHANGED index
      /\ files' = [files EXCEPT ![s] = promo.seed] /\ promo' = [promo EXCEPT !.phase = "index"]
      /\ UNCHANGED <<ledger, now, station, registry, call, config,
                     threshold, complete, restarts, history>>
  BY DEF PromoteWrites
<1>2. /\ promo # Idle /\ s \in Stations /\ s \in Files /\ promo.seed \in Seed
      /\ promo \in [phase : {"write", "index", "register"}, of : Stations,
                    seed : Seed, created : BOOLEAN]
  BY <1>1, PromoIs, Names DEF IInv, TypeOK
<1>3. /\ promo' \in [phase : {"write", "index", "register"}, of : Stations,
                     seed : Seed, created : BOOLEAN]
      /\ promo'.phase = "index" /\ promo'.of = s /\ promo'.created = promo.created
  BY <1>1, <1>2
<1>4. /\ files' \in [Files -> Seed \cup {Absent}] /\ files'[s] # Absent
      /\ \A n \in Files \ {s} : files'[n] = files[n]
  BY <1>1, <1>2, AbsentIsNoSeed DEF IInv, TypeOK
<1>5. TypeOK'
  BY <1>1, <1>3, <1>4, IndexUnchanged DEF IInv, TypeOK, LedgerTypeOK, history
<1>6. PromoIsInOrder'
  BY <1>1, <1>2, <1>3, <1>4 DEF IInv, PromoIsInOrder, history
<1>7. StationsAreNew'
  BY <1>1, <1>2, <1>4, Names DEF IInv, PromoIsInOrder, StationsAreNew, index
<1>8. \A n \in Nodes : ~ HalfInstalled(n)
  BY <1>1 DEF HalfInstalled
<1> QED
  BY <1>1, <1>4, <1>5, <1>6, <1>7, <1>8, IndexUnchanged, PromoStep

LEMMA FailsToWriteStep == ASSUME IInv, PromoteFailsToWrite PROVE IInv'
<1>1. TypeOK'
  BY IndexUnchanged DEF IInv, TypeOK, LedgerTypeOK, history, PromoteFailsToWrite
<1>2. PromoIsInOrder'
  BY DEF PromoIsInOrder, PromoteFailsToWrite
<1>3. \A n \in Nodes : ~ HalfInstalled(n)
  BY DEF HalfInstalled, PromoteFailsToWrite
<1> QED
  BY <1>1, <1>2, <1>3, IndexUnchanged, PromoStep DEF PromoteFailsToWrite

LEMMA FailsToInstallStep == ASSUME IInv, PromoteFailsToInstall PROVE IInv'
<1>1. TypeOK'
  BY IndexUnchanged DEF IInv, TypeOK, LedgerTypeOK, history, PromoteFailsToInstall
<1>2. PromoIsInOrder'
  BY DEF PromoIsInOrder, PromoteFailsToInstall
<1>3. \A n \in Nodes : HalfInstalled(n) => registry[n] = Absent
  BY DEF HalfInstalled, PromoteFailsToInstall
<1> QED
  BY <1>1, <1>2, <1>3, IndexUnchanged, PromoStep DEF PromoteFailsToInstall

LEMMA IndexesStep == ASSUME IInv, PromoteIndexes PROVE IInv'
<1> DEFINE node == Promoted(promo.seed)
<1>0. PICK s \in Stations : s = promo.of
  BY PromoIs DEF IInv, PromoteIndexes
<1>1. /\ promo.phase = "index" /\ Upsert(s, node, now)
      /\ promo' = [promo EXCEPT !.phase = "register"]
      /\ UNCHANGED <<ledger, now, station, registry, files, call, config,
                     threshold, complete, restarts, history>>
  BY <1>0 DEF PromoteIndexes
<1>2. /\ promo # Idle /\ promo.of = s /\ s \in Nodes /\ promo.seed \in Seed
      /\ promo \in [phase : {"write", "index", "register"}, of : Stations,
                    seed : Seed, created : BOOLEAN]
  BY <1>0, <1>1, PromoIs, Names DEF IInv, TypeOK
<1>3. /\ promo' \in [phase : {"write", "index", "register"}, of : Stations,
                     seed : Seed, created : BOOLEAN]
      /\ promo'.phase = "register" /\ promo'.of = s /\ promo'.created = promo.created
      /\ promo'.seed = promo.seed
  BY <1>1, <1>2
<1>4. node \in IndexNode /\ ~ node.live /\ node.point = promo.seed.point
  BY <1>2 DEF Promoted, Curated, IndexNode, Seed
<1> HIDE DEF node
<1>5. IndexTypeOK' /\ RingIsNodes' /\ OthersKeep({s}) /\ nodes'[s] = node
  BY <1>1, <1>2, <1>4, UpsertStep DEF IInv, TypeOK
<1>6. IsCurated(s)'
  BY <1>4, <1>5, NoNodeIsNoNode DEF IsCurated
<1>7. CuratedNearlyKeep
  <2>1. ASSUME NEW n \in Nodes, IsCurated(n), n # s PROVE IsCurated(n)' /\ nodes'[n] = nodes[n]
    BY <1>5, <2>1, CuratedStay
  <2>2. HalfInstalled(s)'
    BY <1>3 DEF HalfInstalled
  <2> QED
    BY <1>6, <2>1, <2>2 DEF CuratedNearlyKeep
<1>7a. \A n \in Nodes : ~ HalfInstalled(n)
  BY <1>1 DEF HalfInstalled
<1>8. TypeOK'
  BY <1>1, <1>3, <1>5 DEF IInv, TypeOK, LedgerTypeOK, history
<1>9. PromoIsInOrder'
  BY <1>1, <1>2, <1>3, <1>4, <1>5, <1>6 DEF IInv, PromoIsInOrder, history
<1>10. StationsAreNew'
  <2>1. ASSUME NEW r \in Stations, station'[r].stage \in {"new", "asked"}
        PROVE  nodes'[r] = NoNode /\ files'[r] = Absent
    <3>1. nodes[r] = NoNode /\ files[r] = Absent /\ r # s
      BY <1>1, <1>2, <2>1 DEF IInv, StationsAreNew, PromoIsInOrder
    <3> QED
      BY <1>1, <1>5, <3>1, AbsentStay, Names
  <2> QED
    BY <2>1 DEF StationsAreNew
<1> QED
  BY <1>1, <1>5, <1>7, <1>7a, <1>8, <1>9, <1>10, PromoStep

LEMMA RegistersStep == ASSUME IInv, PromoteRegisters PROVE IInv'
<1>1. PICK s \in Stations : s = promo.of /\ promo # Idle /\ promo.phase = "register"
  BY PromoIs DEF IInv, PromoteRegisters
<1>2. /\ registry' = [registry EXCEPT ![s] = Put(promo.seed.point)] /\ promo' = Idle
      /\ promoted' = promoted \cup {s}
      /\ created' = IF promo.created THEN [created EXCEPT ![s] = @ + 1] ELSE created
      /\ again' = IF promo.created THEN again ELSE again \cup {s}
      /\ UNCHANGED <<index, ledger, now, station, files, call, config,
                     threshold, complete, restarts>>
  BY <1>1 DEF PromoteRegisters
<1>3. /\ IsCurated(s) /\ files[s] # Absent /\ nodes[s].point = promo.seed.point
      /\ promo.created => registry[s] = Absent /\ created[s] = 0
  BY <1>1 DEF IInv, PromoIsInOrder
<1>4. /\ s \in Nodes /\ s \in Files
      /\ Put(promo.seed.point) \in Registered /\ Put(promo.seed.point) # Absent
      /\ Put(promo.seed.point).point = promo.seed.point
  <2>1. promo.seed.point \in Points
    BY <1>1, PromoIs DEF IInv, Seed
  <2> QED
    BY <2>1, Names, AbsentIsNoSeed DEF Put, Registered
<1>5. /\ registry' \in [Nodes -> Registered \cup {Absent}]
      /\ registry'[s] # Absent /\ registry'[s].point = promo.seed.point
      /\ \A n \in Nodes \ {s} : registry'[n] = registry[n]
  BY <1>2, <1>4 DEF IInv, TypeOK
<1>6. /\ created' \in [Stations -> Nat] /\ (promo.created => created'[s] = 1)
      /\ \A r \in Stations : created'[r] = created[r] \/ r = s
      /\ ~ promo.created => created' = created
  BY <1>2, <1>3 DEF IInv, TypeOK
<1>7. TypeOK'
  BY <1>2, <1>5, <1>6, IndexUnchanged DEF IInv, TypeOK, LedgerTypeOK
<1>8. RingIsNodes' /\ StationsAreNew' /\ \A n \in Nodes : IsCurated(n)' = IsCurated(n)
  BY <1>2, IndexUnchanged DEF index, IsCurated
<1>9. PromoIsInOrder'
  BY <1>2 DEF PromoIsInOrder
<1>10. RegisteredFromSeed'
  <2>1. ASSUME NEW r \in Stations
        PROVE  /\ registry'[r] # Absent => files'[r] # Absent
               /\ created'[r] # 0 => files'[r] # Absent
    BY <1>2, <1>3, <1>5, <1>6, Names DEF IInv, RegisteredFromSeed
  <2> QED
    BY <1>2, <2>1 DEF IInv, RegisteredFromSeed
<1>11. PromotionIsDurable'
  BY <1>2, <1>3, <1>4, <1>5, <1>8, Names DEF IInv, PromotionIsDurable, TypeOK
<1>12. CreatedOnce'
  <2>1. ASSUME NEW r \in Stations PROVE created'[r] <= 1
    BY <1>6 DEF IInv, CreatedOnce
  <2> QED
    BY <2>1 DEF CreatedOnce
<1>13. ButtonsAreKept'
  <2>1. ASSUME NEW b \in Buttons, call[b].phase = "added", call[b].of \notin again'
        PROVE  registry'[call[b].of] # Absent /\ b \in registry'[call[b].of].buttons
    <3>1. call[b].of \in Nodes
      BY Names DEF IInv, TypeOK
    <3>2. registry[call[b].of] # Absent /\ b \in registry[call[b].of].buttons
      BY <1>2, <2>1 DEF IInv, ButtonsAreKept
    <3>3. call[b].of # s
      BY <1>2, <1>3, <2>1, <3>2
    <3> QED
      BY <1>5, <3>1, <3>2, <3>3
  <2> QED
    BY <1>2, <2>1 DEF ButtonsAreKept
<1>14. RegistryIsSearchable'
  <2>1. IsCurated(s)' /\ nodes'[s].point = registry'[s].point
    BY <1>2, <1>3, <1>4, <1>5, <1>8 DEF index
  <2>2. ASSUME NEW n \in Nodes \ {s}, registry'[n] # Absent, complete \/ n \in again'
        PROVE  \/ IsCurated(n)' /\ nodes'[n].point = registry'[n].point
               \/ \E m \in Seeds \ {n} : n \in Seeds /\ UlidOf[m] = UlidOf[n] /\ IsCurated(m)'
    <3>1. registry[n] # Absent /\ (complete \/ n \in again) /\ ~ HalfInstalled(n)
      BY <1>1, <1>2, <1>5, <2>2 DEF HalfInstalled
    <3>2. Seeds \subseteq Nodes /\ nodes' = nodes
      BY <1>2, CatalogConstants DEF index
    <3> QED
      BY <1>5, <1>8, <2>2, <3>1, <3>2 DEF IInv, RegistryIsSearchable
  <2> QED
    BY <1>2, <1>4, <2>1, <2>2 DEF RegistryIsSearchable
<1> QED
  BY <1>7, <1>8, <1>9, <1>10, <1>11, <1>12, <1>13, <1>14 DEF IInv

-----------------------------------------------------------------------------
(* Buttons.                                                                 *)

\* A call of Mutate goes on; what is registered stays so.
LEMMA MutateStep ==
    ASSUME IInv, NEW b \in Buttons, NEW phase \in {"found", "added", "ended"},
           call' = [call EXCEPT ![b].phase = phase],
           UNCHANGED <<index, ledger, now, station, files, promo, config,
                       threshold, complete, restarts, history>>,
           registry' \in [Nodes -> Registered \cup {Absent}],
           \A n \in Nodes : registry[n] # Absent =>
                              /\ registry'[n] # Absent /\ registry'[n].point = registry[n].point
                              /\ registry[n].buttons \subseteq registry'[n].buttons,
           \A n \in Nodes : registry'[n] # Absent => registry[n] # Absent,
           phase = "added" => /\ registry'[call[b].of] # Absent
                              /\ b \in registry'[call[b].of].buttons
    PROVE  IInv'
<1>1. call \in [Buttons -> [phase : {"new", "found", "added", "ended"}, of : Files]]
  BY DEF IInv, TypeOK
<1>2. /\ call' \in [Buttons -> [phase : {"new", "found", "added", "ended"}, of : Files]]
      /\ call'[b].phase = phase /\ call'[b].of = call[b].of
      /\ \A c \in Buttons \ {b} : call'[c] = call[c]
  BY <1>1
<1>3. TypeOK'
  BY <1>2, IndexUnchanged DEF IInv, TypeOK, LedgerTypeOK, history
<1>4. RingIsNodes' /\ StationsAreNew' /\ \A n \in Nodes : IsCurated(n)' = IsCurated(n)
  BY IndexUnchanged DEF index, IsCurated
<1>5. RegisteredFromSeed'
  <2>1. ASSUME NEW s \in Stations, registry'[s] # Absent PROVE files[s] # Absent
    BY <2>1, Names DEF IInv, RegisteredFromSeed
  <2> QED
    BY <2>1 DEF IInv, RegisteredFromSeed, history
<1>6. PromoIsInOrder'
  <2>1. CASE promo = Idle
    BY <2>1 DEF PromoIsInOrder
  <2>2. CASE promo # Idle
    <3>1. promo.of \in Nodes
      BY <2>2, PromoIs, Names DEF IInv
    <3>2. registry[promo.of] = Absent => registry'[promo.of] = Absent
      BY <3>1
    <3>3. nodes' = nodes /\ (IsCurated(promo.of) => IsCurated(promo.of)')
      BY <3>1 DEF IsCurated, index
    <3> QED
      BY <2>2, <3>2, <3>3 DEF IInv, PromoIsInOrder, history
  <2> QED
    BY <2>1, <2>2
<1>7. PromotionIsDurable' /\ CreatedOnce'
  <2>1. ASSUME NEW s \in promoted
        PROVE  /\ files[s] # Absent
               /\ complete \/ s \in again => IsCurated(s)' /\ registry'[s] # Absent
    <3>1. s \in Nodes
      BY Names DEF IInv, TypeOK
    <3> QED
      BY <1>4, <3>1 DEF IInv, PromotionIsDurable
  <2> QED
    BY <2>1 DEF IInv, PromotionIsDurable, CreatedOnce, history
<1>8. RegistryIsSearchable'
  <2>1. Seeds \subseteq Nodes /\ UNCHANGED <<nodes, promo, complete, again>>
    BY CatalogConstants DEF index, history
  <2>2. ASSUME NEW n \in Nodes, registry'[n] # Absent, complete \/ n \in again
        PROVE  \/ IsCurated(n)' /\ (HalfInstalled(n) \/ nodes[n].point = registry'[n].point)
               \/ \E m \in Seeds \ {n} : n \in Seeds /\ UlidOf[m] = UlidOf[n] /\ IsCurated(m)'
    <3>1. registry[n] # Absent /\ registry'[n].point = registry[n].point
      BY <2>2
    <3> QED
      BY <1>4, <2>1, <2>2, <3>1 DEF IInv, RegistryIsSearchable
  <2> QED
    BY <2>1, <2>2 DEF RegistryIsSearchable, HalfInstalled
<1>9. ButtonsAreKept'
  <2>1. ASSUME NEW c \in Buttons, call'[c].phase = "added", call'[c].of \notin again
        PROVE  registry'[call'[c].of] # Absent /\ c \in registry'[call'[c].of].buttons
    <3>1. CASE c = b
      BY <1>2, <2>1, <3>1
    <3>2. CASE c # b
      <4>1. call'[c] = call[c] /\ call[c].of \in Nodes
        BY <1>1, <1>2, <3>2, Names
      <4>2. registry[call[c].of] # Absent /\ c \in registry[call[c].of].buttons
        BY <2>1, <4>1 DEF IInv, ButtonsAreKept
      <4> QED
        BY <4>1, <4>2
    <3> QED
      BY <3>1, <3>2
  <2> QED
    BY <2>1 DEF ButtonsAreKept, history
<1> QED
  BY <1>3, <1>4, <1>5, <1>6, <1>7, <1>8, <1>9 DEF IInv

LEMMA ButtonSteps ==
    ASSUME IInv, NEW b \in Buttons, MutateFinds(b) \/ MutateFails(b) \/ MutateAppends(b)
    PROVE  IInv'
<1>1. registry \in [Nodes -> Registered \cup {Absent}]
  BY DEF IInv, TypeOK
<1>2. CASE MutateFinds(b)
  BY <1>1, <1>2, MutateStep DEF MutateFinds
<1>3. CASE MutateFails(b)
  BY <1>1, <1>3, MutateStep DEF MutateFails
<1>4. CASE MutateAppends(b)
  <2> DEFINE n == call[b].of
             new == [registry[n] EXCEPT !.buttons = registry[n].buttons \cup {b}]
  <2>1. n \in Nodes /\ registry[n] # Absent /\ registry[n] \in Registered
    BY <1>1, <1>4, Names DEF IInv, TypeOK, MutateAppends
  <2>2. registry' = [registry EXCEPT ![n] = new]
    BY <1>1, <1>4, <2>1 DEF MutateAppends, Appended
  <2> HIDE DEF n
  <2>3. /\ new \in Registered /\ new # Absent /\ new.point = registry[n].point
        /\ new.buttons = registry[n].buttons \cup {b}
    BY <2>1, AbsentIsNoSeed DEF Registered
  <2> HIDE DEF new
  <2>4. /\ registry' \in [Nodes -> Registered \cup {Absent}]
        /\ registry'[n] = new /\ \A m \in Nodes \ {n} : registry'[m] = registry[m]
    BY <1>1, <2>1, <2>2, <2>3
  <2>5. \A m \in Nodes :
          /\ registry[m] # Absent =>
               /\ registry'[m] # Absent /\ registry'[m].point = registry[m].point
               /\ registry[m].buttons \subseteq registry'[m].buttons
          /\ registry'[m] # Absent => registry[m] # Absent
    BY <2>1, <2>3, <2>4
  <2>6. registry'[call[b].of] # Absent /\ b \in registry'[call[b].of].buttons
    BY <2>3, <2>4 DEF n
  <2> QED
    BY <1>4, <2>4, <2>5, <2>6, MutateStep DEF MutateAppends
<1> QED
  BY <1>2, <1>3, <1>4

-----------------------------------------------------------------------------
(* Starting from the files.                                                 *)

\* What LoadDir and the indexing of what it registered leave.
LEMMA Started ==
    ASSUME NEW dir \in [Files -> Seed \cup {Absent}],
           NEW L \in Loadable(dir), NEW I \in Indexable(L, dir),
           NEW N, N = NodesAtStart(I, dir)
    PROVE  /\ L \subseteq {n \in Files : dir[n] # Absent} /\ I \subseteq L
           /\ IsComplete(L, dir) =>
                /\ L = {n \in Files : dir[n] # Absent}
                /\ \A n \in L : \E m \in I : UlidOf[m] = UlidOf[n]
           /\ N \in [Nodes -> IndexNode \cup {NoNode}]
           /\ \A n \in Nodes : N[n] # NoNode <=> n \in Demo \cup I
           /\ \A n \in I : ~ N[n].live /\ N[n].point = dir[n].text
           /\ \A m, n \in Demo \cup I : UlidOf[m] = UlidOf[n] => m = n
<1>1. L \subseteq {n \in Files : dir[n] # Absent}
  BY DEF Loadable
<1>2. I \subseteq L /\ \A m, n \in I : UlidOf[m] = UlidOf[n] => m = n
  BY DEF Indexable
<1>3. IsComplete(L, dir) => /\ L = {n \in Files : dir[n] # Absent}
                            /\ \A n \in L : \E m \in I : UlidOf[m] = UlidOf[n]
  BY DEF Indexable, IsComplete
<1>4. I \subseteq Nodes /\ Demo \subseteq Nodes /\ I \cap Demo = {}
  BY <1>1, <1>2, CatalogConstants DEF Files
<1>5. \A n \in Demo : Curated(Home[n]) \in IndexNode
  BY CatalogConstants DEF Curated, IndexNode
<1>6. \A n \in I : Curated(dir[n].text) \in IndexNode /\ ~ Curated(dir[n].text).live
  <2>1. ASSUME NEW n \in I PROVE dir[n].text \in Points
    BY <1>1, <1>2, <2>1 DEF Seed
  <2> QED
    BY <2>1 DEF Curated, IndexNode
<1>7. /\ N \in [Nodes -> IndexNode \cup {NoNode}]
      /\ \A n \in Nodes : N[n] # NoNode <=> n \in Demo \cup I
  BY <1>4, <1>5, <1>6, NoNodeIsNoNode DEF NodesAtStart
<1>8. \A n \in I : ~ N[n].live /\ N[n].point = dir[n].text
  BY <1>4, <1>6 DEF NodesAtStart, Curated
<1>9. \A m, n \in Demo \cup I : UlidOf[m] = UlidOf[n] => m = n
  BY <1>2, <1>4, FreshUlids
<1> QED
  BY <1>1, <1>2, <1>3, <1>7, <1>8, <1>9

LEMMA RegistryStarts ==
    ASSUME NEW dir \in [Files -> Seed \cup {Absent}],
           NEW L, L \subseteq {n \in Files : dir[n] # Absent}
    PROVE  /\ RegistryAtStart(L, dir) \in [Nodes -> Registered \cup {Absent}]
           /\ \A n \in Nodes : RegistryAtStart(L, dir)[n] # Absent <=> n \in L
           /\ \A n \in L : RegistryAtStart(L, dir)[n].point = dir[n].text
<1>1. ASSUME NEW n \in L
      PROVE  /\ Put(dir[n].text) \in Registered /\ Put(dir[n].text) # Absent
             /\ Put(dir[n].text).point = dir[n].text
  <2>1. dir[n].text \in Points
    BY <1>1 DEF Seed
  <2> QED
    BY <2>1, AbsentIsNoSeed DEF Put, Registered
<1>2. L \subseteq Nodes
  BY Names
<1> QED
  BY <1>1, <1>2 DEF RegistryAtStart

\* What is registered at the start is in the index as well, or is a seed whose
\* ULID another seed has.
LEMMA SearchableAtStart ==
    ASSUME NEW L, NEW I, L \subseteq Files, I \subseteq L,
           \A n \in L : \E m \in I : UlidOf[m] = UlidOf[n], NEW n \in L, n \notin I
    PROVE  \E m \in Seeds \ {n} : n \in Seeds /\ UlidOf[m] = UlidOf[n] /\ m \in I
<1>1. PICK m \in I : UlidOf[m] = UlidOf[n]
  OBVIOUS
<1>2. m # n /\ m \in Files /\ n \in Files /\ m \in Nodes /\ n \in Nodes
  BY <1>1, Names
<1>3. m \notin Stations /\ n \notin Stations
  BY <1>1, <1>2, FreshUlids
<1> QED
  BY <1>1, <1>2, <1>3 DEF Files

LEMMA ThresholdIsValid ==
    ASSUME NEW file \in Thresholds \cup {Unset}
    PROVE  EffectiveThreshold(file) \in Thresholds
BY CatalogConstants DEF EffectiveThreshold

LEMMA RestartStep == ASSUME IInv, Restart PROVE IInv'
<1>1. files \in [Files -> Seed \cup {Absent}] /\ UNCHANGED <<now, files, config, promoted, created>>
  BY DEF IInv, TypeOK, Restart
<1>2. PICK L \in Loadable(files) : \E I \in Indexable(L, files) :
        /\ registry' = RegistryAtStart(L, files)
        /\ complete' = IsComplete(L, files)
        /\ nodes' = NodesAtStart(I, files)
        /\ ring' = {UlidOf[n] : n \in Demo \cup I}
  BY DEF Restart
<1>3. PICK I \in Indexable(L, files) :
        /\ registry' = RegistryAtStart(L, files)
        /\ complete' = IsComplete(L, files)
        /\ nodes' = NodesAtStart(I, files)
        /\ ring' = {UlidOf[n] : n \in Demo \cup I}
  BY <1>2
<1>4. /\ L \subseteq {n \in Files : files[n] # Absent} /\ I \subseteq L
      /\ complete' => /\ L = {n \in Files : files[n] # Absent}
                      /\ \A n \in L : \E m \in I : UlidOf[m] = UlidOf[n]
      /\ nodes' \in [Nodes -> IndexNode \cup {NoNode}]
      /\ \A n \in Nodes : nodes'[n] # NoNode <=> n \in Demo \cup I
      /\ \A n \in I : ~ nodes'[n].live /\ nodes'[n].point = files[n].text
      /\ \A m, n \in Demo \cup I : UlidOf[m] = UlidOf[n] => m = n
  BY <1>1, <1>3, Started
<1>5. /\ registry' \in [Nodes -> Registered \cup {Absent}]
      /\ \A n \in Nodes : registry'[n] # Absent <=> n \in L
      /\ \A n \in L : registry'[n].point = files[n].text
  BY <1>1, <1>3, <1>4, RegistryStarts
<1>6. Demo \subseteq Nodes /\ I \subseteq Nodes /\ I \subseteq Files /\ L \subseteq Nodes
  BY <1>4, Names, CatalogConstants
<1>7. \A n \in I : IsCurated(n)'
  BY <1>4, <1>6 DEF IsCurated
<1>8. IndexTypeOK' /\ RingIsNodes'
  <2>1. UlidOf \in [Nodes -> Ulids]
    BY IndexConstants
  <2>2. {n \in Nodes : nodes'[n] # NoNode} = Demo \cup I
    BY <1>4, <1>6
  <2> QED
    BY <1>3, <1>4, <1>6, <2>1, <2>2 DEF IndexTypeOK, RingIsNodes
<1>9. /\ station' \in [Stations -> [stage : StationStage, seed : Seed]]
      /\ \A s \in Stations : station'[s].stage \in {"new", "asked"} => station[s].stage = "new"
  <2>1. /\ station \in [Stations -> [stage : StationStage, seed : Seed]] /\ "gone" \in StationStage
        /\ station' = [s \in Stations |-> IF station[s].stage = "new" THEN station[s]
                                            ELSE [station[s] EXCEPT !.stage = "gone"]]
    BY DEF IInv, TypeOK, Restart, StationStage
  <2> QED
    BY <2>1
<1>10. /\ call' \in [Buttons -> [phase : {"new", "found", "added", "ended"}, of : Files]]
       /\ \A b \in Buttons : call'[b].phase # "added"
  <2>1. /\ call \in [Buttons -> [phase : {"new", "found", "added", "ended"}, of : Files]]
        /\ call' = [b \in Buttons |-> IF call[b].phase = "new" THEN call[b]
                                        ELSE [call[b] EXCEPT !.phase = "ended"]]
    BY DEF IInv, TypeOK, Restart
  <2> QED
    BY <2>1
<1>11. /\ ledger' = [s \in Stations |-> Absent] /\ promo' = Idle /\ again' = {}
       /\ restarts' = restarts + 1 /\ threshold' = EffectiveThreshold(config)
  BY DEF Restart
<1>12. complete' \in BOOLEAN
  BY <1>3 DEF IsComplete
<1>13. TypeOK'
  BY <1>1, <1>5, <1>8, <1>9, <1>10, <1>11, <1>12, ThresholdIsValid DEF IInv, TypeOK, LedgerTypeOK
<1>14. PromoIsInOrder' /\ ButtonsAreKept'
  BY <1>10, <1>11 DEF PromoIsInOrder, ButtonsAreKept
<1>15. RegisteredFromSeed'
  <2>1. ASSUME NEW s \in Stations
        PROVE  /\ registry'[s] # Absent => files[s] # Absent
               /\ created[s] # 0 => files[s] # Absent
               /\ ledger'[s] = Absent
    BY <1>4, <1>5, <1>11, Names DEF IInv, RegisteredFromSeed
  <2> QED
    BY <1>1, <2>1 DEF RegisteredFromSeed
<1>16. StationsAreNew'
  <2>1. ASSUME NEW s \in Stations, station'[s].stage \in {"new", "asked"}
        PROVE  nodes'[s] = NoNode /\ files[s] = Absent
    <3>1. files[s] = Absent
      BY <1>9, <2>1 DEF IInv, StationsAreNew
    <3>2. s \notin I /\ s \notin Demo /\ s \in Nodes
      BY <1>4, <3>1, Names, CatalogConstants
    <3> QED
      BY <1>4, <3>1, <3>2
  <2> QED
    BY <1>1, <2>1 DEF StationsAreNew
<1>17. PromotionIsDurable' /\ CreatedOnce'
  <2>1. ASSUME NEW s \in promoted
        PROVE  files[s] # Absent /\ (complete' => IsCurated(s)' /\ registry'[s] # Absent)
    <3>1. s \in Stations /\ s \in Files /\ s \in Nodes /\ files[s] # Absent
      BY Names DEF IInv, TypeOK, PromotionIsDurable
    <3>2. ASSUME complete' PROVE s \in L /\ s \in I
      <4>1. s \in L
        BY <1>4, <3>1, <3>2
      <4>2. PICK m \in I : UlidOf[m] = UlidOf[s]
        BY <1>4, <3>2, <4>1
      <4>3. m = s
        BY <1>6, <3>1, <4>2, FreshUlids
      <4> QED
        BY <4>1, <4>2, <4>3
    <3> QED
      BY <1>5, <1>7, <3>1, <3>2
  <2> QED
    BY <1>1, <1>11, <2>1 DEF IInv, PromotionIsDurable, CreatedOnce
<1>18. RegistryIsSearchable'
  <2>1. ASSUME NEW n \in Nodes, registry'[n] # Absent, complete'
        PROVE  \/ IsCurated(n)' /\ nodes'[n].point = registry'[n].point
               \/ \E m \in Seeds \ {n} : n \in Seeds /\ UlidOf[m] = UlidOf[n] /\ IsCurated(m)'
    <3>1. n \in L /\ L \subseteq Files
      BY <1>4, <1>5, <2>1
    <3>2. CASE n \in I
      BY <1>4, <1>5, <1>7, <3>1, <3>2
    <3>3. CASE n \notin I
      <4>1. \A k \in L : \E m \in I : UlidOf[m] = UlidOf[k]
        BY <1>4, <2>1
      <4>2. \E m \in Seeds \ {n} : n \in Seeds /\ UlidOf[m] = UlidOf[n] /\ m \in I
        BY <1>4, <3>1, <3>3, <4>1, SearchableAtStart
      <4> QED
        BY <1>7, <4>2
    <3> QED
      BY <3>2, <3>3
  <2> QED
    BY <1>11, <2>1 DEF RegistryIsSearchable
<1> QED
  BY <1>8, <1>13, <1>14, <1>15, <1>16, <1>17, <1>18 DEF IInv

LEMMA InitHolds == Init => IInv
<1> SUFFICES ASSUME Init PROVE IInv
  OBVIOUS
<1>1. /\ files = [n \in Files |-> IF n \in Seeds THEN SeedOf(n) ELSE Absent]
      /\ promo = Idle /\ restarts = 0 /\ promoted = {} /\ again = {} /\ config = Unset
      /\ created = [s \in Stations |-> 0] /\ threshold = EffectiveThreshold(config)
      /\ ledger = [s \in Stations |-> Absent] /\ now = 0
      /\ station \in [Stations -> [stage : {"new"}, seed : Seed]]
      /\ call \in [Buttons -> [phase : {"new"}, of : Files]]
  BY DEF Init, LedgerInit
<1>2. files \in [Files -> Seed \cup {Absent}] /\ \A s \in Stations : files[s] = Absent
  BY <1>1, CatalogConstants, Names DEF SeedOf, Seed
<1>3. PICK L \in Loadable(files) : \E I \in Indexable(L, files) :
        /\ registry = RegistryAtStart(L, files)
        /\ complete = IsComplete(L, files)
        /\ nodes = NodesAtStart(I, files)
        /\ ring = {UlidOf[n] : n \in Demo \cup I}
  BY DEF Init
<1>4. PICK I \in Indexable(L, files) :
        /\ registry = RegistryAtStart(L, files)
        /\ complete = IsComplete(L, files)
        /\ nodes = NodesAtStart(I, files)
        /\ ring = {UlidOf[n] : n \in Demo \cup I}
  BY <1>3
<1>5. /\ L \subseteq {n \in Files : files[n] # Absent} /\ I \subseteq L
      /\ complete => /\ L = {n \in Files : files[n] # Absent}
                     /\ \A n \in L : \E m \in I : UlidOf[m] = UlidOf[n]
      /\ nodes \in [Nodes -> IndexNode \cup {NoNode}]
      /\ \A n \in Nodes : nodes[n] # NoNode <=> n \in Demo \cup I
      /\ \A n \in I : ~ nodes[n].live /\ nodes[n].point = files[n].text
      /\ \A m, n \in Demo \cup I : UlidOf[m] = UlidOf[n] => m = n
  BY <1>2, <1>4, Started
<1>6. /\ registry \in [Nodes -> Registered \cup {Absent}]
      /\ \A n \in Nodes : registry[n] # Absent <=> n \in L
      /\ \A n \in L : registry[n].point = files[n].text
  BY <1>2, <1>4, <1>5, RegistryStarts
<1>7. Demo \subseteq Nodes /\ I \subseteq Nodes /\ I \subseteq Files /\ L \subseteq Nodes
  BY <1>5, Names, CatalogConstants
<1>8. IndexTypeOK /\ RingIsNodes
  <2>1. UlidOf \in [Nodes -> Ulids]
    BY IndexConstants
  <2>2. {n \in Nodes : nodes[n] # NoNode} = Demo \cup I
    BY <1>5, <1>7
  <2> QED
    BY <1>4, <1>5, <1>7, <2>1, <2>2 DEF IndexTypeOK, RingIsNodes
<1>9. complete \in BOOLEAN
  BY <1>4 DEF IsComplete
<1>10. station \in [Stations -> [stage : StationStage, seed : Seed]]
  BY <1>1 DEF StationStage
<1>11. TypeOK
  BY <1>1, <1>2, <1>6, <1>8, <1>9, <1>10, ThresholdIsValid DEF TypeOK, LedgerTypeOK
<1>12. \A s \in Stations : s \notin L /\ s \in Nodes /\ s \notin Demo
  BY <1>2, <1>5, Names, CatalogConstants
<1>13. PromoIsInOrder /\ RegisteredFromSeed /\ StationsAreNew
  BY <1>1, <1>2, <1>5, <1>6, <1>12 DEF PromoIsInOrder, RegisteredFromSeed, StationsAreNew
<1>14. PromotionIsDurable /\ CreatedOnce /\ ButtonsAreKept
  BY <1>1 DEF PromotionIsDurable, CreatedOnce, ButtonsAreKept
<1>15. RegistryIsSearchable
  <2>1. ASSUME NEW n \in Nodes, registry[n] # Absent, complete
        PROVE  \/ IsCurated(n) /\ nodes[n].point = registry[n].point
               \/ \E m \in Seeds \ {n} : n \in Seeds /\ UlidOf[m] = UlidOf[n] /\ IsCurated(m)
    <3>1. n \in L /\ L \subseteq Files /\ \A k \in I : IsCurated(k)
      BY <1>5, <1>6, <1>7, <2>1 DEF IsCurated
    <3>2. CASE n \in I
      BY <1>5, <1>6, <3>1, <3>2
    <3>3. CASE n \notin I
      <4>1. \A k \in L : \E m \in I : UlidOf[m] = UlidOf[k]
        BY <1>5, <2>1
      <4>2. \E m \in Seeds \ {n} : n \in Seeds /\ UlidOf[m] = UlidOf[n] /\ m \in I
        BY <1>5, <3>1, <3>3, <4>1, SearchableAtStart
      <4> QED
        BY <3>1, <4>2
    <3> QED
      BY <3>2, <3>3
  <2> QED
    BY <1>1, <2>1 DEF RegistryIsSearchable
<1> QED
  BY <1>8, <1>11, <1>13, <1>14, <1>15 DEF IInv

-----------------------------------------------------------------------------
(* The theorems.                                                            *)

LEMMA NextHolds == IInv /\ [Next]_vars => IInv'
<1> SUFFICES ASSUME IInv, [Next]_vars PROVE IInv'
  OBVIOUS
<1>1. CASE Restart \/ Tick \/ IndexIsRead
  BY <1>1, RestartStep, TickStep, IndexIsReadStep
<1>2. CASE \/ PromoteWrites \/ PromoteFailsToWrite \/ PromoteIndexes \/ PromoteRegisters
           \/ PromoteFailsToInstall
  BY <1>2, WritesStep, FailsToWriteStep, IndexesStep, RegistersStep, FailsToInstallStep
<1>3. ASSUME NEW t \in Thresholds, Calibrate(t) PROVE IInv'
  BY <1>3, CalibrateStep
<1>4. ASSUME NEW q \in Points, NEW asked, QueryMatches(q, asked) PROVE IInv'
  BY <1>4, QueryMatchesStep
<1>5. ASSUME NEW s \in Stations, NEW asked, QueryMisses(s, asked) PROVE IInv'
  BY <1>5, QueryMissesStep
<1>6. ASSUME NEW s \in Stations,
             \/ StationGoesLive(s) \/ StationIsReady(s) \/ PromoteFindsSeed(s)
             \/ PromoteBuilds(s) \/ PromoteRefuses(s)
      PROVE  IInv'
  BY <1>6, GoesLiveStep, IsReadyStep, FindsSeedStep, BuildsStep, RefusesStep
<1>7. ASSUME NEW b \in Buttons, MutateFinds(b) \/ MutateFails(b) \/ MutateAppends(b)
      PROVE  IInv'
  BY <1>7, ButtonSteps
<1>8. CASE UNCHANGED vars
  <2>1. LedgerKeeps({}) /\ UNCHANGED index
    BY <1>8 DEF vars, LedgerKeeps, IInv, TypeOK, LedgerTypeOK
  <2> QED
    BY <1>8, <2>1, ReadStep DEF vars
<1> QED
  BY <1>1, <1>2, <1>3, <1>4, <1>5, <1>6, <1>7, <1>8 DEF Next

\* Index, registry, directory and ledger agree about every station, whatever
\* expires, is promoted half way or restarts.
THEOREM Invariance == Spec => []IInv
BY InitHolds, NextHolds, PTL DEF Spec

\* A promotion that was answered outlives expiry, repetition and restarts, and
\* after a start that gave up on the directory it can be repeated.
THEOREM PromotionsAreDurable == Spec => []PromotionIsDurable
<1>1. IInv => PromotionIsDurable
  BY DEF IInv
<1> QED
  BY <1>1, Invariance, PTL

\* No promotion is answered created=true twice, wherever one stops half way.
THEOREM CreatedAtMostOnce == Spec => []CreatedOnce
<1>1. IInv => CreatedOnce
  BY DEF IInv
<1> QED
  BY <1>1, Invariance, PTL

\* A button that was answered stays until its node is promoted again.
THEOREM ButtonsStay == Spec => []ButtonsAreKept
<1>1. IInv => ButtonsAreKept
  BY DEF IInv
<1> QED
  BY <1>1, Invariance, PTL

\* After a complete start, or once it was promoted again, a node that the registry
\* serves is itself in the index, with the same embedding, unless it is a seed
\* whose ULID another seed had first.
THEOREM RegistryStaysSearchable == Spec => []RegistryIsSearchable
<1>1. IInv => RegistryIsSearchable
  BY DEF IInv
<1> QED
  BY <1>1, Invariance, PTL

-----------------------------------------------------------------------------
(* What Nearest answers.                                                    *)

\* A set of numbers that is not empty and has a bound has a greatest.
LEMMA GreatestExists ==
    ASSUME NEW S \in SUBSET Int, S # {}, NEW top \in Nat, \A x \in S : x <= top
    PROVE  \E x \in S : \A y \in S : y <= x
<1>. DEFINE below == {k \in Nat : top - k \in S}
<1>1. below # {}
  <2>1. PICK x \in S : TRUE
    OBVIOUS
  <2>2. top - x \in Nat /\ top - (top - x) = x
    BY <2>1
  <2>. QED BY <2>1, <2>2
<1>2. PICK k \in below : \A j \in below : ~ (<<j, k>> \in OpToRel(<, Nat))
  <2>1. IsWellFoundedOn(OpToRel(<, Nat), Nat)
    BY NatLessThanWellFounded
  <2>. QED BY <1>1, <2>1, WFMin
<1>3. \A j \in below : ~ (j < k)
  BY <1>2 DEF OpToRel
<1>4. ASSUME NEW y \in S PROVE y <= top - k
  <2>1. top - y \in Nat /\ top - (top - y) = y
    OBVIOUS
  <2>2. top - y \in below
    BY <2>1
  <2>3. ~ (top - y < k) /\ k \in Nat /\ y \in Int
    BY <1>3, <2>2
  <2>. HIDE DEF below
  <2>. QED BY <2>3
<1>. QED BY <1>2, <1>4

\* The nodes that Nearest looks at have an embedding.
LEMMA ClassIsTyped ==
    ASSUME IndexTypeOK, NEW q \in Points, NEW live, NEW t, NEW n \in Class(live, t)
    PROVE  n \in Nodes /\ Similarity(q, n) \in Int /\ Similarity(q, n) <= MaxSim
<1>1. n \in Nodes /\ nodes[n] \in IndexNode
  BY KeptNodes DEF Class, IndexTypeOK
<1>2. <<q, nodes[n].point>> \in Points \X Points
  BY <1>1 DEF IndexNode
<1>. QED BY <1>1, <1>2, IndexConstants DEF Similarity

\* A class with nodes has a best one.
LEMMA BestExists ==
    ASSUME IndexTypeOK, NEW q \in Points, NEW live, NEW t, Class(live, t) # {}
    PROVE  Best(q, live, t) # {}
<1>. DEFINE sims == {Similarity(q, n) : n \in Class(live, t)}
<1>1. sims \in SUBSET Int /\ sims # {} /\ \A x \in sims : x <= MaxSim
  BY ClassIsTyped
<1>2. PICK x \in sims : \A y \in sims : y <= x
  BY <1>1, GreatestExists, IndexConstants
<1>3. PICK n \in Class(live, t) : x = Similarity(q, n)
  OBVIOUS
<1>. QED BY <1>2, <1>3 DEF Best

\* As long as a node of either class is left, Nearest answers one: the best live
\* one, or the best curated one that it does not beat.
LEMMA NearestAnswers ==
    ASSUME IndexTypeOK, NEW q \in Points, NEW t, Class(TRUE, t) # {}
    PROVE  Nearest(q, t) # {}
<1>1. PICK l \in Best(q, TRUE, t) : TRUE
  BY BestExists
<1>2. CASE \A c \in Class(FALSE, t) : BeatsCurated(q, l, c)
  BY <1>1, <1>2 DEF Nearest
<1>3. CASE \E c \in Class(FALSE, t) : ~ BeatsCurated(q, l, c)
  <2>1. PICK c \in Class(FALSE, t) : ~ BeatsCurated(q, l, c)
    BY <1>3
  <2>2. PICK d \in Best(q, FALSE, t) : TRUE
    BY <2>1, BestExists
  <2>3. /\ l \in Class(TRUE, t) /\ d \in Class(FALSE, t)
        /\ Similarity(q, c) <= Similarity(q, d)
    BY <1>1, <2>1, <2>2 DEF Best
  <2>4. ASSUME NEW m \in Class(TRUE, t) PROVE ~ BeatsCurated(q, m, d)
    <3>1. Similarity(q, m) <= Similarity(q, l)
      BY <1>1 DEF Best
    <3>2. /\ Similarity(q, m) \in Int /\ Similarity(q, l) \in Int
          /\ Similarity(q, c) \in Int /\ Similarity(q, d) \in Int
      BY <2>3, ClassIsTyped
    <3>. QED BY <2>1, <2>3, <3>1, <3>2, IndexConstants DEF BeatsCurated
  <2>. QED BY <2>2, <2>4 DEF Nearest
<1>. QED BY <1>2, <1>3

\* A doubt that passes the threshold against a live station by the margin is
\* matched: Nearest answers, and whatever it answers passes (index.go Nearest,
\* router.go:135-151).
THEOREM RepeatedDoubtsMatch == Spec => []RepeatedDoubtIsMatched
<1>1. IInv => RepeatedDoubtIsMatched
  <2>. SUFFICES ASSUME IInv, NEW q \in Points, NEW asked \in Thresholds \cup {Unset},
                       NEW l \in Class(TRUE, now),
                       Similarity(q, l) >= RequestThreshold(asked) + Margin
                PROVE  /\ Nearest(q, now) # {}
                       /\ \A n \in Nearest(q, now) : Passes(q, n, asked)
    BY DEF RepeatedDoubtIsMatched
  <2>1. IndexTypeOK
    BY DEF IInv, TypeOK
  <2>2. RequestThreshold(asked) \in Int /\ Similarity(q, l) \in Int /\ Margin \in Nat
    BY <2>1, ClassIsTyped, CatalogConstants, IndexConstants DEF RequestThreshold, IInv, TypeOK
  <2>3. ASSUME NEW n \in Nearest(q, now) PROVE Passes(q, n, asked)
    <3>1. CASE n \in Best(q, TRUE, now)
      <4>1. n \in Class(TRUE, now) /\ Similarity(q, l) <= Similarity(q, n)
        BY <3>1 DEF Best
      <4>2. Similarity(q, n) \in Int
        BY <2>1, <4>1, ClassIsTyped
      <4>. QED BY <2>2, <4>1, <4>2 DEF Passes
    <3>2. CASE n \in Best(q, FALSE, now) /\ ~ BeatsCurated(q, l, n)
      <4>1. Similarity(q, n) \in Int
        BY <2>1, <3>2, ClassIsTyped DEF Best
      <4>. QED BY <2>2, <3>2, <4>1 DEF Passes, BeatsCurated
    <3>. QED BY <3>1, <3>2 DEF Nearest
  <2>. QED BY <2>1, <2>3, NearestAnswers
<1> QED
  BY <1>1, Invariance, PTL

=============================================================================
