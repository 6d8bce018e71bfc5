----------------------------- MODULE PageProofs -----------------------------
(***************************************************************************)
(* Proofs about Page, for any number of searches, of functions under way   *)
(* and of ticks, in whatever order their answers come: no answer brings an *)
(* older search back onto the stage, and what the page shows once nothing  *)
(* is in flight is of one search.                                          *)
(*                                                                         *)
(* The second needs to know what each function in flight has left to       *)
(* write: the page need not be of the last search while its answer is read *)
(* (Unread), and each part of Settles may fail while the function that     *)
(* will mend it is under way.                                              *)
(***************************************************************************)
EXTENDS Page, TLAPS

-----------------------------------------------------------------------------
(* The inductive invariant.                                                 *)

Kind == {"empty", "content", "waiting", "node", "live", "static"}
Shown == [kind : Kind, of : Nat]
PageType == [stage : Shown, rail : Shown, node : Nat, progress : Nat, orientation : Nat,
             ask : BOOLEAN]

Status == {"none", "in_progress", "ready", "failed"}
Await == {"query", "node", "progress", "orientation", "poll", "ask"} \cup Status
Way == {"match", "static", "ready", "upgrade"} \cup Nat
Call == [at : Await, token : Nat, way : Way, first : BOOLEAN]

TypeOK ==
    /\ gen \in Nat
    /\ page \in PageType
    /\ timer \in Nat
    /\ call \in [Calls -> Call \cup {Idle}]
    /\ station \in Status
    /\ strayed \in Nat

\* Nothing is ahead of the last search.
NothingIsAhead ==
    /\ page.stage.of <= gen /\ page.rail.of <= gen /\ page.node <= gen /\ timer <= gen
    /\ \A c \in Calls : call[c] # Idle =>
         /\ call[c].token <= gen
         /\ call[c].at = "ask" => call[c].way \in Nat /\ call[c].way <= gen

\* A call that has a static answer's stage left to show.
WillStage(c) ==
    call[c].at = "orientation" /\ call[c].way = "static" /\ call[c].token = gen

\* The rail is of no older search than the stage, and of this search once a
\* static answer has begun to be shown.
RailIsNotBehind ==
    strayed = 0 => /\ page.stage.of <= page.rail.of
                 /\ \A c \in Calls : call[c] # Idle /\ WillStage(c) => page.rail.of = gen

PInv == TypeOK /\ NothingIsAhead /\ RailIsNotBehind

-----------------------------------------------------------------------------
(* What the functions of the page leave of a page p.                        *)

LEMMA Shows == \A kind \in Kind, g \in Nat : Show(kind, g) \in Shown /\ Show(kind, g).of = g
BY DEF Show, Shown

LEMMA Stages ==
    ASSUME NEW p \in PageType, NEW g \in Nat
    PROVE  /\ Staged(p, g) \in PageType
           /\ Staged(p, g).stage.of = g /\ Staged(p, g).rail = p.rail /\ Staged(p, g).node = p.node
BY Shows DEF Staged, PageType, Kind

LEMMA Clears ==
    ASSUME NEW p \in PageType
    PROVE  /\ Cleared(p) \in PageType
           /\ Cleared(p).stage = p.stage /\ Cleared(p).rail = p.rail /\ Cleared(p).node = p.node
BY DEF Cleared, PageType, Nothing

LEMMA Tells ==
    ASSUME NEW p \in PageType, NEW o \in Nat,
           NEW q, q = [p EXCEPT !.orientation = o] \/ q = [p EXCEPT !.progress = o]
    PROVE  q \in PageType /\ q.stage = p.stage /\ q.rail = p.rail /\ q.node = p.node
BY DEF PageType

LEMMA ShowsNoNode ==
    ASSUME NEW p \in PageType, NEW kind \in Kind, NEW g \in Nat
    PROVE  LET q == NonInteractive(p, kind, g) IN
           q \in PageType /\ q.stage = p.stage /\ q.rail.of = g /\ q.node = 0
BY Shows, Clears DEF NonInteractive, PageType, Nothing

LEMMA Waits ==
    ASSUME NEW p \in PageType, NEW g \in Nat
    PROVE  /\ LET q == Waiting(p, g) IN
              q \in PageType /\ q.stage.of = g /\ q.rail.of = g /\ q.node = p.node
           /\ LET q == Pending(p, g) IN
              q \in PageType /\ q.stage.of = g /\ q.rail.of = g /\ q.node = 0
<1>1. ASSUME NEW r \in PageType
      PROVE  LET q == Waiting(r, g) IN
             q \in PageType /\ q.stage.of = g /\ q.rail.of = g /\ q.node = r.node
  BY Shows DEF Waiting, PageType, Kind
<1> DEFINE r == [Cleared(p) EXCEPT !.node = Nothing, !.progress = Nothing]
<1>2. r \in PageType /\ r.node = 0
  BY Clears DEF PageType, Nothing
<1>3. Pending(p, g) = Waiting(r, g)
  BY DEF Pending
<1> HIDE DEF r
<1> QED
  BY <1>1, <1>2, <1>3

LEMMA Loads ==
    ASSUME NEW p \in PageType, NEW g \in Nat, NEW q, q = NodeArrives(p, g)
    PROVE  q \in PageType /\ q.stage = p.stage /\ q.rail = p.rail /\ q.node = g
BY DEF NodeArrives, PageType, Nothing

LEMMA RendersRail ==
    ASSUME NEW p \in PageType, NEW g \in Nat, NEW q, q = RailRendered(p, g)
    PROVE  q \in PageType /\ q.stage = p.stage /\ q.rail.of = g /\ q.node = p.node
BY Shows DEF RailRendered, PageType, Kind

LEMMA Renders ==
    ASSUME NEW p \in PageType, NEW g \in Nat, NEW way, NEW q, q = Rendered(p, g, way)
    PROVE  /\ q \in PageType /\ q.rail.of = g /\ q.node = p.node
           /\ q.stage.of = p.stage.of \/ q.stage.of = g
<1> DEFINE r == RailRendered(p, g)
<1>1. r \in PageType /\ r.stage = p.stage /\ r.rail.of = g /\ r.node = p.node
  BY RendersRail
<1>2. q = Cleared(IF way = "upgrade" THEN r ELSE Staged(r, g))
  BY DEF Rendered
<1> HIDE DEF r
<1>3. CASE way = "upgrade"
  <2>1. q = Cleared(r)
    BY <1>2, <1>3
  <2> QED
    BY <1>1, <2>1, Clears
<1>4. CASE way # "upgrade"
  <2>1. q = Cleared(Staged(r, g))
    BY <1>2, <1>4
  <2>2. /\ Staged(r, g) \in PageType /\ Staged(r, g).stage.of = g
        /\ Staged(r, g).rail = r.rail /\ Staged(r, g).node = r.node
    BY <1>1, Stages
  <2>3. /\ q \in PageType /\ q.stage = Staged(r, g).stage
        /\ q.rail = Staged(r, g).rail /\ q.node = Staged(r, g).node
    BY <2>1, <2>2, Clears
  <2> QED
    BY <1>1, <2>2, <2>3
<1> QED
  BY <1>3, <1>4

-----------------------------------------------------------------------------
(* Steps of the functions under way.                                        *)

LEMMA Calling ==
    ASSUME TypeOK, NEW c \in Calls, call[c].at # "idle"
    PROVE  call[c] \in Call /\ call[c] # Idle
<1>1. Idle.at = "idle"
  BY DEF Idle
<1> QED
  BY <1>1 DEF TypeOK

\* Only c and the page change, the page towards the search c is of, which is
\* the last one.
LEMMA Step ==
    ASSUME PInv, NEW c \in Calls, NEW k \in Call \cup {Idle}, call' = [call EXCEPT ![c] = k],
           k # Idle => k.token = gen /\ k.at # "ask",
           k # Idle /\ k.at = "orientation" /\ k.way = "static" => page'.rail.of = gen,
           gen' = gen, strayed' = strayed,
           timer' \in {timer, gen, 0}, station' \in Status,
           page' \in PageType,
           page'.node \in {page.node, gen, 0},
           page'.rail.of \in {page.rail.of, gen},
           page'.stage.of = page.stage.of \/
             (page'.stage.of = gen /\ (strayed # 0 \/ page'.rail.of = gen))
    PROVE  PInv' /\ page'.stage.of >= page.stage.of
<1>1. /\ gen \in Nat /\ call \in [Calls -> Call \cup {Idle}] /\ timer \in Nat
      /\ page.stage.of \in Nat /\ page.rail.of \in Nat /\ page.node \in Nat
      /\ page'.stage.of \in Nat /\ page'.rail.of \in Nat /\ page'.node \in Nat
  BY DEF PInv, TypeOK, PageType, Shown
<1>2. /\ call' \in [Calls -> Call \cup {Idle}] /\ call'[c] = k
      /\ \A d \in Calls \ {c} : call'[d] = call[d]
  BY <1>1
<1>3. TypeOK'
  BY <1>1, <1>2 DEF PInv, TypeOK
<1>4. /\ page.stage.of <= gen /\ page.rail.of <= gen /\ page.node <= gen /\ timer <= gen
      /\ \A d \in Calls : call[d] # Idle =>
           /\ call[d].token <= gen
           /\ call[d].at = "ask" => call[d].way \in Nat /\ call[d].way <= gen
  BY DEF PInv, NothingIsAhead
<1>5. \A d \in Calls : call'[d] # Idle =>
        /\ call'[d].token <= gen
        /\ call'[d].at = "ask" => call'[d].way \in Nat /\ call'[d].way <= gen
  BY <1>1, <1>2, <1>4
<1>6. page'.stage.of <= gen /\ page'.rail.of <= gen /\ page'.node <= gen /\ timer' <= gen
  BY <1>1, <1>4
<1>7. NothingIsAhead'
  BY <1>5, <1>6 DEF NothingIsAhead
<1>8. ASSUME strayed = 0 PROVE page'.stage.of <= page'.rail.of
  BY <1>1, <1>4, <1>8 DEF PInv, RailIsNotBehind
<1>9. ASSUME strayed = 0, NEW d \in Calls, call'[d] # Idle, call'[d].at = "orientation",
             call'[d].way = "static", call'[d].token = gen
      PROVE  page'.rail.of = gen
  BY <1>2, <1>9 DEF PInv, RailIsNotBehind, WillStage
<1>10. RailIsNotBehind'
  BY <1>8, <1>9 DEF RailIsNotBehind, WillStage
<1> QED
  BY <1>1, <1>3, <1>4, <1>7, <1>10 DEF PInv

\* A function at an await, resumed with its search still the last.
LEMMA Resumed ==
    ASSUME TypeOK, NEW c \in Calls, NEW await \in Await, Resumes(c, await)
    PROVE  /\ call[c] \in Call /\ call[c] # Idle /\ call[c].token = gen /\ gen \in Nat
           /\ call[c].way \in Way
<1>1. call[c].at = await /\ await # "idle"
  BY DEF Resumes, Await, Status
<1>2. call[c] \in Call /\ call[c] # Idle
  BY <1>1, Calling
<1>3. call[c].token = gen /\ gen \in Nat
  BY DEF Resumes, IsCurrent, TypeOK
<1> QED
  BY <1>2, <1>3 DEF Call

\* Goes replaces the function's await and way.
LEMMA Going ==
    ASSUME TypeOK, NEW c \in Calls, NEW at \in Await, NEW way \in Way, Goes(c, at, way),
           call[c] \in Call
    PROVE  \E k \in Call :
             /\ call' = [call EXCEPT ![c] = k]
             /\ k.at = at /\ k.way = way /\ k.token = call[c].token
<1> DEFINE k == [call[c] EXCEPT !.at = at, !.way = way]
<1>1. call' = [call EXCEPT ![c] = k]
  BY DEF TypeOK, Goes, Call
<1>2. k \in Call /\ k.at = at /\ k.way = way /\ k.token = call[c].token
  BY DEF Call
<1> HIDE DEF k
<1> QED
  BY <1>1, <1>2

\* A function that goes on.
LEMMA GoesOn ==
    ASSUME PInv, NEW c \in Calls, NEW await \in Await, Resumes(c, await),
           NEW at \in Await, NEW way \in Way, Goes(c, at, way), at # "ask",
           at = "orientation" /\ way = "static" => page'.rail.of = gen,
           UNCHANGED <<gen, strayed>>, timer' \in {timer, gen, 0}, station' \in Status,
           page' \in PageType, page'.node \in {page.node, gen, 0},
           page'.rail.of \in {page.rail.of, gen},
           page'.stage.of = page.stage.of \/
             (page'.stage.of = gen /\ (strayed # 0 \/ page'.rail.of = gen))
    PROVE  PInv' /\ page'.stage.of >= page.stage.of
<1>1. TypeOK
  BY DEF PInv
<1>2. call[c] \in Call /\ call[c].token = gen
  BY <1>1, Resumed
<1>3. PICK k \in Call :
        /\ call' = [call EXCEPT ![c] = k]
        /\ k.at = at /\ k.way = way /\ k.token = call[c].token
  BY <1>1, <1>2, Going
<1> QED
  BY <1>2, <1>3, Step

\* A function that ends.
LEMMA EndsHere ==
    ASSUME PInv, NEW c \in Calls, Ends(c),
           UNCHANGED <<gen, strayed>>, timer' \in {timer, gen, 0}, station' \in Status,
           page' \in PageType, page'.node \in {page.node, gen, 0},
           page'.rail.of \in {page.rail.of, gen},
           page'.stage.of = page.stage.of \/
             (page'.stage.of = gen /\ (strayed # 0 \/ page'.rail.of = gen))
    PROVE  PInv' /\ page'.stage.of >= page.stage.of
BY Step DEF Ends

LEMMA Typed ==
    ASSUME PInv
    PROVE  /\ TypeOK /\ page \in PageType /\ gen \in Nat /\ timer \in Nat /\ station \in Status
           /\ page.stage.of \in Nat /\ page.rail.of \in Nat /\ page.node \in Nat
BY DEF PInv, TypeOK, PageType, Shown

LEMMA AfterTickIs == \A c, t : AfterTick(c, t) \in {gen, t}
BY DEF AfterTick

LEMMA QueryAnswered ==
    ASSUME PInv, NEW c \in Calls,
           QueryIsInteractive(c) \/ QueryIsStatic(c) \/ QueryIsPending(c) \/ QueryFails(c)
    PROVE  PInv' /\ page'.stage.of >= page.stage.of
<1> USE Typed DEF Stays, IsWell, Notes
<1>1. CASE QueryIsInteractive(c)
  <2>1. /\ Resumes(c, "query") /\ Goes(c, "node", "match") /\ page' = page /\ timer' = timer
        /\ UNCHANGED <<gen, strayed, station>>
    BY <1>1 DEF QueryIsInteractive
  <2> QED
    BY <2>1, GoesOn DEF Await, Way
<1>2. CASE QueryIsStatic(c)
  <2>1. /\ Resumes(c, "query") /\ Goes(c, "orientation", "static") /\ timer' = timer
        /\ UNCHANGED <<gen, strayed, station>>
    BY <1>2 DEF QueryIsStatic
  <2>2. PICK kind \in {"live", "static"} : page' = NonInteractive(page, kind, call[c].token)
    BY <1>2 DEF QueryIsStatic
  <2>3. call[c].token = gen /\ kind \in Kind
    BY <2>1, Resumed DEF Await, Kind
  <2>4. page' \in PageType /\ page'.stage = page.stage /\ page'.rail.of = gen /\ page'.node = 0
    BY <2>2, <2>3, ShowsNoNode
  <2> QED
    BY <2>1, <2>4, GoesOn DEF Await, Way
<1>3. CASE QueryIsPending(c)
  <2>1. /\ Resumes(c, "query") /\ page' = Pending(page, call[c].token) /\ timer' = 0
        /\ call' = [call EXCEPT ![c] = At("poll", call[c].token, "ready", TRUE)]
        /\ station' \in Status /\ UNCHANGED <<gen, strayed>>
    BY <1>3 DEF QueryIsPending, Nothing, Status
  <2>2. call[c].token = gen
    BY <2>1, Resumed DEF Await
  <2>3. page' \in PageType /\ page'.stage.of = gen /\ page'.rail.of = gen /\ page'.node = 0
    BY <2>1, <2>2, Waits
  <2> DEFINE k == At("poll", call[c].token, "ready", TRUE)
  <2>4. k \in Call /\ k.token = gen /\ k.at = "poll"
    BY <2>2 DEF At, Call, Await, Way
  <2>5. call' = [call EXCEPT ![c] = k]
    BY <2>1
  <2> HIDE DEF k
  <2> QED
    BY <2>1, <2>3, <2>4, <2>5, Step
<1>4. CASE QueryFails(c)
  BY <1>4, EndsHere DEF QueryFails
<1> QED
  BY <1>1, <1>2, <1>3, <1>4

\* The three ways in which a node cannot be had.
NodeIsNotHad(c) == MatchedNodeFails(c) \/ UpgradeFails(c) \/ BareStationFails(c)

LEMMA NodeAnswered ==
    ASSUME PInv, NEW c \in Calls,
           NodeHasTree(c) \/ NodeHasNoTree(c) \/ NodeIsNotHad(c) \/ ProgressArrives(c)
    PROVE  PInv' /\ page'.stage.of >= page.stage.of
<1> USE Typed DEF Stays, IsWell, Notes
<1>1. CASE NodeHasTree(c)
  <2>1. /\ Resumes(c, "node") /\ page' = NodeArrives(page, call[c].token) /\ timer' = timer
        /\ Goes(c, "progress", call[c].way) /\ UNCHANGED <<gen, strayed, station>>
    BY <1>1 DEF NodeHasTree
  <2>2. call[c].token = gen /\ call[c].way \in Way
    BY <2>1, Resumed DEF Await
  <2>3. page' \in PageType /\ page'.stage = page.stage /\ page'.rail = page.rail /\ page'.node = gen
    <3> DEFINE q == NodeArrives(page, gen)
    <3>1. page \in PageType /\ gen \in Nat /\ page' = q
      BY <2>1, <2>2
    <3>2. q \in PageType /\ q.stage = page.stage /\ q.rail = page.rail /\ q.node = gen
      BY <3>1, Loads
    <3> HIDE DEF q
    <3> QED
      BY <3>1, <3>2
  <2> QED
    BY <2>1, <2>2, <2>3, GoesOn DEF Await
<1>2. CASE NodeHasNoTree(c)
  <2> DEFINE q == NodeArrives(page, call[c].token)
  <2>1. /\ Resumes(c, "node") /\ page' = Rendered(q, call[c].token, call[c].way)
        /\ Goes(c, "orientation", call[c].way) /\ UNCHANGED <<gen, strayed, station, timer>>
    BY <1>2 DEF NodeHasNoTree
  <2>2. call[c].token = gen /\ call[c].way \in Way
    BY <2>1, Resumed DEF Await
  <2>3. q \in PageType /\ q.stage = page.stage /\ q.node = gen
    <3>1. page \in PageType /\ gen \in Nat /\ q = NodeArrives(page, gen)
      BY <2>2
    <3> QED
      BY <3>1, Loads
  <2> HIDE DEF q
  <2>4. /\ page' \in PageType /\ page'.rail.of = gen /\ page'.node = gen
        /\ page'.stage.of = page.stage.of \/ page'.stage.of = gen
    BY <2>1, <2>2, <2>3, Renders
  <2> QED
    BY <2>1, <2>2, <2>4, GoesOn DEF Await
<1>3. CASE NodeIsNotHad(c)
  <2>1. /\ Resumes(c, "node") /\ Ends(c) /\ timer' \in {gen, timer}
        /\ UNCHANGED <<gen, strayed, station>>
    BY <1>3, AfterTickIs DEF NodeIsNotHad, MatchedNodeFails, UpgradeFails, BareStationFails
  <2>2. call[c].token = gen /\ "live" \in Kind
    BY <2>1, Resumed DEF Await, Kind
  <2>3. CASE page' = page
    BY <2>1, <2>3, EndsHere
  <2>4. CASE page' # page
    <3> DEFINE q == NonInteractive(page, "live", gen)
    <3>1. page' = Staged(q, gen)
      BY <1>3, <2>2, <2>4 DEF NodeIsNotHad, MatchedNodeFails, UpgradeFails, BareStationFails
    <3>2. q \in PageType /\ q.rail.of = gen /\ q.node = 0
      BY <2>2, ShowsNoNode
    <3> HIDE DEF q
    <3>3. page' \in PageType /\ page'.stage.of = gen /\ page'.rail.of = gen /\ page'.node = 0
      BY <3>1, <3>2, Stages
    <3> QED
      BY <2>1, <3>3, EndsHere
  <2> QED
    BY <2>3, <2>4
<1>4. CASE ProgressArrives(c)
  <2> DEFINE q == [page EXCEPT !.progress = call[c].token]
  <2>1. /\ Resumes(c, "progress") /\ page' = Rendered(q, call[c].token, call[c].way)
        /\ Goes(c, "orientation", call[c].way) /\ UNCHANGED <<gen, strayed, station, timer>>
    BY <1>4 DEF ProgressArrives
  <2>2. call[c].token = gen /\ call[c].way \in Way
    BY <2>1, Resumed DEF Await
  <2>3. q \in PageType /\ q.stage = page.stage /\ q.node = page.node
    BY <2>2, Tells
  <2> HIDE DEF q
  <2>4. /\ page' \in PageType /\ page'.rail.of = gen /\ page'.node = page.node
        /\ page'.stage.of = page.stage.of \/ page'.stage.of = gen
    BY <2>1, <2>2, <2>3, Renders
  <2> QED
    BY <2>1, <2>2, <2>4, GoesOn DEF Await
<1> QED
  BY <1>1, <1>2, <1>3, <1>4

LEMMA OrientationAnswered ==
    ASSUME PInv, NEW c \in Calls, OrientationArrives(c)
    PROVE  PInv' /\ page'.stage.of >= page.stage.of
<1> USE Typed DEF Stays, IsWell, Notes
<1>1. /\ Resumes(c, "orientation") /\ Ends(c) /\ timer' \in {gen, timer}
      /\ UNCHANGED <<gen, strayed, station>>
  BY AfterTickIs DEF OrientationArrives
<1>2. call[c] # Idle /\ call[c].token = gen /\ call[c].at = "orientation"
  BY <1>1, Resumed DEF Await, Resumes
<1>3. PICK o \in {Nothing, call[c].token} :
        page' = IF call[c].way = "static"
                  THEN Staged([page EXCEPT !.orientation = o], call[c].token)
                  ELSE [page EXCEPT !.orientation = o]
  BY DEF OrientationArrives
<1> DEFINE told == [page EXCEPT !.orientation = o]
<1>8. o \in Nat
  BY <1>2 DEF Nothing
<1>4. told \in PageType /\ told.stage = page.stage /\ told.rail = page.rail /\ told.node = page.node
  BY <1>8, Tells
<1>5. page' = IF call[c].way = "static" THEN Staged(told, gen) ELSE told
  BY <1>2, <1>3
<1> HIDE DEF told
<1>6. CASE call[c].way = "static"
  <2>1. strayed # 0 \/ page.rail.of = gen
    BY <1>2, <1>6 DEF PInv, RailIsNotBehind, WillStage
  <2>2. /\ page' \in PageType /\ page'.stage.of = gen
        /\ page'.rail = page.rail /\ page'.node = page.node
    BY <1>4, <1>5, <1>6, Stages
  <2> QED
    BY <1>1, <2>1, <2>2, EndsHere
<1>7. CASE call[c].way # "static"
  BY <1>1, <1>4, <1>5, <1>7, EndsHere
<1> QED
  BY <1>6, <1>7

LEMMA TickAnswered ==
    ASSUME PInv, NEW c \in Calls,
           \/ PollIsAnswered(c) \/ TickInProgress(c) \/ TickFails(c)
           \/ TickReady(c) \/ TickReadyBare(c)
    PROVE  PInv' /\ page'.stage.of >= page.stage.of
<1> USE Typed DEF Stays, IsWell, Notes
<1>1. CASE PollIsAnswered(c)
  <2>1. Resumes(c, "poll") /\ UNCHANGED <<gen, page, timer, strayed>>
    BY <1>1 DEF PollIsAnswered
  <2>2. PICK status \in IF station = "failed" THEN {"failed", "ready"} ELSE {station} :
          station' = status /\ call' = [call EXCEPT ![c].at = status]
    BY <1>1 DEF PollIsAnswered
  <2>3. status \in Status /\ status \in Await /\ status # "ask" /\ status # "orientation"
    BY DEF Status, Await
  <2>4. call[c] \in Call /\ call[c].token = gen
    BY <2>1, Resumed DEF Await
  <2> DEFINE k == [call[c] EXCEPT !.at = status]
  <2>5. k \in Call /\ k.at = status /\ k.token = gen
    BY <2>3, <2>4 DEF Call
  <2>6. call' = [call EXCEPT ![c] = k]
    BY <2>2, <2>4 DEF Call, TypeOK
  <2> HIDE DEF k
  <2> QED
    BY <2>1, <2>2, <2>3, <2>5, <2>6, Step
<1>2. CASE TickInProgress(c) \/ TickFails(c)
  <2>1. /\ Ends(c) /\ page' = Waiting(page, call[c].token) /\ timer' \in {timer, gen, 0}
        /\ UNCHANGED <<gen, strayed, station>>
    BY <1>2, AfterTickIs DEF TickInProgress, TickFails, StillPolls, Nothing
  <2>2. call[c].token = gen
    BY <1>2 DEF TickInProgress, TickFails, Resumes, IsCurrent
  <2> DEFINE q == Waiting(page, gen)
  <2>3. q \in PageType /\ q.stage.of = gen /\ q.rail.of = gen /\ q.node = page.node
    BY Waits
  <2>4. page' = q
    BY <2>1, <2>2
  <2> HIDE DEF q
  <2> QED
    BY <2>1, <2>3, <2>4, EndsHere
<1>3. CASE TickReady(c)
  <2>1. /\ Resumes(c, "ready") /\ Goes(c, "node", "upgrade") /\ timer' = 0
        /\ page' = Staged(NonInteractive(page, "live", call[c].token), call[c].token)
        /\ UNCHANGED <<gen, strayed, station>>
    BY <1>3 DEF TickReady, Nothing
  <2>2. call[c].token = gen /\ "live" \in Kind
    BY <2>1, Resumed DEF Await, Status, Kind
  <2> DEFINE q == NonInteractive(page, "live", gen)
  <2>3. page' = Staged(q, gen)
    BY <2>1, <2>2
  <2>4. q \in PageType /\ q.rail.of = gen /\ q.node = 0
    BY <2>2, ShowsNoNode
  <2> HIDE DEF q
  <2>5. page' \in PageType /\ page'.stage.of = gen /\ page'.rail.of = gen /\ page'.node = 0
    BY <2>3, <2>4, Stages
  <2> QED
    BY <2>1, <2>5, GoesOn DEF Await, Status, Way
<1>4. CASE TickReadyBare(c)
  <2>1. /\ Resumes(c, "ready") /\ Goes(c, "node", "ready") /\ timer' = 0
        /\ page' = page /\ UNCHANGED <<gen, strayed, station>>
    BY <1>4 DEF TickReadyBare, Nothing
  <2> QED
    BY <2>1, GoesOn DEF Await, Status, Way
<1> QED
  BY <1>1, <1>2, <1>3, <1>4

\* A function of an older search only ends.
LEMMA StaleEnds ==
    ASSUME PInv, NEW c \in Calls, IsStale(c) \/ ButtonFails(c)
    PROVE  PInv' /\ page'.stage.of >= page.stage.of
BY EndsHere, Typed DEF IsStale, ButtonFails, Stays, IsWell

-----------------------------------------------------------------------------
(* The student.                                                             *)

\* A button of an older search's page brings that search back; otherwise the
\* stage shows the last one.
LEMMA ButtonShown ==
    ASSUME PInv, NEW c \in Calls, ButtonArrives(c)
    PROVE  PInv' /\ (page'.stage.of < page.stage.of => strayed' # 0)
<1> USE Typed DEF Stays, IsWell, Notes
<1>1. call[c].at = "ask" /\ Ends(c) /\ UNCHANGED <<timer, gen, station>>
  BY DEF ButtonArrives
<1>2. call[c] \in Call /\ call[c] # Idle
  BY <1>1, Calling
<1>3. call[c].way \in Nat /\ call[c].way <= gen
  BY <1>1, <1>2 DEF PInv, NothingIsAhead
<1>4. CASE ~ IsCurrent(c)
  <2>1. UNCHANGED <<page, strayed>>
    BY <1>4 DEF ButtonArrives
  <2> QED
    BY <1>1, <2>1, EndsHere
<1>5. CASE IsCurrent(c)
  <2> DEFINE way == call[c].way
             p == [page EXCEPT !.node = way]
             r == RailRendered(p, way)
  <2>1. page' = Staged(r, way) /\ strayed' = IF way # gen THEN gen ELSE strayed
    BY <1>5 DEF ButtonArrives
  <2>2. p \in PageType /\ p.node = way /\ way \in Nat
    BY <1>3 DEF PageType
  <2> HIDE DEF p, way
  <2>3. r \in PageType /\ r.rail.of = way /\ r.node = way
    BY <2>2, RendersRail
  <2> HIDE DEF r
  <2>4. page' \in PageType /\ page'.stage.of = way /\ page'.rail.of = way /\ page'.node = way
    BY <2>1, <2>2, <2>3, Stages
  <2>5. CASE way = gen
    <3>1. UNCHANGED strayed
      BY <2>1, <2>5 DEF PInv, TypeOK
    <3> QED
      BY <1>1, <2>4, <2>5, <3>1, EndsHere
  <2>6. CASE way # gen
    <3>1. strayed' = gen /\ gen # 0
      BY <1>3, <2>1, <2>6 DEF way
    <3>2. /\ call \in [Calls -> Call \cup {Idle}]
          /\ call' = [call EXCEPT ![c] = Idle]
      BY <1>1 DEF PInv, TypeOK, Ends
    <3>3. call' \in [Calls -> Call \cup {Idle}] /\ TypeOK'
      BY <1>1, <2>4, <3>1, <3>2 DEF TypeOK
    <3>4. way <= gen
      BY <1>3 DEF way
    <3>5. NothingIsAhead'
      BY <1>1, <2>4, <3>2, <3>4 DEF PInv, NothingIsAhead
    <3>6. RailIsNotBehind'
      BY <3>1 DEF RailIsNotBehind
    <3> QED
      BY <3>1, <3>3, <3>5, <3>6 DEF PInv
  <2> QED
    BY <2>5, <2>6
<1> QED
  BY <1>4, <1>5

\* A function that begins.
LEMMA Begins ==
    ASSUME PInv, NEW c \in Calls, call[c] = Idle, NEW k \in Call,
           call' = [call EXCEPT ![c] = k], k.token <= gen', k.at # "orientation",
           k.at = "ask" => k.way \in Nat /\ k.way <= gen',
           gen' \in Nat, gen' >= gen, UNCHANGED strayed,
           timer' \in {timer, 0}, station' \in Status,
           page' \in PageType, UNCHANGED <<page.stage, page.rail, page.node>>
    PROVE  PInv'
<1>1. /\ gen \in Nat /\ call \in [Calls -> Call \cup {Idle}] /\ timer \in Nat
      /\ page.stage.of \in Nat /\ page.rail.of \in Nat /\ page.node \in Nat
  BY Typed DEF TypeOK
<1>2. /\ call' \in [Calls -> Call \cup {Idle}] /\ call'[c] = k
      /\ \A d \in Calls \ {c} : call'[d] = call[d]
  BY <1>1
<1>3. TypeOK'
  BY <1>1, <1>2 DEF PInv, TypeOK
<1>4. \A d \in Calls : call'[d] # Idle =>
        /\ call'[d].token <= gen'
        /\ call'[d].at = "ask" => call'[d].way \in Nat /\ call'[d].way <= gen'
  <2>1. ASSUME NEW d \in Calls, call[d] # Idle
        PROVE  /\ call[d].token <= gen'
               /\ call[d].at = "ask" => call[d].way \in Nat /\ call[d].way <= gen'
    <3>1. call[d] \in Call /\ call[d].token \in Nat
      BY <1>1, <2>1 DEF Call
    <3>2. /\ call[d].token <= gen
          /\ call[d].at = "ask" => call[d].way \in Nat /\ call[d].way <= gen
      BY <2>1 DEF PInv, NothingIsAhead
    <3> QED
      BY <1>1, <3>1, <3>2
  <2> QED
    BY <1>2, <2>1
<1>5. page'.stage.of <= gen' /\ page'.rail.of <= gen' /\ page'.node <= gen' /\ timer' <= gen'
  BY <1>1 DEF PInv, NothingIsAhead
<1>6. NothingIsAhead'
  BY <1>4, <1>5 DEF NothingIsAhead
<1>7. ASSUME strayed = 0, NEW d \in Calls, call'[d] # Idle, call'[d].at = "orientation",
             call'[d].way = "static", call'[d].token = gen'
      PROVE  page'.rail.of = gen'
  <2>1. d # c /\ call'[d] = call[d]
    BY <1>2, <1>7
  <2>2. call[d].token <= gen /\ call[d].token = gen'
    BY <1>7, <2>1 DEF PInv, NothingIsAhead
  <2>3. gen' = gen
    BY <1>1, <2>2
  <2> QED
    BY <1>7, <2>1, <2>3 DEF PInv, RailIsNotBehind, WillStage
<1>8. RailIsNotBehind'
  BY <1>7 DEF PInv, RailIsNotBehind, WillStage
<1> QED
  BY <1>3, <1>6, <1>8 DEF PInv

LEMMA StudentActs ==
    ASSUME PInv, Submit \/ Tick \/ AsksButton
    PROVE  PInv' /\ page'.stage.of = page.stage.of
<1> USE Typed DEF Stays, IsWell, Notes
<1>1. CASE Submit
  <2>1. PICK c \in Calls : call[c] = Idle
                           /\ call' = [call EXCEPT ![c] = At("query", gen + 1, "match", FALSE)]
    BY <1>1 DEF Submit
  <2>2. /\ gen' = gen + 1 /\ timer' = 0 /\ page' = Cleared(page) /\ station' = "none"
        /\ UNCHANGED strayed
    BY <1>1 DEF Submit, Nothing
  <2>3. gen' \in Nat /\ gen' >= gen
    BY <2>2
  <2> DEFINE k == At("query", gen + 1, "match", FALSE)
  <2>4. k \in Call /\ k.token = gen' /\ k.at = "query"
    BY <2>2, <2>3 DEF At, Call, Await, Way
  <2>5. call' = [call EXCEPT ![c] = k]
    BY <2>1
  <2> HIDE DEF k
  <2> DEFINE q == Cleared(page)
  <2>6. q \in PageType /\ q.stage = page.stage /\ q.rail = page.rail /\ q.node = page.node
    BY Clears
  <2>7. page' = q
    BY <2>2
  <2> HIDE DEF q
  <2>8. page' \in PageType /\ UNCHANGED <<page.stage, page.rail, page.node>>
    BY <2>6, <2>7
  <2>9. station' \in Status /\ k.token <= gen'
    BY <2>2, <2>3, <2>4 DEF Status
  <2>10. PInv'
    BY <2>1, <2>2, <2>3, <2>4, <2>5, <2>8, <2>9, Begins
  <2> QED
    BY <2>8, <2>10
<1>2. CASE Tick
  <2>1. PICK c \in Calls : call[c] = Idle
                           /\ call' = [call EXCEPT ![c] = At("poll", timer, "ready", FALSE)]
    BY <1>2 DEF Tick
  <2>2. UNCHANGED <<gen, page, timer, station, strayed>>
    BY <1>2 DEF Tick
  <2> DEFINE k == At("poll", timer, "ready", FALSE)
  <2>3. k \in Call /\ k.token = timer /\ k.at = "poll"
    BY DEF At, Call, Await, Way
  <2>4. call' = [call EXCEPT ![c] = k]
    BY <2>1
  <2> HIDE DEF k
  <2>5. k.token <= gen'
    BY <2>2, <2>3 DEF PInv, NothingIsAhead
  <2>6. /\ gen' \in Nat /\ gen' >= gen /\ page' \in PageType /\ station' \in Status
        /\ UNCHANGED <<page.stage, page.rail, page.node>>
    BY <2>2
  <2>7. k.at # "orientation" /\ k.at # "ask"
    BY <2>3
  <2>8. PInv'
    BY <2>1, <2>2, <2>3, <2>4, <2>5, <2>6, <2>7, Begins
  <2> QED
    BY <2>2, <2>8
<1>3. CASE AsksButton
  <2>1. PICK c \in Calls : call[c] = Idle
                           /\ call' = [call EXCEPT ![c] = At("ask", gen, page.node, FALSE)]
    BY <1>3 DEF AsksButton
  <2>2. UNCHANGED <<gen, page, timer, station, strayed>>
    BY <1>3 DEF AsksButton
  <2> DEFINE k == At("ask", gen, page.node, FALSE)
  <2>3. k \in Call /\ k.token = gen /\ k.at = "ask" /\ k.way = page.node
    BY DEF At, Call, Await, Way
  <2>4. call' = [call EXCEPT ![c] = k]
    BY <2>1
  <2> HIDE DEF k
  <2>5. k.token <= gen' /\ k.way \in Nat /\ k.way <= gen'
    BY <2>2, <2>3 DEF PInv, NothingIsAhead
  <2> QED
    BY <2>1, <2>2, <2>3, <2>4, <2>5, Begins
<1> QED
  BY <1>1, <1>2, <1>3

\* Opening a part of the rail shows the rail's search, which is not behind.
LEMMA PartShown ==
    ASSUME PInv, OpensPart
    PROVE  PInv' /\ (page'.stage.of < page.stage.of => strayed' # 0)
<1> USE Typed DEF Stays, IsWell, Notes
<1> DEFINE q == Staged(page, page.rail.of)
<1>1. page' = q /\ UNCHANGED <<gen, timer, call, station, strayed>>
  BY DEF OpensPart
<1>2. q \in PageType /\ q.stage.of = page.rail.of /\ q.rail = page.rail /\ q.node = page.node
  BY Stages
<1> HIDE DEF q
<1>3. /\ page' \in PageType /\ page'.stage.of = page.rail.of /\ page'.rail = page.rail
      /\ page'.node = page.node
  BY <1>1, <1>2
<1>4. TypeOK'
  BY <1>1, <1>3 DEF TypeOK
<1>5. NothingIsAhead'
  BY <1>1, <1>3 DEF PInv, NothingIsAhead
<1>6. RailIsNotBehind'
  BY <1>1, <1>3 DEF PInv, RailIsNotBehind, WillStage
<1>7. page'.stage.of < page.stage.of => strayed' # 0
  BY <1>1, <1>3 DEF PInv, RailIsNotBehind
<1> QED
  BY <1>4, <1>5, <1>6, <1>7 DEF PInv

LEMMA StationIsEnded ==
    ASSUME PInv, StationEnds \/ UNCHANGED vars
    PROVE  PInv' /\ page' = page
<1>1. UNCHANGED <<gen, page, timer, call, strayed>> /\ station' \in Status
  BY Typed DEF StationEnds, vars, IsWell, Status
<1> QED
  BY <1>1 DEF PInv, TypeOK, NothingIsAhead, RailIsNotBehind, WillStage

-----------------------------------------------------------------------------
(* The theorems.                                                            *)

LEMMA InitHolds == Init => PInv
<1> SUFFICES ASSUME Init PROVE PInv
  OBVIOUS
<1> DEFINE p == [stage |-> Show("empty", 0), rail |-> Show("empty", 0), node |-> Nothing,
                 progress |-> Nothing, orientation |-> Nothing, ask |-> FALSE]
<1>3. Show("empty", 0) \in Shown /\ Show("empty", 0).of = 0
  BY Shows DEF Kind
<1>4. p \in PageType /\ p.stage.of = 0 /\ p.rail.of = 0 /\ p.node = 0
  BY <1>3 DEF PageType, Nothing
<1>5. page = p
  BY DEF Init
<1> HIDE DEF p
<1>1. page \in PageType /\ page.stage.of = 0 /\ page.rail.of = 0 /\ page.node = 0
  BY <1>4, <1>5
<1>2. /\ gen = 0 /\ timer = 0 /\ call \in [Calls -> Call \cup {Idle}] /\ station \in Status
      /\ strayed = 0 /\ \A c \in Calls : call[c] = Idle
  BY DEF Init, Nothing, Status
<1>6. TypeOK
  BY <1>1, <1>2 DEF TypeOK
<1>7. NothingIsAhead
  BY <1>1, <1>2 DEF NothingIsAhead
<1>8. RailIsNotBehind
  BY <1>1, <1>2 DEF RailIsNotBehind
<1> QED
  BY <1>6, <1>7, <1>8 DEF PInv

LEMMA NextHolds ==
    PInv /\ [Next]_vars => PInv' /\ (page'.stage.of < page.stage.of => strayed' # 0)
<1> SUFFICES ASSUME PInv, [Next]_vars
             PROVE  PInv' /\ (page'.stage.of < page.stage.of => strayed' # 0)
  OBVIOUS
<1> USE Typed
<1>1. ASSUME PInv', page'.stage.of >= page.stage.of
      PROVE  page'.stage.of < page.stage.of => strayed' # 0
  <2>1. page'.stage.of \in Nat
    BY <1>1 DEF PInv, TypeOK, PageType, Shown
  <2> QED
    BY <1>1, <2>1
<1>2. CASE Submit \/ Tick \/ AsksButton
  BY <1>2, StudentActs
<1>3. CASE OpensPart
  BY <1>3, PartShown
<1>4. CASE StationEnds \/ UNCHANGED vars
  BY <1>4, StationIsEnded
<1>5. ASSUME NEW c \in Calls, Answered(c)
      PROVE  PInv' /\ (page'.stage.of < page.stage.of => strayed' # 0)
  <2>1. CASE ButtonArrives(c)
    BY <2>1, ButtonShown
  <2>2. CASE ~ ButtonArrives(c)
    <3>1. PInv' /\ page'.stage.of >= page.stage.of
      BY <1>5, <2>2, StaleEnds, QueryAnswered, NodeAnswered, OrientationAnswered, TickAnswered
         DEF Answered, NodeIsNotHad
    <3> QED
      BY <1>1, <3>1
  <2> QED
    BY <2>1, <2>2
<1> QED
  BY <1>2, <1>3, <1>4, <1>5 DEF Next

\* What the page holds is of its type, is of no search later than the last,
\* and its rail is of no search earlier than its stage (app.js, rail.js).
THEOREM Invariance == Spec => []PInv
<1> QED
  BY InitHolds, NextHolds, PTL DEF Spec

\* No answer of an earlier search comes back onto the stage (app.js isCurrent),
\* for any number of searches and of requests under way.
THEOREM StageNeverGoesBack == Spec => NeverBackToAnOlderSearch
<1>1. PInv /\ [Next]_vars => [page'.stage.of < page.stage.of => strayed' # Nothing]_vars
  BY NextHolds DEF Nothing
<1> QED
  BY <1>1, Invariance, PTL DEF Spec, NeverBackToAnOlderSearch

-----------------------------------------------------------------------------
(* What is in flight, and what it has left to write.                        *)

Current(c) == call[c] # Idle /\ call[c].token = gen

\* Some function of the last search is at this await.
Awaits(await) == \E c \in Calls : Current(c) /\ call[c].at = await

\* A static answer has yet to be put onto the stage.
StaticIsDue == \E c \in Calls : Current(c) /\ WillStage(c)

\* The answer to the search, or the node that matched it.
IsMatch(c) ==
    /\ Current(c)
    /\ \/ call[c].at = "query"
       \/ call[c].at \in {"node", "progress"} /\ call[c].way = "match"

\* The page may still be that of an earlier search.
Unread == \E c \in Calls : IsMatch(c)

\* A search is answered by one function, unless it is answered with a station:
\* then its polls overlap.
OneAnswer ==
    /\ timer \in {0, gen}
    /\ \A c \in Calls : Current(c) => gen # 0
    /\ \A c \in Calls : Current(c) /\ call[c].at # "ask" =>
         /\ call[c].at = "query" => call[c].way = "match"
         /\ call[c].way \in {"match", "static"} =>
              /\ timer = 0
              /\ \A d \in Calls \ {c} : Current(d) => call[d].at = "ask"

\* The page is that of the last search, but for what is in flight.
Settles ==
    /\ page.rail.of = gen
    /\ page.node \in {0, gen} /\ page.progress \in {0, gen} /\ page.orientation \in {0, gen}
    /\ page.ask <=> page.rail.kind = "node"
    /\ \/ Awaits("node")
       \/ /\ page.progress \in {0, page.node}
          /\ page.rail.kind = "node" => page.node # 0
    /\ \/ Awaits("node") \/ Awaits("progress")
       \/ page.rail.kind \in {"node", "waiting"} \/ page.node = 0
    /\ \/ StaticIsDue
       \/ page.stage.kind = "content" => page.stage.of = gen /\ page.rail.kind # "waiting"
    /\ StaticIsDue => page.rail.kind # "waiting"

\* No node of this search was had, and there is no trace of one.
NoNodeYet ==
    /\ gen = 0 \/ page.node # gen
    /\ ~ Awaits("progress")
    /\ \A c \in Calls : Current(c) /\ call[c].at = "ask" => call[c].way # gen
    /\ Unread \/ (page.progress = 0 /\ page.rail.kind # "node")

NodeIsKnown == "node" \in outcome \/ NoNodeYet

InOrder ==
    /\ OneAnswer
    /\ Unread \/ Settles
    /\ Awaits("progress") => Awaits("node") \/ page.node = gen
    /\ NodeIsKnown

\* The search was answered, its node is not in doubt, and no button strayed in it.
IsCalm == "no answer" \notin outcome /\ ~ NodeIsInDoubt /\ strayed # gen

SInv == IsCalm => InOrder

-----------------------------------------------------------------------------
(* What the functions of the page leave of a page p, part by part.          *)

\* The parts of q that are those of p.
SameLoad(q, p) == q.node = p.node /\ q.progress = p.progress

LEMMA StagedIs ==
    ASSUME NEW p \in PageType, NEW g \in Nat, NEW q, q = Staged(p, g)
    PROVE  /\ q \in PageType /\ q.stage.kind = "content" /\ q.stage.of = g
           /\ q.rail = p.rail /\ (q.ask <=> p.ask) /\ q.orientation = p.orientation
           /\ SameLoad(q, p)
<1>1. q \in PageType
  BY Stages
<1>2. q.stage = Show("content", g)
  BY DEF Staged, PageType
<1> QED
  BY <1>1, <1>2 DEF Staged, PageType, SameLoad, Show

LEMMA NoNodeIs ==
    ASSUME NEW p \in PageType, NEW kind \in Kind, NEW g \in Nat,
           NEW q, q = NonInteractive(p, kind, g)
    PROVE  /\ q \in PageType /\ q.stage = p.stage
           /\ q.rail.kind = kind /\ q.rail.of = g /\ ~ q.ask
           /\ q.node = 0 /\ q.progress = 0 /\ q.orientation = 0
<1> DEFINE r == Cleared(p)
<1>1. r \in PageType /\ r.orientation = 0 /\ r.stage = p.stage
  BY Clears DEF Cleared, PageType, Nothing
<1>2. q = [r EXCEPT !.node = Nothing, !.progress = Nothing, !.ask = FALSE,
                    !.rail = Show(kind, g)]
  BY DEF NonInteractive
<1>3. q \in PageType
  BY ShowsNoNode
<1> HIDE DEF r
<1>4. q.rail = Show(kind, g) /\ q.orientation = 0 /\ q.stage = p.stage
  BY <1>1, <1>2 DEF PageType
<1>5. q.node = 0 /\ q.progress = 0 /\ ~ q.ask
  BY <1>1, <1>2 DEF PageType, Nothing
<1> QED
  BY <1>3, <1>4, <1>5 DEF Show

LEMMA WaitingIs ==
    ASSUME NEW p \in PageType, NEW g \in Nat, NEW q, q = Waiting(p, g)
    PROVE  /\ q \in PageType /\ q.stage.kind = "waiting" /\ q.stage.of = g
           /\ q.rail.kind = "waiting" /\ q.rail.of = g /\ ~ q.ask
           /\ q.orientation = p.orientation /\ SameLoad(q, p)
<1>1. q \in PageType
  BY Waits
<1>2. q.stage = Show("waiting", g) /\ q.rail = Show("waiting", g) /\ ~ q.ask
  BY DEF Waiting, PageType
<1>3. q.orientation = p.orientation /\ SameLoad(q, p)
  BY DEF Waiting, PageType, SameLoad
<1> QED
  BY <1>1, <1>2, <1>3 DEF Show

LEMMA PendingIs ==
    ASSUME NEW p \in PageType, NEW g \in Nat, NEW q, q = Pending(p, g)
    PROVE  /\ q \in PageType /\ q.stage.kind = "waiting"
           /\ q.rail.kind = "waiting" /\ q.rail.of = g /\ ~ q.ask
           /\ q.node = 0 /\ q.progress = 0 /\ q.orientation = 0
<1> DEFINE r == [Cleared(p) EXCEPT !.node = Nothing, !.progress = Nothing]
<1>1. r \in PageType /\ r.node = 0 /\ r.progress = 0
  BY Clears DEF PageType, Nothing
<1>2. r.orientation = 0
  BY DEF Cleared, PageType, Nothing
<1>3. q = Waiting(r, g)
  BY DEF Pending
<1> HIDE DEF r
<1> QED
  BY <1>1, <1>2, <1>3, WaitingIs DEF SameLoad

LEMMA ArrivesIs ==
    ASSUME NEW p \in PageType, NEW g \in Nat, NEW q, q = NodeArrives(p, g)
    PROVE  /\ q \in PageType /\ q.stage = p.stage /\ q.rail = p.rail /\ (q.ask <=> p.ask)
           /\ q.orientation = p.orientation /\ q.node = g /\ q.progress = 0
BY Loads DEF NodeArrives, PageType, Nothing

LEMMA RailRenderedIs ==
    ASSUME NEW p \in PageType, NEW g \in Nat, NEW q, q = RailRendered(p, g)
    PROVE  /\ q \in PageType /\ q.stage = p.stage
           /\ q.rail.kind = "node" /\ q.rail.of = g /\ q.ask
           /\ q.orientation = p.orientation /\ SameLoad(q, p)
<1>1. q \in PageType
  BY RendersRail
<1>2. q.rail = Show("node", g) /\ q.ask
  BY DEF RailRendered, PageType
<1>3. q.stage = p.stage /\ q.orientation = p.orientation /\ SameLoad(q, p)
  BY DEF RailRendered, PageType, SameLoad
<1> QED
  BY <1>1, <1>2, <1>3 DEF Show

LEMMA ClearedIs ==
    ASSUME NEW p \in PageType, NEW q, q = Cleared(p)
    PROVE  /\ q \in PageType /\ q.stage = p.stage /\ q.rail = p.rail /\ (q.ask <=> p.ask)
           /\ q.orientation = 0 /\ SameLoad(q, p)
BY Clears DEF Cleared, PageType, Nothing, SameLoad

LEMMA ToldIs ==
    ASSUME NEW p \in PageType, NEW o \in Nat, NEW q, q = [p EXCEPT !.orientation = o]
    PROVE  /\ q \in PageType /\ q.stage = p.stage /\ q.rail = p.rail /\ (q.ask <=> p.ask)
           /\ q.orientation = o /\ SameLoad(q, p)
BY DEF PageType, SameLoad

LEMMA RenderedIs ==
    ASSUME NEW p \in PageType, NEW g \in Nat, NEW way, NEW q, q = Rendered(p, g, way)
    PROVE  /\ q \in PageType /\ q.rail.kind = "node" /\ q.rail.of = g /\ q.ask
           /\ q.orientation = 0 /\ SameLoad(q, p)
           /\ way = "upgrade" => q.stage = p.stage
           /\ way # "upgrade" => q.stage.kind = "content" /\ q.stage.of = g
<1> PICK r : r = RailRendered(p, g)
  OBVIOUS
<1>1. /\ r \in PageType /\ r.stage = p.stage
      /\ r.rail.kind = "node" /\ r.rail.of = g /\ r.ask /\ SameLoad(r, p)
  BY RailRenderedIs
<1>2. CASE way = "upgrade"
  <2>1. q = Cleared(r)
    BY <1>2 DEF Rendered
  <2> QED
    BY <1>1, <1>2, <2>1, ClearedIs DEF SameLoad
<1>3. CASE way # "upgrade"
  <2> PICK t : t = Staged(r, g)
    OBVIOUS
  <2>1. q = Cleared(t)
    BY <1>3 DEF Rendered
  <2>2. /\ t \in PageType /\ t.stage.kind = "content" /\ t.stage.of = g
        /\ t.rail = r.rail /\ (t.ask <=> r.ask) /\ SameLoad(t, r)
    BY <1>1, StagedIs
  <2> QED
    BY <1>1, <1>3, <2>1, <2>2, ClearedIs DEF SameLoad
<1> QED
  BY <1>2, <1>3

-----------------------------------------------------------------------------
(* What a step of one function leaves in flight.                            *)

\* Function c becomes k within a search, the others stay.
Becomes(c, k) ==
    /\ call \in [Calls -> Call \cup {Idle}]
    /\ gen' = gen
    /\ k \in Call \cup {Idle}
    /\ call' = [call EXCEPT ![c] = k]

LEMMA BecomesIs ==
    ASSUME NEW c \in Calls, NEW k, Becomes(c, k)
    PROVE  /\ call'[c] = k
           /\ \A d \in Calls \ {c} : call'[d] = call[d] /\ (Current(d)' <=> Current(d))
           /\ Current(c)' <=> (k # Idle /\ k.token = gen)
BY DEF Becomes, Current

LEMMA AwaitKept ==
    ASSUME NEW c \in Calls, NEW k, Becomes(c, k), NEW a, ~ Current(c) \/ call[c].at # a, Awaits(a)
    PROVE  Awaits(a)'
BY BecomesIs DEF Awaits

LEMMA AwaitBegun ==
    ASSUME NEW c \in Calls, NEW k, Becomes(c, k), k # Idle, k.token = gen
    PROVE  Awaits(k.at)'
BY BecomesIs DEF Awaits

LEMMA AwaitWas ==
    ASSUME NEW c \in Calls, NEW k, Becomes(c, k), NEW a, Awaits(a)', k = Idle \/ k.at # a
    PROVE  Awaits(a)
BY BecomesIs DEF Awaits

LEMMA StaticKept ==
    ASSUME NEW c \in Calls, NEW k, Becomes(c, k), ~ (Current(c) /\ WillStage(c)), StaticIsDue
    PROVE  StaticIsDue'
<1>1. PICK d \in Calls : Current(d) /\ WillStage(d)
  BY DEF StaticIsDue
<1>2. d # c /\ call'[d] = call[d] /\ Current(d)'
  BY <1>1, BecomesIs
<1>3. WillStage(d)'
  BY <1>1, <1>2 DEF WillStage, Becomes
<1> QED
  BY <1>2, <1>3 DEF StaticIsDue

LEMMA StaticWas ==
    ASSUME NEW c \in Calls, NEW k, Becomes(c, k), StaticIsDue',
           k = Idle \/ k.at # "orientation" \/ k.way # "static"
    PROVE  StaticIsDue
<1>1. PICK d \in Calls : Current(d)' /\ WillStage(d)'
  BY DEF StaticIsDue
<1>2. d # c /\ call'[d] = call[d] /\ Current(d)
  BY <1>1, BecomesIs DEF WillStage
<1>3. WillStage(d)
  BY <1>1, <1>2 DEF WillStage, Becomes
<1> QED
  BY <1>2, <1>3 DEF StaticIsDue

LEMMA UnreadKept ==
    ASSUME NEW c \in Calls, NEW k, Becomes(c, k), ~ IsMatch(c), Unread
    PROVE  Unread'
<1>1. PICK d \in Calls : IsMatch(d)
  BY DEF Unread
<1>2. d # c /\ call'[d] = call[d] /\ Current(d)'
  BY <1>1, BecomesIs DEF IsMatch
<1>3. IsMatch(d)'
  BY <1>1, <1>2 DEF IsMatch
<1> QED
  BY <1>3 DEF Unread

\* If a function of this search is at work that is not its answer, there is no
\* other answer to come, and no static one.
LEMMA AtWork ==
    ASSUME OneAnswer, NEW c \in Calls, Current(c), call[c].at # "ask"
    PROVE  /\ gen # 0
           /\ Unread => IsMatch(c)
           /\ StaticIsDue => WillStage(c)
<1>1. gen # 0
  BY DEF OneAnswer
<1>2. ASSUME NEW d \in Calls, Current(d), call[d].at # "ask", call[d].way \in {"match", "static"}
      PROVE  d = c
  BY <1>2 DEF OneAnswer
<1>3. ASSUME NEW d \in Calls, IsMatch(d)
      PROVE  d = c
  <2>1. Current(d) /\ call[d].at # "ask" /\ call[d].way = "match"
    BY <1>3 DEF IsMatch, OneAnswer
  <2> QED
    BY <1>2, <2>1
<1>4. ASSUME NEW d \in Calls, Current(d), WillStage(d)
      PROVE  d = c
  BY <1>2, <1>4 DEF WillStage
<1> QED
  BY <1>1, <1>3, <1>4 DEF Unread, StaticIsDue

\* A function that goes on or ends keeps the answers apart.
LEMMA OneAnswerKept ==
    ASSUME OneAnswer, NEW c \in Calls, NEW k, Becomes(c, k),
           timer' \in {timer, gen, 0},
           timer' = timer \/ timer' = 0 \/ (Current(c) /\ call[c].at # "ask"),
           \/ k = Idle
           \/ k.at = "ask" /\ gen # 0
           \/ /\ Current(c) /\ call[c].at # "ask" /\ k.at # "query"
              /\ k.way \in {"match", "static"} =>
                   call[c].way \in {"match", "static"} /\ timer' \in {timer, 0}
           \/ call[c] = Idle /\ timer # 0 /\ timer' = timer /\ k.way = "ready" /\ k.at = "poll"
    PROVE  OneAnswer'
<1>1. gen' = gen /\ timer' \in {0, gen'}
  BY DEF OneAnswer, Becomes
<1>3. ASSUME NEW d \in Calls, Current(d)'
      PROVE  gen' # 0
  <2>1. CASE d = c
    BY <1>1, <1>3, <2>1, BecomesIs DEF OneAnswer
  <2>2. CASE d # c
    BY <1>1, <1>3, <2>2, BecomesIs DEF OneAnswer
  <2> QED
    BY <2>1, <2>2
<1>2. ASSUME NEW d \in Calls, Current(d)', call'[d].at # "ask"
      PROVE  /\ call'[d].at = "query" => call'[d].way = "match"
             /\ call'[d].way \in {"match", "static"} =>
                  /\ timer' = 0
                  /\ \A e \in Calls \ {d} : Current(e)' => call'[e].at = "ask"
  <2>1. CASE d = c
    <3>1. k # Idle /\ call'[d] = k
      BY <1>2, <2>1, BecomesIs
    <3>2. CASE call[c] = Idle /\ timer # 0 /\ k.way = "ready" /\ k.at = "poll"
      BY <1>1, <3>1, <3>2 DEF OneAnswer
    <3>3. CASE /\ Current(c) /\ call[c].at # "ask" /\ k.at # "query"
               /\ k.way \in {"match", "static"} =>
                    call[c].way \in {"match", "static"} /\ timer' \in {timer, 0}
      <4>1. k.way \in {"match", "static"} =>
              timer = 0 /\ \A e \in Calls \ {c} : Current(e) => call[e].at = "ask"
        BY <3>3 DEF OneAnswer
      <4> QED
        BY <1>1, <2>1, <3>1, <3>3, <4>1, BecomesIs
    <3> QED
      BY <1>2, <2>1, <3>1, <3>2, <3>3
  <2>2. CASE d # c
    <3>1. Current(d) /\ call'[d] = call[d] /\ call[d].at # "ask"
      BY <1>2, <2>2, BecomesIs
    <3>2. call[d].at = "query" => call[d].way = "match"
      BY <3>1 DEF OneAnswer
    <3>3. ASSUME call[d].way \in {"match", "static"}
          PROVE  timer' = 0 /\ \A e \in Calls \ {d} : Current(e)' => call'[e].at = "ask"
      <4>1. timer = 0 /\ \A e \in Calls \ {d} : Current(e) => call[e].at = "ask"
        BY <3>1, <3>3 DEF OneAnswer
      <4>2. ~ (Current(c) /\ call[c].at # "ask")
        BY <2>2, <4>1
      <4>3. timer' = 0 /\ (k = Idle \/ k.at = "ask")
        BY <4>1, <4>2
      <4> QED
        BY <4>1, <4>3, BecomesIs
    <3> QED
      BY <1>1, <3>1, <3>2, <3>3
  <2> QED
    BY <2>1, <2>2
<1> QED
  BY <1>1, <1>2, <1>3 DEF OneAnswer

\* A step of c that fetches no node leaves no trace of one.
LEMMA NoNodeKept ==
    ASSUME NodeIsKnown, NEW c \in Calls, NEW k, Becomes(c, k),
           "node" \in outcome => "node" \in outcome',
           k # Idle => /\ k.at # "progress"
                       /\ k.at = "ask" => k.way = page.node /\ gen # 0,
           page'.node \in {page.node, 0},
           \/ Unread'
           \/ page'.progress = 0 /\ page'.rail.kind # "node"
           \/ /\ ~ IsMatch(c) /\ page'.progress = page.progress
              /\ page'.rail.kind \in {page.rail.kind, "waiting"}
    PROVE  NodeIsKnown'
<1>1. CASE "node" \in outcome
  BY <1>1 DEF NodeIsKnown
<1>2. CASE NoNodeYet
  <2>1. gen' = 0 \/ page'.node # gen'
    BY <1>2 DEF NoNodeYet, Becomes
  <2>2. ~ Awaits("progress")'
    BY <1>2, AwaitWas DEF NoNodeYet
  <2>3. \A d \in Calls : Current(d)' /\ call'[d].at = "ask" => call'[d].way # gen'
    BY <1>2, BecomesIs DEF NoNodeYet, Becomes
  <2>4. Unread' \/ (page'.progress = 0 /\ page'.rail.kind # "node")
    BY <1>2, UnreadKept DEF NoNodeYet
  <2> QED
    BY <2>1, <2>2, <2>3, <2>4 DEF NodeIsKnown, NoNodeYet
<1> QED
  BY <1>1, <1>2 DEF NodeIsKnown

\* What is at work has a search, a token and a type.
LEMMA Working ==
    ASSUME PInv, NEW c \in Calls, NEW await \in Await, Resumes(c, await)
    PROVE  /\ Current(c) /\ call[c].at = await /\ call[c].token = gen
           /\ call[c] \in Call /\ gen \in Nat /\ page \in PageType
BY Resumed, Typed DEF Resumes, Current

LEMMA CallIsNotIdle == \A k \in Call : k # Idle
BY DEF Call, Idle, Await, Status

\* A function that goes on, as a step of one function.
LEMMA GoesTo ==
    ASSUME PInv, NEW c \in Calls, NEW await \in Await, Resumes(c, await),
           NEW at \in Await, NEW way \in Way, Goes(c, at, way), gen' = gen
    PROVE  \E k : /\ Becomes(c, k) /\ k # Idle
                  /\ k.at = at /\ k.way = way /\ k.token = gen
<1>1. TypeOK /\ call[c] \in Call /\ call[c].token = gen
  BY Typed, Working
<1>2. PICK k \in Call :
        /\ call' = [call EXCEPT ![c] = k]
        /\ k.at = at /\ k.way = way /\ k.token = call[c].token
  BY <1>1, Going
<1> QED
  BY <1>1, <1>2, CallIsNotIdle DEF Becomes, TypeOK

LEMMA EndsTo ==
    ASSUME PInv, NEW c \in Calls, Ends(c), gen' = gen
    PROVE  Becomes(c, Idle)
BY Typed DEF Ends, Becomes, TypeOK

\* A step that leaves the page alone, of a function that has nothing to write
\* but what it fetches next.
LEMMA PageAlone ==
    ASSUME InOrder, NEW c \in Calls, NEW k, Becomes(c, k), UNCHANGED page, OneAnswer',
           ~ Current(c) \/ call[c].at \notin {"query", "node", "progress", "orientation"},
           k = Idle \/ k.at \notin {"query", "node", "progress", "orientation"},
           k # Idle /\ k.at = "ask" => k.way = page.node /\ gen # 0, UNCHANGED outcome
    PROVE  InOrder'
<1>1. /\ Awaits("node") => Awaits("node")'
      /\ Awaits("progress") => Awaits("progress")'
      /\ Awaits("progress")' => Awaits("progress")
  BY AwaitKept, AwaitWas
<1>2. StaticIsDue' => StaticIsDue
  BY StaticWas
<1>3. StaticIsDue => StaticIsDue'
  BY StaticKept DEF WillStage
<1>4. Unread => Unread'
  BY UnreadKept DEF IsMatch
<1>5. Settles => Settles'
  BY <1>1, <1>2, <1>3 DEF Settles, Becomes
<1>6. NodeIsKnown'
  BY NoNodeKept DEF InOrder, IsMatch
<1> QED
  BY <1>1, <1>4, <1>5, <1>6 DEF InOrder, Becomes

LEMMA StaleInOrder ==
    ASSUME PInv, InOrder, NEW c \in Calls, IsStale(c) \/ ButtonFails(c)
    PROVE  InOrder'
<1>1. /\ Ends(c) /\ UNCHANGED <<gen, page, timer, outcome>>
      /\ ~ Current(c) \/ call[c].at = "ask"
  BY DEF IsStale, ButtonFails, Stays, IsWell, IsCurrent, Current
<1>2. Becomes(c, Idle)
  BY <1>1, EndsTo
<1>3. OneAnswer'
  BY <1>1, <1>2, OneAnswerKept DEF InOrder
<1> QED
  BY <1>1, <1>2, <1>3, PageAlone

LEMMA PollInOrder ==
    ASSUME PInv, InOrder, NEW c \in Calls, PollIsAnswered(c)
    PROVE  InOrder'
<1>1. Resumes(c, "poll") /\ UNCHANGED <<gen, page, timer, outcome>>
  BY DEF PollIsAnswered, IsWell
<1>2. PICK status \in IF station = "failed" THEN {"failed", "ready"} ELSE {station} :
        call' = [call EXCEPT ![c].at = status]
  BY DEF PollIsAnswered
<1>3. status \in Status /\ status \in Await
      /\ status \notin {"ask", "query", "node", "progress", "orientation"}
  BY Typed DEF Status, Await
<1>4. Current(c) /\ call[c].at = "poll" /\ call[c] \in Call
  BY <1>1, Working DEF Await
<1> DEFINE k == [call[c] EXCEPT !.at = status]
<1>5. k \in Call /\ k.at = status /\ k.way = call[c].way
  BY <1>3, <1>4 DEF Call
<1>6. Becomes(c, k)
  BY <1>1, <1>2, <1>5, Typed DEF Becomes, TypeOK, Call
<1> HIDE DEF k
<1>7. OneAnswer'
  BY <1>1, <1>3, <1>4, <1>5, <1>6, OneAnswerKept DEF InOrder
<1> QED
  BY <1>1, <1>3, <1>4, <1>5, <1>6, <1>7, PageAlone

LEMMA BeginsInOrder ==
    ASSUME PInv, InOrder, Tick \/ AsksButton
    PROVE  InOrder'
<1>1. UNCHANGED <<gen, page, timer, outcome>>
  BY DEF Tick, AsksButton, Stays, IsWell
<1>2. CASE Tick
  <2>1. PICK c \in Calls : call[c] = Idle
                           /\ call' = [call EXCEPT ![c] = At("poll", timer, "ready", FALSE)]
    BY <1>2 DEF Tick
  <2> PICK k : k = At("poll", timer, "ready", FALSE)
    OBVIOUS
  <2>2. k \in Call /\ k.at = "poll" /\ k.way = "ready" /\ timer # 0
    BY <1>2, Typed DEF At, Call, Await, Way, Tick, Nothing
  <2>3. Becomes(c, k) /\ ~ Current(c)
    BY <1>1, <2>1, <2>2, Typed DEF Becomes, Current, TypeOK
  <2>4. OneAnswer'
    BY <1>1, <2>1, <2>2, <2>3, OneAnswerKept DEF InOrder
  <2> QED
    BY <1>1, <2>2, <2>3, <2>4, PageAlone
<1>3. CASE AsksButton
  <2>1. PICK c \in Calls : call[c] = Idle
                           /\ call' = [call EXCEPT ![c] = At("ask", gen, page.node, FALSE)]
    BY <1>3 DEF AsksButton
  <2> PICK k : k = At("ask", gen, page.node, FALSE)
    OBVIOUS
  <2>2. k \in Call /\ k.at = "ask" /\ k.way = page.node
    BY Typed DEF At, Call, Await, Way
  <2>3. Becomes(c, k) /\ ~ Current(c)
    BY <1>1, <2>1, <2>2, Typed DEF Becomes, Current, TypeOK
  <2>4. gen # 0
    BY <1>3, Typed DEF AsksButton, Nothing, PInv, NothingIsAhead
  <2>5. OneAnswer'
    BY <1>1, <2>2, <2>3, <2>4, OneAnswerKept DEF InOrder
  <2> QED
    BY <1>1, <2>2, <2>3, <2>4, <2>5, PageAlone
<1> QED
  BY <1>2, <1>3

-----------------------------------------------------------------------------
(* The answer to a search, and its node, leave the page in order.            *)

\* No other function of the search has anything to write beside its answer.
LEMMA AloneAtWork ==
    ASSUME OneAnswer, NEW c \in Calls, Current(c), call[c].at # "ask",
           call[c].way \in {"match", "static"},
           NEW k, Becomes(c, k), NEW a, a # "ask", k = Idle \/ k.at # a
    PROVE  ~ Awaits(a)'
<1>1. \A d \in Calls \ {c} : Current(d) => call[d].at = "ask"
  BY DEF OneAnswer
<1> QED
  BY <1>1, BecomesIs DEF Awaits

LEMMA InteractiveInOrder ==
    ASSUME PInv, InOrder, NEW c \in Calls, QueryIsInteractive(c)
    PROVE  InOrder'
<1>1. /\ Resumes(c, "query") /\ Goes(c, "node", "match")
      /\ UNCHANGED <<gen, page, timer, outcome>>
  BY DEF QueryIsInteractive, Stays, IsWell
<1>2. Current(c) /\ call[c].at = "query" /\ call[c].way = "match"
  BY <1>1, Working DEF Await, InOrder, OneAnswer
<1>3. PICK k : Becomes(c, k) /\ k # Idle /\ k.at = "node" /\ k.way = "match" /\ k.token = gen
  BY <1>1, GoesTo DEF Await, Way
<1>4. OneAnswer'
  BY <1>1, <1>2, <1>3, OneAnswerKept DEF InOrder
<1>5. IsMatch(c)'
  BY <1>3, BecomesIs DEF IsMatch
<1>6. Awaits("node")' /\ Unread'
  BY <1>3, <1>5, AwaitBegun DEF Unread
<1>7. NodeIsKnown'
  BY <1>1, <1>3, <1>6, NoNodeKept DEF InOrder
<1> QED
  BY <1>4, <1>6, <1>7 DEF InOrder

LEMMA StaticInOrder ==
    ASSUME PInv, InOrder, NEW c \in Calls, QueryIsStatic(c)
    PROVE  InOrder'
<1>1. /\ Resumes(c, "query") /\ Goes(c, "orientation", "static")
      /\ UNCHANGED <<gen, timer, outcome>>
  BY DEF QueryIsStatic, Stays, IsWell
<1>2. /\ Current(c) /\ call[c].at = "query" /\ call[c].way = "match"
      /\ call[c].token = gen /\ gen \in Nat /\ page \in PageType
  BY <1>1, Working DEF Await, InOrder, OneAnswer
<1>3. PICK k : /\ Becomes(c, k) /\ k # Idle
               /\ k.at = "orientation" /\ k.way = "static" /\ k.token = gen
  BY <1>1, GoesTo DEF Await, Way
<1>4. OneAnswer'
  BY <1>1, <1>2, <1>3, OneAnswerKept DEF InOrder
<1>5. PICK kind \in {"live", "static"} : page' = NonInteractive(page, kind, gen)
  BY <1>2 DEF QueryIsStatic
<1>6. /\ page'.rail.kind = kind /\ page'.rail.of = gen /\ ~ page'.ask
      /\ page'.node = 0 /\ page'.progress = 0 /\ page'.orientation = 0
  <2> PICK q : q = page'
    OBVIOUS
  <2>1. kind \in Kind /\ q = NonInteractive(page, kind, gen)
    BY <1>5 DEF Kind
  <2>2. /\ q.rail.kind = kind /\ q.rail.of = gen /\ ~ q.ask
        /\ q.node = 0 /\ q.progress = 0 /\ q.orientation = 0
    BY <1>2, <2>1, NoNodeIs
  <2> QED
    BY <2>2
<1>7. StaticIsDue'
  BY <1>1, <1>3, BecomesIs DEF StaticIsDue, WillStage
<1>8. ~ Awaits("progress")'
  BY <1>2, <1>3, AloneAtWork DEF InOrder
<1>9. Settles'
  BY <1>1, <1>6, <1>7 DEF Settles
<1>10. NodeIsKnown'
  BY <1>1, <1>3, <1>6, NoNodeKept DEF InOrder
<1> QED
  BY <1>4, <1>8, <1>9, <1>10 DEF InOrder

LEMMA PendingInOrder ==
    ASSUME PInv, InOrder, NEW c \in Calls, QueryIsPending(c)
    PROVE  InOrder'
<1>1. /\ Resumes(c, "query") /\ UNCHANGED <<gen, outcome>> /\ timer' = 0
      /\ page' = Pending(page, call[c].token)
  BY DEF QueryIsPending, Nothing, IsWell
<1>2. /\ Current(c) /\ call[c].at = "query" /\ call[c].way = "match"
      /\ call[c].token = gen /\ gen \in Nat /\ page \in PageType
  BY <1>1, Working DEF Await, InOrder, OneAnswer
<1> PICK k : k = At("poll", gen, "ready", TRUE)
  OBVIOUS
<1>3. k \in Call /\ k # Idle /\ k.at = "poll" /\ k.way = "ready" /\ k.token = gen
  BY <1>2, CallIsNotIdle DEF At, Call, Await, Way
<1>4. Becomes(c, k)
  BY <1>1, <1>2, <1>3, Typed DEF QueryIsPending, Becomes, TypeOK
<1>5. OneAnswer'
  BY <1>1, <1>2, <1>3, <1>4, OneAnswerKept DEF InOrder
<1>6. /\ page'.stage.kind = "waiting" /\ page'.rail.kind = "waiting"
      /\ page'.rail.of = gen /\ ~ page'.ask
      /\ page'.node = 0 /\ page'.progress = 0 /\ page'.orientation = 0
  <2> PICK q : q = page'
    OBVIOUS
  <2> QED
    BY <1>1, <1>2, PendingIs
<1>7. ~ StaticIsDue'
  BY <1>2, <1>3, <1>4, StaticWas, AtWork DEF InOrder, WillStage
<1>8. ~ Awaits("progress")'
  BY <1>2, <1>3, <1>4, AloneAtWork DEF InOrder
<1>9. Settles'
  BY <1>1, <1>6, <1>7 DEF Settles
<1>10. NodeIsKnown'
  BY <1>1, <1>3, <1>4, <1>6, NoNodeKept DEF InOrder
<1> QED
  BY <1>5, <1>8, <1>9, <1>10 DEF InOrder

LEMMA TreeInOrder ==
    ASSUME PInv, InOrder, NEW c \in Calls, NodeHasTree(c)
    PROVE  InOrder'
<1>1. /\ Resumes(c, "node") /\ UNCHANGED <<gen, timer>> /\ Goes(c, "progress", call[c].way)
      /\ NodeIsKnown'
  BY DEF NodeHasTree, Stays, Notes, NodeIsKnown
<1>2. /\ Current(c) /\ call[c].at = "node" /\ call[c] \in Call /\ call[c].way \in Way
      /\ call[c].token = gen /\ gen \in Nat /\ page \in PageType
  BY <1>1, Working DEF Await, Call
<1>3. PICK k : /\ Becomes(c, k) /\ k # Idle
               /\ k.at = "progress" /\ k.way = call[c].way /\ k.token = gen
  BY <1>1, <1>2, GoesTo DEF Await
<1>4. OneAnswer'
  BY <1>1, <1>2, <1>3, OneAnswerKept DEF InOrder
<1>5. /\ page'.stage = page.stage /\ page'.rail = page.rail /\ (page'.ask <=> page.ask)
      /\ page'.orientation = page.orientation /\ page'.node = gen /\ page'.progress = 0
  <2> PICK q : q = page'
    OBVIOUS
  <2> QED
    BY <1>2, ArrivesIs DEF NodeHasTree
<1>6. CASE IsMatch(c)
  <2>1. IsMatch(c)'
    BY <1>2, <1>3, <1>6, BecomesIs DEF IsMatch
  <2> QED
    BY <1>1, <1>4, <1>5, <2>1 DEF InOrder, Unread
<1>7. CASE ~ IsMatch(c)
  <2>1. Settles /\ ~ StaticIsDue /\ gen # 0
    BY <1>2, <1>7, AtWork DEF InOrder, WillStage
  <2>2. ~ StaticIsDue'
    BY <1>3, <2>1, StaticWas
  <2>3. Awaits("progress")'
    BY <1>3, AwaitBegun
  <2>4. Settles'
    BY <1>1, <1>5, <2>1, <2>2, <2>3 DEF Settles
  <2> QED
    BY <1>1, <1>4, <1>5, <2>4 DEF InOrder
<1> QED
  BY <1>6, <1>7

\* A node and its progress are rendered.
LEMMA RenderedInOrder ==
    ASSUME PInv, InOrder, NEW c \in Calls, NEW await \in {"node", "progress"}, Resumes(c, await),
           Goes(c, "orientation", call[c].way), UNCHANGED <<gen, timer>>,
           NEW q \in PageType, page' = Rendered(q, gen, call[c].way), q.stage = page.stage,
           q.node = gen \/ (q.node = page.node /\ (Awaits("node")' \/ page.node = gen)),
           q.progress \in {0, gen}, NodeIsKnown'
    PROVE  InOrder'
<1>1. /\ Current(c) /\ call[c].at = await /\ call[c] \in Call /\ call[c].way \in Way
      /\ call[c].token = gen /\ gen \in Nat /\ page \in PageType
  BY Working DEF Await, Call
<1>2. PICK k : /\ Becomes(c, k) /\ k # Idle
               /\ k.at = "orientation" /\ k.way = call[c].way /\ k.token = gen
  BY <1>1, GoesTo DEF Await
<1>3. OneAnswer'
  BY <1>1, <1>2, OneAnswerKept DEF InOrder
<1>4. /\ page'.rail.kind = "node" /\ page'.rail.of = gen /\ page'.ask
      /\ page'.orientation = 0 /\ SameLoad(page', q)
      /\ call[c].way = "upgrade" => page'.stage = page.stage
      /\ call[c].way # "upgrade" => page'.stage.of = gen
  <2> PICK p : p = page'
    OBVIOUS
  <2> QED
    BY <1>1, RenderedIs
<1>5. Settles \/ call[c].way = "match"
  BY <1>1, AtWork DEF InOrder, IsMatch
<1>6. page'.stage.kind = "content" => page'.stage.of = gen
  <2>1. CASE call[c].way = "upgrade"
    <3>1. Settles /\ ~ StaticIsDue
      BY <1>1, <1>5, <2>1, AtWork DEF InOrder, WillStage
    <3> QED
      BY <1>4, <2>1, <3>1 DEF Settles
  <2> QED
    BY <1>4, <2>1
<1>7. page'.node = gen \/ Awaits("node")'
  BY <1>4 DEF SameLoad
<1>8. page'.node \in {0, gen} /\ gen # 0
  <2>1. gen # 0
    BY <1>1, AtWork DEF InOrder
  <2>2. CASE call[c].way = "match"
    <3>1. ~ Awaits("node")'
      BY <1>1, <1>2, <2>2, AloneAtWork DEF InOrder
    <3> QED
      BY <1>7, <2>1, <3>1
  <2>3. CASE Settles
    BY <1>4, <2>1, <2>3 DEF Settles, SameLoad
  <2> QED
    BY <1>5, <2>2, <2>3
<1>9. Settles'
  BY <1>4, <1>6, <1>7, <1>8 DEF Settles, SameLoad
<1> QED
  BY <1>3, <1>7, <1>9 DEF InOrder

LEMMA BareNodeInOrder ==
    ASSUME PInv, InOrder, NEW c \in Calls, NodeHasNoTree(c)
    PROVE  InOrder'
<1>1. /\ Resumes(c, "node") /\ UNCHANGED <<gen, timer>> /\ NodeIsKnown'
      /\ Goes(c, "orientation", call[c].way)
  BY DEF NodeHasNoTree, Stays, Notes, NodeIsKnown
<1>2. call[c].token = gen /\ gen \in Nat /\ page \in PageType
  BY <1>1, Working DEF Await
<1> PICK q : q = NodeArrives(page, gen)
  OBVIOUS
<1>3. q \in PageType /\ q.stage = page.stage /\ q.node = gen /\ q.progress = 0
  BY <1>2, ArrivesIs
<1>4. page' = Rendered(q, gen, call[c].way)
  BY <1>2 DEF NodeHasNoTree
<1>5. q.progress \in {0, gen}
  BY <1>3
<1> QED
  BY <1>1, <1>3, <1>4, <1>5, RenderedInOrder

LEMMA ProgressInOrder ==
    ASSUME PInv, InOrder, NEW c \in Calls, ProgressArrives(c)
    PROVE  InOrder'
<1>1. /\ Resumes(c, "progress") /\ UNCHANGED <<gen, timer, outcome>>
      /\ Goes(c, "orientation", call[c].way)
  BY DEF ProgressArrives, Stays, IsWell
<1>2. /\ Current(c) /\ call[c].at = "progress" /\ call[c] \in Call /\ call[c].way \in Way
      /\ call[c].token = gen /\ gen \in Nat /\ page \in PageType
  BY <1>1, Working DEF Await, Call
<1> PICK q : q = [page EXCEPT !.progress = gen]
  OBVIOUS
<1>3. q \in PageType /\ q.stage = page.stage /\ q.node = page.node /\ q.progress = gen
  BY <1>2 DEF PageType
<1>4. page' = Rendered(q, gen, call[c].way)
  BY <1>2 DEF ProgressArrives
<1>5. PICK k : Becomes(c, k) /\ k # Idle /\ k.at = "orientation"
  BY <1>1, <1>2, GoesTo DEF Await
<1>6. Awaits("node") \/ page.node = gen
  BY <1>2 DEF InOrder, Awaits
<1>7. Awaits("node")' \/ page.node = gen
  BY <1>2, <1>5, <1>6, AwaitKept
<1>8. NodeIsKnown'
  BY <1>1, <1>2 DEF InOrder, NodeIsKnown, NoNodeYet, Awaits
<1> QED
  BY <1>1, <1>3, <1>4, <1>7, <1>8, RenderedInOrder

LEMMA OrientationInOrder ==
    ASSUME PInv, InOrder, NEW c \in Calls, OrientationArrives(c)
    PROVE  InOrder'
<1>1. /\ Resumes(c, "orientation") /\ UNCHANGED <<gen, outcome>> /\ Ends(c)
      /\ timer' \in {timer, gen}
  BY AfterTickIs DEF OrientationArrives, Stays, IsWell
<1>2. /\ Current(c) /\ call[c].at = "orientation" /\ call[c].token = gen
      /\ gen \in Nat /\ page \in PageType
  BY <1>1, Working DEF Await
<1>3. Becomes(c, Idle)
  BY <1>1, EndsTo
<1>4. OneAnswer'
  BY <1>1, <1>2, <1>3, OneAnswerKept DEF InOrder
<1>5. Settles /\ (StaticIsDue => WillStage(c))
  BY <1>2, AtWork DEF InOrder, IsMatch
<1>6. /\ Awaits("node") => Awaits("node")'
      /\ Awaits("progress") => Awaits("progress")'
      /\ Awaits("progress")' => Awaits("progress")
  BY <1>2, <1>3, AwaitKept, AwaitWas
<1>7. StaticIsDue' => StaticIsDue
  BY <1>3, StaticWas
<1>8. PICK o \in {0, gen} :
        page' = IF call[c].way = "static"
                  THEN Staged([page EXCEPT !.orientation = o], gen)
                  ELSE [page EXCEPT !.orientation = o]
  BY <1>2 DEF OrientationArrives, Nothing
<1>9. PICK q \in PageType :
        /\ page' = IF call[c].way = "static" THEN Staged(q, gen) ELSE q
        /\ q.stage = page.stage /\ q.rail = page.rail /\ (q.ask <=> page.ask)
        /\ q.orientation \in {0, gen} /\ SameLoad(q, page)
  BY <1>2, <1>8, ToldIs
<1>10. CASE call[c].way = "static"
  <2>1. /\ page'.stage.of = gen /\ page'.rail = page.rail
        /\ (page'.ask <=> page.ask) /\ page'.orientation \in {0, gen}
        /\ SameLoad(page', page)
    <3> PICK r : r = page'
      OBVIOUS
    <3>1. r = Staged(q, gen)
      BY <1>9, <1>10
    <3>2. q \in PageType /\ gen \in Nat
      BY <1>2, <1>9
    <3>3. /\ r.stage.of = gen /\ r.rail = q.rail
          /\ (r.ask <=> q.ask) /\ r.orientation = q.orientation /\ SameLoad(r, q)
      BY <3>1, <3>2, StagedIs
    <3> QED
      BY <1>9, <3>3 DEF SameLoad
  <2>2. page.rail.kind # "waiting"
    BY <1>2, <1>5, <1>10 DEF Settles, StaticIsDue, WillStage
  <2>3. Settles'
    BY <1>1, <1>5, <1>6, <2>1, <2>2 DEF Settles, SameLoad
  <2>4. NodeIsKnown'
    BY <1>1, <1>2, <1>3, <2>1, NoNodeKept DEF InOrder, SameLoad, IsMatch
  <2> QED
    BY <1>1, <1>4, <1>6, <2>1, <2>3, <2>4 DEF InOrder, SameLoad
<1>11. CASE call[c].way # "static"
  <2>1. page' = q
    BY <1>9, <1>11
  <2>2. ~ StaticIsDue /\ ~ StaticIsDue'
    BY <1>5, <1>7, <1>11 DEF WillStage
  <2>3. Settles'
    BY <1>1, <1>5, <1>6, <1>9, <2>1, <2>2 DEF Settles, SameLoad
  <2>4. NodeIsKnown'
    BY <1>1, <1>2, <1>3, <1>9, <2>1, NoNodeKept DEF InOrder, SameLoad, IsMatch
  <2> QED
    BY <1>1, <1>4, <1>6, <1>9, <2>1, <2>3, <2>4 DEF InOrder, SameLoad
<1> QED
  BY <1>10, <1>11

-----------------------------------------------------------------------------
(* The polls and the student leave the page in order.                       *)

LEMMA WaitingInOrder ==
    ASSUME PInv, InOrder, NEW c \in Calls, TickInProgress(c) \/ TickFails(c)
    PROVE  InOrder'
<1>1. /\ Resumes(c, "in_progress") \/ Resumes(c, "failed") \/ Resumes(c, "poll")
      /\ UNCHANGED <<gen, outcome>> /\ Ends(c) /\ timer' \in {timer, gen, 0}
      /\ page' = Waiting(page, call[c].token)
  BY AfterTickIs DEF TickInProgress, TickFails, Stays, IsWell, StillPolls, Nothing
<1>2. /\ Current(c) /\ call[c].at \in {"in_progress", "failed", "poll"}
      /\ call[c].token = gen /\ gen \in Nat /\ page \in PageType
  BY <1>1, Working DEF Await, Status
<1>3. Becomes(c, Idle)
  BY <1>1, EndsTo
<1>4. OneAnswer'
  BY <1>1, <1>2, <1>3, OneAnswerKept DEF InOrder
<1>5. Settles /\ ~ StaticIsDue
  BY <1>2, AtWork DEF InOrder, IsMatch, WillStage
<1>6. /\ Awaits("node") => Awaits("node")'
      /\ Awaits("progress")' => Awaits("progress")
  BY <1>2, <1>3, AwaitKept, AwaitWas
<1>7. ~ StaticIsDue'
  BY <1>3, <1>5, StaticWas
<1>8. /\ page'.stage.kind = "waiting" /\ page'.rail.kind = "waiting" /\ page'.rail.of = gen
      /\ ~ page'.ask /\ page'.orientation = page.orientation /\ SameLoad(page', page)
  <2> PICK q : q = page'
    OBVIOUS
  <2> QED
    BY <1>1, <1>2, WaitingIs
<1>9. Settles'
  BY <1>1, <1>5, <1>6, <1>7, <1>8 DEF Settles, SameLoad
<1>10. NodeIsKnown'
  BY <1>1, <1>2, <1>3, <1>8, NoNodeKept DEF InOrder, SameLoad, IsMatch
<1> QED
  BY <1>1, <1>4, <1>6, <1>8, <1>9, <1>10 DEF InOrder, SameLoad

LEMMA ReadyInOrder ==
    ASSUME PInv, InOrder, NEW c \in Calls, TickReady(c) \/ TickReadyBare(c)
    PROVE  InOrder'
<1>1. PICK way \in {"upgrade", "ready"} :
        /\ Resumes(c, "ready") /\ UNCHANGED <<gen, outcome>> /\ timer' = 0
        /\ Goes(c, "node", way)
        /\ \/ page' = Staged(NonInteractive(page, "live", call[c].token), call[c].token)
           \/ page' = page
  BY DEF TickReady, TickReadyBare, Stays, IsWell, Nothing
<1>2. /\ Current(c) /\ call[c].at = "ready" /\ call[c].token = gen
      /\ gen \in Nat /\ page \in PageType
  BY <1>1, Working DEF Await, Status
<1>3. PICK k : Becomes(c, k) /\ k # Idle /\ k.at = "node" /\ k.way = way /\ k.token = gen
  BY <1>1, <1>2, GoesTo DEF Await, Way, Status
<1>4. OneAnswer'
  BY <1>1, <1>2, <1>3, OneAnswerKept DEF InOrder
<1>5. Settles /\ ~ StaticIsDue
  BY <1>2, AtWork DEF InOrder, IsMatch, WillStage
<1>6. Awaits("node")'
  BY <1>3, AwaitBegun
<1>7. ~ StaticIsDue'
  BY <1>3, <1>5, StaticWas
<1>8. CASE page' = page
  <2>1. Settles'
    BY <1>1, <1>5, <1>6, <1>7, <1>8 DEF Settles
  <2>2. NodeIsKnown'
    BY <1>1, <1>2, <1>3, <1>8, NoNodeKept DEF InOrder, IsMatch
  <2> QED
    BY <1>4, <1>6, <2>1, <2>2 DEF InOrder
<1>9. CASE page' = Staged(NonInteractive(page, "live", call[c].token), call[c].token)
  <2> PICK q : q = NonInteractive(page, "live", gen)
    OBVIOUS
  <2>1. "live" \in Kind
    BY DEF Kind
  <2>2. /\ q \in PageType /\ q.rail.kind = "live" /\ q.rail.of = gen /\ ~ q.ask
        /\ q.node = 0 /\ q.progress = 0 /\ q.orientation = 0
    BY <1>2, <2>1, NoNodeIs
  <2> PICK r : r = page'
    OBVIOUS
  <2>3. r = Staged(q, gen)
    BY <1>2, <1>9
  <2>4. /\ r.stage.of = gen /\ r.rail = q.rail
        /\ (r.ask <=> q.ask) /\ r.orientation = q.orientation /\ SameLoad(r, q)
    BY <1>2, <2>2, <2>3, StagedIs
  <2>5. Settles'
    BY <1>1, <1>6, <2>2, <2>4 DEF Settles, SameLoad
  <2>6. page'.node = 0 /\ page'.progress = 0 /\ page'.rail.kind # "node"
    BY <2>2, <2>4 DEF SameLoad
  <2>7. NodeIsKnown'
    BY <1>1, <1>3, <2>6, NoNodeKept DEF InOrder
  <2> QED
    BY <1>4, <1>6, <2>5, <2>7 DEF InOrder
<1> QED
  BY <1>1, <1>8, <1>9

\* The node of a station cannot be had, and was not had by another poll.
LEMMA NoNodeInOrder ==
    ASSUME PInv, InOrder, NEW c \in Calls, UpgradeFails(c) \/ BareStationFails(c),
           ~ NodeIsInDoubt'
    PROVE  InOrder'
<1>1. /\ Resumes(c, "node") /\ UNCHANGED gen /\ Ends(c) /\ timer' \in {timer, gen}
      /\ call[c].way \in {"upgrade", "ready"} /\ "node" \notin outcome
      /\ outcome' = outcome \cup {"no node"}
      /\ \/ page' = page
         \/ page' = Staged(NonInteractive(page, "live", call[c].token), call[c].token)
  BY AfterTickIs DEF UpgradeFails, BareStationFails, Stays, Notes, NodeIsInDoubt
<1>2. /\ Current(c) /\ call[c].at = "node" /\ call[c].token = gen
      /\ gen \in Nat /\ page \in PageType
  BY <1>1, Working DEF Await
<1>3. Becomes(c, Idle)
  BY <1>1, EndsTo
<1>4. OneAnswer'
  BY <1>1, <1>2, <1>3, OneAnswerKept DEF InOrder
<1>5. Settles /\ ~ StaticIsDue /\ ~ Unread /\ gen # 0
  BY <1>1, <1>2, AtWork DEF InOrder, IsMatch, WillStage
<1>6. ~ StaticIsDue'
  BY <1>3, <1>5, StaticWas
<1>7. /\ page.node = 0 /\ page.progress = 0 /\ page.rail.kind # "node"
      /\ ~ Awaits("progress") /\ NoNodeYet
  BY <1>1, <1>5 DEF InOrder, NodeIsKnown, NoNodeYet, Settles
<1>8. ~ Awaits("progress")'
  BY <1>3, <1>7, AwaitWas
<1>9. CASE page' = page
  <2>1. Settles'
    BY <1>1, <1>5, <1>6, <1>7, <1>9 DEF Settles
  <2>2. NodeIsKnown'
    BY <1>1, <1>3, <1>7, <1>9, NoNodeKept DEF InOrder
  <2> QED
    BY <1>4, <1>8, <2>1, <2>2 DEF InOrder
<1>10. CASE page' = Staged(NonInteractive(page, "live", call[c].token), call[c].token)
  <2> PICK q : q = NonInteractive(page, "live", gen)
    OBVIOUS
  <2>1. "live" \in Kind
    BY DEF Kind
  <2>2. /\ q \in PageType /\ q.rail.kind = "live" /\ q.rail.of = gen /\ ~ q.ask
        /\ q.node = 0 /\ q.progress = 0 /\ q.orientation = 0
    BY <1>2, <2>1, NoNodeIs
  <2> PICK r : r = page'
    OBVIOUS
  <2>3. r = Staged(q, gen)
    BY <1>2, <1>10
  <2>4. /\ r.stage.of = gen /\ r.rail = q.rail
        /\ (r.ask <=> q.ask) /\ r.orientation = q.orientation /\ SameLoad(r, q)
    BY <1>2, <2>2, <2>3, StagedIs
  <2>5. Settles'
    BY <1>1, <1>6, <2>2, <2>4 DEF Settles, SameLoad
  <2>6. page'.node = 0 /\ page'.progress = 0 /\ page'.rail.kind # "node"
    BY <2>2, <2>4 DEF SameLoad
  <2>7. NodeIsKnown'
    BY <1>1, <1>3, <2>6, NoNodeKept DEF InOrder
  <2> QED
    BY <1>4, <1>8, <2>5, <2>7 DEF InOrder
<1> QED
  BY <1>1, <1>9, <1>10

LEMMA ButtonInOrder ==
    ASSUME PInv, InOrder, NEW c \in Calls, ButtonArrives(c), strayed' # gen'
    PROVE  InOrder'
<1>1. call[c].at = "ask" /\ UNCHANGED <<gen, timer, outcome>> /\ Ends(c)
  BY DEF ButtonArrives, Stays
<1>2. Becomes(c, Idle)
  BY <1>1, EndsTo
<1>3. OneAnswer'
  BY <1>1, <1>2, OneAnswerKept DEF InOrder
<1>4. CASE ~ IsCurrent(c)
  BY <1>1, <1>2, <1>3, <1>4, PageAlone DEF ButtonArrives
<1>5. CASE IsCurrent(c)
  <2>1. call[c].way = gen
    BY <1>1, <1>5 DEF ButtonArrives
  <2>2. Current(c)
    BY <1>1, <1>5 DEF IsCurrent, Current, Idle
  <2>3. call[c].way = gen /\ gen \in Nat /\ gen # 0
    BY <2>1, <2>2, Typed DEF InOrder, OneAnswer
  <2>4. PICK q \in PageType :
          /\ page' = Staged(RailRendered(q, gen), gen)
          /\ q.node = gen /\ q.progress = page.progress /\ q.orientation = page.orientation
    BY <1>5, <2>3, Typed DEF ButtonArrives, PageType
  <2> PICK r : r = RailRendered(q, gen)
    OBVIOUS
  <2>5. /\ r \in PageType /\ r.rail.kind = "node" /\ r.rail.of = gen /\ r.ask
        /\ r.orientation = q.orientation /\ SameLoad(r, q)
    BY <2>3, RailRenderedIs
  <2> PICK t : t = page'
    OBVIOUS
  <2>6. t = Staged(r, gen)
    BY <2>4
  <2>7. /\ t.stage.of = gen /\ t.rail = r.rail /\ (t.ask <=> r.ask)
        /\ t.orientation = r.orientation /\ SameLoad(t, r)
    BY <2>3, <2>5, <2>6, StagedIs
  <2>8. /\ page'.stage.of = gen /\ page'.rail.kind = "node" /\ page'.rail.of = gen /\ page'.ask
        /\ page'.node = gen /\ page'.progress = page.progress
        /\ page'.orientation = page.orientation
    BY <2>4, <2>5, <2>7 DEF SameLoad
  <2>9. Unread => Unread'
    BY <1>1, <1>2, UnreadKept DEF IsMatch
  <2>10. Settles => Settles'
    BY <1>1, <2>3, <2>8 DEF Settles
  <2>11. NodeIsKnown'
    BY <1>1, <2>2, <2>3 DEF InOrder, NodeIsKnown, NoNodeYet
  <2> QED
    BY <1>1, <1>3, <2>8, <2>9, <2>10, <2>11 DEF InOrder
<1> QED
  BY <1>4, <1>5

LEMMA PartInOrder ==
    ASSUME PInv, InOrder, OpensPart
    PROVE  InOrder'
<1>1. /\ UNCHANGED <<gen, timer, call, outcome>>
      /\ page.rail.kind = "node" /\ page.rail.of \in Nat
  BY Typed DEF OpensPart, Stays, IsWell, PageType, Shown
<1> PICK q : q = page'
  OBVIOUS
<1>2. q = Staged(page, page.rail.of) /\ page \in PageType
  BY Typed DEF OpensPart
<1>3. /\ q.stage.of = page.rail.of /\ q.rail = page.rail /\ (q.ask <=> page.ask)
      /\ q.orientation = page.orientation /\ SameLoad(q, page)
  BY <1>1, <1>2, StagedIs
<1>4. /\ Awaits("node")' <=> Awaits("node")
      /\ Awaits("progress")' <=> Awaits("progress")
      /\ Unread' <=> Unread
      /\ StaticIsDue' <=> StaticIsDue
      /\ OneAnswer' <=> OneAnswer
  BY <1>1 DEF Awaits, Unread, IsMatch, StaticIsDue, WillStage, OneAnswer, Current
<1>5. Settles => Settles'
  BY <1>1, <1>3, <1>4 DEF Settles, SameLoad
<1>6. NodeIsKnown'
  BY <1>1, <1>3, <1>4 DEF InOrder, NodeIsKnown, NoNodeYet, Current, SameLoad
<1> QED
  BY <1>1, <1>3, <1>4, <1>5, <1>6 DEF InOrder, SameLoad

LEMMA SubmitInOrder ==
    ASSUME PInv, Submit
    PROVE  InOrder'
<1>1. gen \in Nat /\ gen' = gen + 1 /\ timer' = 0
  BY Typed DEF Submit, Nothing
<1>2. PICK c \in Calls : call' = [call EXCEPT ![c] = At("query", gen + 1, "match", FALSE)]
  BY DEF Submit
<1> PICK k : k = At("query", gen + 1, "match", FALSE)
  OBVIOUS
<1>3. k.at = "query" /\ k.token = gen' /\ k.way = "match" /\ k \in Call
  BY <1>1 DEF At, Call, Await, Way
<1>4. call'[c] = k /\ Current(c)'
  BY <1>2, <1>3, Typed, CallIsNotIdle DEF Current, TypeOK
<1>5. ASSUME NEW d \in Calls, d # c
      PROVE  ~ Current(d)'
  <2>1. call'[d] = call[d] /\ (call[d] # Idle => call[d].token \in Nat /\ call[d].token <= gen)
    BY <1>2, <1>5, Typed DEF TypeOK, PInv, NothingIsAhead, Call
  <2> QED
    BY <1>1, <2>1 DEF Current
<1>6. Unread'
  BY <1>3, <1>4 DEF Unread, IsMatch
<1>7. OneAnswer'
  <2>1. timer' = 0 /\ timer' \in {0, gen'} /\ gen' # 0
    BY <1>1
  <2>2. \A d \in Calls : Current(d)' => d = c
    BY <1>5
  <2> QED
    BY <1>3, <1>4, <2>1, <2>2 DEF OneAnswer
<1>8. ~ Awaits("progress")'
  BY <1>3, <1>4, <1>5 DEF Awaits
<1>9. page'.node # gen'
  <2>1. page'.node = page.node
    BY Clears, Typed DEF Submit
  <2>2. page.node \in Nat /\ page.node <= gen
    BY Typed DEF PInv, NothingIsAhead
  <2> QED
    BY <1>1, <2>1, <2>2
<1>10. NodeIsKnown'
  BY <1>3, <1>4, <1>5, <1>6, <1>8, <1>9 DEF NodeIsKnown, NoNodeYet
<1> QED
  BY <1>6, <1>7, <1>8, <1>10 DEF InOrder

LEMMA SameInOrder ==
    ASSUME InOrder, StationEnds \/ UNCHANGED vars
    PROVE  InOrder'
<1>1. UNCHANGED <<gen, page, timer, call, outcome>>
  BY DEF StationEnds, IsWell, vars
<1>2. /\ Awaits("node")' <=> Awaits("node")
      /\ Awaits("progress")' <=> Awaits("progress")
      /\ Unread' <=> Unread
      /\ StaticIsDue' <=> StaticIsDue
      /\ OneAnswer' <=> OneAnswer
  BY <1>1 DEF Awaits, Unread, IsMatch, StaticIsDue, WillStage, OneAnswer, Current
<1>3. NodeIsKnown'
  BY <1>1, <1>2 DEF InOrder, NodeIsKnown, NoNodeYet, Current
<1> QED
  BY <1>1, <1>2, <1>3 DEF InOrder, Settles

-----------------------------------------------------------------------------

LEMMA InitInOrder == Init => SInv
<1> SUFFICES ASSUME Init PROVE InOrder
  BY DEF SInv
<1>1. gen = 0 /\ timer = 0 /\ \A c \in Calls : ~ Current(c)
  BY DEF Init, Nothing, Current
<1>2. OneAnswer /\ ~ Awaits("progress") /\ ~ StaticIsDue
  BY <1>1 DEF OneAnswer, Awaits, StaticIsDue
<1>3. Settles
  BY <1>1, <1>2 DEF Init, Nothing, Show, Settles
<1>4. NodeIsKnown
  BY <1>1, <1>2 DEF Init, Nothing, Show, NodeIsKnown, NoNodeYet
<1> QED
  BY <1>2, <1>3, <1>4 DEF InOrder

LEMMA NextInOrder == PInv /\ SInv /\ [Next]_vars => SInv'
<1> SUFFICES ASSUME PInv, SInv, [Next]_vars, IsCalm' PROVE InOrder'
  BY DEF SInv
<1>1. CASE Submit
  BY <1>1, SubmitInOrder
<1>2. CASE Tick \/ AsksButton
  <2>1. UNCHANGED <<gen, outcome, strayed>>
    BY <1>2 DEF Tick, AsksButton, IsWell, Stays
  <2> QED
    BY <1>2, <2>1, BeginsInOrder DEF SInv, IsCalm, NodeIsInDoubt
<1>3. CASE OpensPart
  <2>1. UNCHANGED <<gen, outcome, strayed>>
    BY <1>3 DEF OpensPart, IsWell, Stays
  <2> QED
    BY <1>3, <2>1, PartInOrder DEF SInv, IsCalm, NodeIsInDoubt
<1>4. CASE StationEnds \/ UNCHANGED vars
  <2>1. UNCHANGED <<gen, outcome, strayed>>
    BY <1>4 DEF StationEnds, IsWell, vars
  <2> QED
    BY <1>4, <2>1, SameInOrder DEF SInv, IsCalm, NodeIsInDoubt
<1>5. ASSUME NEW c \in Calls, Answered(c)
      PROVE  InOrder'
  <2>1. ~ QueryFails(c) /\ ~ MatchedNodeFails(c)
    BY DEF QueryFails, MatchedNodeFails, Notes, IsCalm
  <2>2. gen' = gen /\ outcome \subseteq outcome' /\ (strayed' = strayed \/ strayed' = gen')
    <3>1. CASE ButtonArrives(c)
      BY <3>1 DEF ButtonArrives, Stays
    <3>2. CASE QueryIsPending(c)
      BY <3>2 DEF QueryIsPending, IsWell
    <3>3. CASE ~ ButtonArrives(c) /\ ~ QueryIsPending(c)
      BY <1>5, <2>1, <3>3
         DEF Answered, IsStale, QueryIsInteractive, QueryIsStatic, NodeHasTree, NodeHasNoTree,
             UpgradeFails, BareStationFails, ProgressArrives, OrientationArrives,
             PollIsAnswered, TickInProgress, TickFails, TickReady, TickReadyBare, ButtonFails,
             Stays, IsWell, Notes
    <3> QED
      BY <3>1, <3>2, <3>3
  <2>3. InOrder
    BY <2>2 DEF SInv, IsCalm, NodeIsInDoubt
  <2>4. ~ NodeIsInDoubt' /\ strayed' # gen'
    BY DEF IsCalm
  <2> QED
    BY <1>5, <2>1, <2>3, <2>4, StaleInOrder, InteractiveInOrder, StaticInOrder, PendingInOrder,
       TreeInOrder, BareNodeInOrder, NoNodeInOrder, ProgressInOrder, OrientationInOrder,
       PollInOrder, WaitingInOrder, ReadyInOrder, ButtonInOrder
       DEF Answered
<1> QED
  BY <1>1, <1>2, <1>3, <1>4, <1>5 DEF Next

LEMMA SettledAgrees == PInv /\ SInv => SettledPageAgrees
<1> SUFFICES ASSUME PInv, SInv, page.stage.kind = "content", ~ InFlight(gen), IsCalm
             PROVE  /\ page.rail.kind = "node" <=> page.node # Nothing
                    /\ page.ask <=> page.node # Nothing
                    /\ page.rail.of = page.stage.of
                    /\ page.node \in {Nothing, page.stage.of}
                    /\ page.progress \in {Nothing, page.node}
                    /\ page.orientation \in {Nothing, page.stage.of}
  BY DEF SettledPageAgrees, IsCalm
<1>1. \A c \in Calls : ~ Current(c)
  BY DEF InFlight, Current
<1>2. ~ Awaits("node") /\ ~ Awaits("progress") /\ ~ StaticIsDue /\ ~ Unread
  BY <1>1 DEF Awaits, StaticIsDue, Unread, IsMatch
<1>3. Settles
  BY <1>2 DEF SInv, InOrder
<1> QED
  BY <1>2, <1>3 DEF Settles, Nothing

\* Once nothing of the last search is in flight and the stage has content, what
\* the page shows is of one search, for any number of searches, polls and buttons
\* under way and in whatever order their answers come, whatever went wrong in
\* earlier searches; but not of a search that was not answered, whose node is in
\* doubt, or that a button of an earlier page strayed into (app.js, orientation.js).
THEOREM SettledPagesAgree == Spec => []SettledPageAgrees
<1>1. Spec => []SInv
  <2>1. Init => SInv
    BY InitInOrder
  <2>2. PInv /\ SInv /\ [Next]_vars => SInv'
    BY NextInOrder
  <2> QED
    BY <2>1, <2>2, Invariance, PTL DEF Spec
<1> QED
  BY <1>1, Invariance, SettledAgrees, PTL DEF Spec

=============================================================================
