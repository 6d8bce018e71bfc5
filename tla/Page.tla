-------------------------------- MODULE Page --------------------------------
(***************************************************************************)
(* The page of a student (cmd/master-web/web/js): a stage, a rail, an      *)
(* orientation, and asynchronous functions that fetch and then write to    *)
(* them.  A function runs alone up to its next await; between its awaits   *)
(* others run.  Every search begins a generation, its token, and an answer *)
(* to a function of an older generation is dropped.                        *)
(*                                                                         *)
(* What the page shows is named by the search it answers.  A call is one   *)
(* such function, at the await where it stands.  The router's station of a *)
(* search, and the answers, are the environment.  Wording, the status line *)
(* and the estimated profile are left out.                                 *)
(***************************************************************************)
EXTENDS Integers

CONSTANTS
    MaxQueries,   \* bound: searches
    Calls         \* bound: functions under way at a time

ASSUME PageConstants == MaxQueries \in Nat

Searches == 1..MaxQueries
Nothing == 0

VARIABLES
    gen,        \* requestGeneration
    page,       \* what is shown, and the state the handlers use
    timer,      \* pollTimer: the search it polls for
    call,       \* the functions under way
    station,    \* the station of this search, in the router
    gaveUp,     \* history: a poll of this search was answered with a failure
    outcome,    \* history: how requests for the answer of this search, and for
                \* its node, have ended
    strayed     \* history: the last search in which a button arrived that was
                \* asked for from the page of an earlier one

vars == <<gen, page, timer, call, station, gaveUp, outcome, strayed>>

\* The search was not answered, or not with the node that matched it; a node
\* was had, of a match or of a station; a poll did not get that of its station.
Outcome == {"no answer", "node", "no node"}

Show(kind, g) == [kind |-> kind, of |-> g]

Idle == [at |-> "idle"]

\* Where a call stands, its token, what it is for (of a button, whose node it
\* is for), and whether pollStation waits for it to start the interval.
At(await, token, way, first) == [at |-> await, token |-> token, way |-> way, first |-> first]

Init ==
    /\ gen = 0
    /\ page = [stage |-> Show("empty", 0), rail |-> Show("empty", 0), node |-> Nothing,
               progress |-> Nothing, orientation |-> Nothing, ask |-> FALSE]
    /\ timer = Nothing
    /\ call = [c \in Calls |-> Idle]
    /\ station = "none"
    /\ gaveUp = FALSE
    /\ outcome = {}
    /\ strayed = Nothing

-----------------------------------------------------------------------------
(* What the functions of the page write.                                    *)

Cleared(p) == [p EXCEPT !.orientation = Nothing]

Staged(p, g) == [p EXCEPT !.stage = Show("content", g)]

\* showNonInteractiveRail.
NonInteractive(p, kind, g) ==
    [Cleared(p) EXCEPT !.node = Nothing, !.progress = Nothing, !.ask = FALSE,
                       !.rail = Show(kind, g)]

\* showWaiting: the node and its orientation are left where they are.
Waiting(p, g) ==
    [p EXCEPT !.stage = Show("waiting", g), !.rail = Show("waiting", g), !.ask = FALSE]

\* A pending answer.
Pending(p, g) == Waiting([Cleared(p) EXCEPT !.node = Nothing, !.progress = Nothing], g)

\* loadInteractiveNode and the upgrade, up to loadProgressForNode's fetch.
NodeArrives(p, g) == [p EXCEPT !.node = g, !.progress = Nothing]

\* renderRail.
RailRendered(p, g) == [p EXCEPT !.rail = Show("node", g), !.ask = TRUE]

\* After the progress: the rail, the stage unless it is there already, and the
\* place for the orientation.
Rendered(p, g, way) ==
    Cleared(IF way = "upgrade" THEN RailRendered(p, g) ELSE Staged(RailRendered(p, g), g))

-----------------------------------------------------------------------------
(* Calls.                                                                   *)

\* Mutant of IsCurrent: the token is not looked at.
IsCurrentAlways(c) == TRUE

IsCurrent(c) == call[c].token = gen

Goes(c, await, way) == call' = [call EXCEPT ![c].at = await, ![c].way = way]

Ends(c) == call' = [call EXCEPT ![c] = Idle]

\* Once the first tick is over the interval starts, whatever the tick found.
AfterTick(c, t) == IF call[c].first THEN gen ELSE t

Stays == UNCHANGED <<gen, station>>
IsWell == UNCHANGED <<gaveUp, outcome, strayed>>
Notes(o) == outcome' = outcome \cup {o} /\ UNCHANGED <<gaveUp, strayed>>

\* Submit.  What is shown stays until there is an answer.
Submit ==
    /\ gen < MaxQueries
    /\ \E c \in Calls :
         /\ call[c] = Idle
         /\ call' = [call EXCEPT ![c] = At("query", gen + 1, "match", FALSE)]
    /\ gen' = gen + 1
    /\ timer' = Nothing
    /\ page' = Cleared(page)
    /\ station' = "none"
    /\ gaveUp' = FALSE
    /\ outcome' = {}
    /\ UNCHANGED strayed

\* An answer, of any kind, to a function of an older search.
IsStale(c) ==
    /\ call[c].at \notin {"idle", "ask"}
    /\ ~ IsCurrent(c)
    /\ Ends(c)
    /\ UNCHANGED <<page, timer>> /\ Stays /\ IsWell

Resumes(c, await) == call[c].at = await /\ IsCurrent(c)

-----------------------------------------------------------------------------
(* The answer to a search.                                                  *)

QueryIsInteractive(c) ==
    /\ Resumes(c, "query")
    /\ Goes(c, "node", "match")
    /\ UNCHANGED <<page, timer>> /\ Stays /\ IsWell

\* The orientation comes before the stage.
QueryIsStatic(c) ==
    /\ Resumes(c, "query")
    /\ \E kind \in {"live", "static"} : page' = NonInteractive(page, kind, call[c].token)
    /\ Goes(c, "orientation", "static")
    /\ UNCHANGED timer /\ Stays /\ IsWell

QueryIsPending(c) ==
    /\ Resumes(c, "query")
    /\ page' = Pending(page, call[c].token)
    /\ timer' = Nothing
    /\ call' = [call EXCEPT ![c] = At("poll", call[c].token, "ready", TRUE)]
    /\ station' = "in_progress"
    /\ UNCHANGED gen /\ IsWell

\* The page stays as it was, with what was still loading for the search before.
QueryFails(c) ==
    /\ Resumes(c, "query")
    /\ Ends(c)
    /\ UNCHANGED <<page, timer>> /\ Stays /\ Notes("no answer")

-----------------------------------------------------------------------------
(* Loading a node: node, progress if it has a tree, orientation.            *)

NodeHasTree(c) ==
    /\ Resumes(c, "node")
    /\ page' = NodeArrives(page, call[c].token)
    /\ Goes(c, "progress", call[c].way)
    /\ UNCHANGED timer /\ Stays /\ Notes("node")

NodeHasNoTree(c) ==
    /\ Resumes(c, "node")
    /\ page' = Rendered(NodeArrives(page, call[c].token), call[c].token, call[c].way)
    /\ Goes(c, "orientation", call[c].way)
    /\ UNCHANGED timer /\ Stays /\ Notes("node")

\* A matched node that cannot be had leaves the page as it was.
MatchedNodeFails(c) ==
    /\ Resumes(c, "node")
    /\ call[c].way = "match"
    /\ Ends(c)
    /\ UNCHANGED <<page, timer>> /\ Stays /\ Notes("no answer")

\* The usual end of a live station: its content is shown, its node is not in the
\* registry, and the rail without buttons is kept.
UpgradeFails(c) ==
    /\ Resumes(c, "node")
    /\ call[c].way = "upgrade"
    /\ timer' = AfterTick(c, timer)
    /\ Ends(c)
    /\ UNCHANGED page /\ Stays /\ Notes("no node")

\* A station without content whose node cannot be had is shown as its message.
BareStationFails(c) ==
    /\ Resumes(c, "node")
    /\ call[c].way = "ready"
    /\ page' = Staged(NonInteractive(page, "live", call[c].token), call[c].token)
    /\ timer' = AfterTick(c, timer)
    /\ Ends(c)
    /\ Stays /\ Notes("no node")

\* A progress that cannot be had is replaced by an empty one.
ProgressArrives(c) ==
    /\ Resumes(c, "progress")
    /\ page' = Rendered([page EXCEPT !.progress = call[c].token], call[c].token, call[c].way)
    /\ Goes(c, "orientation", call[c].way)
    /\ UNCHANGED timer /\ Stays /\ IsWell

\* The orientation may have nothing to say, or fail.
OrientationArrives(c) ==
    /\ Resumes(c, "orientation")
    /\ \E o \in {Nothing, call[c].token} :
         LET told == [page EXCEPT !.orientation = o]
         IN page' = IF call[c].way = "static" THEN Staged(told, call[c].token) ELSE told
    /\ timer' = AfterTick(c, timer)
    /\ Ends(c)
    /\ Stays /\ IsWell

-----------------------------------------------------------------------------
(* Polling.                                                                 *)

\* The interval fires, whether or not earlier ticks are answered.
Tick ==
    /\ timer # Nothing
    /\ \E c \in Calls :
         /\ call[c] = Idle
         /\ call' = [call EXCEPT ![c] = At("poll", timer, "ready", FALSE)]
    /\ UNCHANGED <<page, timer>> /\ Stays /\ IsWell

\* The router answers the poll, and tries a failed station again; the answer
\* is on its way.
PollIsAnswered(c) ==
    /\ Resumes(c, "poll")
    /\ \E status \in IF station = "failed" THEN {"failed", "ready"} ELSE {station} :
         /\ station' = status
         /\ call' = [call EXCEPT ![c].at = status]
    /\ UNCHANGED <<gen, page, timer>> /\ IsWell

\* Mutant of StillPolls: a station in progress ends the polling.
StillPollsNoMore(c) == AfterTick(c, Nothing)

StillPolls(c) == AfterTick(c, timer)

TickInProgress(c) ==
    /\ Resumes(c, "in_progress")
    /\ page' = Waiting(page, call[c].token)
    /\ timer' = StillPolls(c)
    /\ Ends(c)
    /\ Stays /\ IsWell

\* A failed station, or no answer: the poll stops, and the page waits on.
TickFails(c) ==
    /\ Resumes(c, "failed") \/ Resumes(c, "poll")
    /\ page' = Waiting(page, call[c].token)
    /\ timer' = AfterTick(c, Nothing)
    /\ Ends(c)
    /\ gaveUp' = TRUE
    /\ UNCHANGED <<outcome, strayed>> /\ Stays

\* Ready with content: the stage at once, and the rail if the node has one.
TickReady(c) ==
    /\ Resumes(c, "ready")
    /\ page' = Staged(NonInteractive(page, "live", call[c].token), call[c].token)
    /\ timer' = Nothing
    /\ Goes(c, "node", "upgrade")
    /\ Stays /\ IsWell

\* Ready with a node and no content.
TickReadyBare(c) ==
    /\ Resumes(c, "ready")
    /\ timer' = Nothing
    /\ Goes(c, "node", "ready")
    /\ UNCHANGED page /\ Stays /\ IsWell

StationEnds ==
    /\ station = "in_progress"
    /\ station' \in {"ready", "failed"}
    /\ UNCHANGED <<gen, page, timer, call>> /\ IsWell

-----------------------------------------------------------------------------
(* The student uses the rail.                                               *)

\* A subtopic or a button: its handler needs a node, not that of the rail.
OpensPart ==
    /\ page.rail.kind = "node"
    /\ page.node # Nothing
    /\ page' = Staged(page, page.rail.of)
    /\ UNCHANGED <<timer, call>> /\ Stays /\ IsWell

\* "Generar boton en vivo" for the node at hand; the token is today's.
AsksButton ==
    /\ page.ask
    /\ page.node # Nothing
    /\ \A c \in Calls : call[c].at # "ask"
    /\ \E c \in Calls :
         /\ call[c] = Idle
         /\ call' = [call EXCEPT ![c] = At("ask", gen, page.node, FALSE)]
    /\ UNCHANGED <<page, timer>> /\ Stays /\ IsWell

ButtonArrives(c) ==
    /\ call[c].at = "ask"
    /\ IF IsCurrent(c)
         THEN /\ page' = Staged(RailRendered([page EXCEPT !.node = call[c].way], call[c].way),
                                call[c].way)
              /\ strayed' = IF call[c].way # gen THEN gen ELSE strayed
         ELSE UNCHANGED <<page, strayed>>
    /\ Ends(c)
    /\ UNCHANGED <<timer, gaveUp, outcome>> /\ Stays

ButtonFails(c) ==
    /\ call[c].at = "ask"
    /\ Ends(c)
    /\ UNCHANGED <<page, timer>> /\ Stays /\ IsWell

-----------------------------------------------------------------------------

Answered(c) ==
    \/ IsStale(c)
    \/ QueryIsInteractive(c) \/ QueryIsStatic(c) \/ QueryIsPending(c) \/ QueryFails(c)
    \/ NodeHasTree(c) \/ NodeHasNoTree(c)
    \/ MatchedNodeFails(c) \/ UpgradeFails(c) \/ BareStationFails(c)
    \/ ProgressArrives(c) \/ OrientationArrives(c)
    \/ PollIsAnswered(c)
    \/ TickInProgress(c) \/ TickFails(c) \/ TickReady(c) \/ TickReadyBare(c)
    \/ ButtonArrives(c) \/ ButtonFails(c)

Next ==
    \/ Submit
    \/ Tick
    \/ \E c \in Calls : Answered(c)
    \/ StationEnds
    \/ OpensPart
    \/ AsksButton

Spec == Init /\ [][Next]_vars

\* The browser runs what is due, requests end, and so do generations.
FairSpec ==
    /\ Spec
    /\ WF_vars(Tick)
    /\ \A c \in Calls : WF_vars(Answered(c))
    /\ WF_vars(StationEnds)

-----------------------------------------------------------------------------
(* Properties.                                                              *)

\* What the stage shows never goes back to an earlier search, in whatever order
\* the answers come (app.js isCurrent; verify/out/README.md:32), except for a
\* button that was asked for from the earlier search's page after the new one
\* began: it has the new token (app.js:265).
NeverBackToAnOlderSearch ==
    [][page'.stage.of < page.stage.of => strayed' # Nothing]_vars

InFlight(g) == \E c \in Calls : call[c] # Idle /\ call[c].token = g

\* One poll of this search had the node of the station, another did not: the
\* first may be about to render it when the second, which found the station
\* ready as well, has taken it from the page (app.js:130-164).
NodeIsInDoubt == {"node", "no node"} \subseteq outcome

\* Once nothing is in flight and the stage has content, what the page shows is
\* of one search: a rail with buttons is that of the node its buttons act on,
\* and the progress and the orientation are of what the stage shows (app.js,
\* orientation.js).  It is so after each search for itself, but for one that was
\* not answered or whose matched node could not be had (the page is then a mix of
\* what the search before had got to), one whose node is in doubt, and one in
\* which a button of an earlier page arrived.  It says nothing of a stage that
\* waits, as after a late in_progress has overwritten the content (app.js:184).
SettledPageAgrees ==
    /\ page.stage.kind = "content" /\ ~ InFlight(gen)
    /\ "no answer" \notin outcome /\ ~ NodeIsInDoubt /\ strayed # gen
    =>
      /\ page.rail.kind = "node" <=> page.node # Nothing
      /\ page.ask <=> page.node # Nothing
      /\ page.rail.of = page.stage.of
      /\ page.node \in {Nothing, page.stage.of}
      /\ page.progress \in {Nothing, page.node}
      /\ page.orientation \in {Nothing, page.stage.of}

\* A search that was answered with a station gets it onto the stage, unless the
\* student searches anew or a poll fails (app.js pollStation, setInterval).
StationIsShown ==
    \A g \in Searches :
      gen = g /\ station = "in_progress" ~>
        gen # g \/ page.stage = Show("content", g) \/ gaveUp

\* While the page says that it keeps asking, it does: the interval runs or an
\* answer is on its way (ui.js:156).
WaitingIsPolled ==
    page.stage.kind = "waiting" =>
      timer = page.stage.of \/ InFlight(gen)

=============================================================================
