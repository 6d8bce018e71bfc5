--------------------------- MODULE StationPromise ---------------------------
(***************************************************************************)
(* What the router promises about a station, whatever the ledger forgets:  *)
(* one generation at a time, and none once a generation has published the  *)
(* station's node; so each doubt yields at most one live node, ever.       *)
(*                                                                         *)
(* This is the abstract specification LiveStation implements; it has no    *)
(* ledger, no clock, no records and no messages.                           *)
(***************************************************************************)
CONSTANT Stations

VARIABLES
    running,     \* stations being generated
    published    \* stations whose node was published

vars == <<running, published>>

Init ==
    /\ running = {}
    /\ published = {}

Start(s) ==
    /\ s \notin running
    /\ s \notin published
    /\ running' = running \cup {s}
    /\ UNCHANGED published

Publish(s) ==
    /\ s \in running
    /\ running' = running \ {s}
    /\ published' = published \cup {s}

GiveUp(s) ==
    /\ s \in running
    /\ running' = running \ {s}
    /\ UNCHANGED published

Next == \E s \in Stations : Start(s) \/ Publish(s) \/ GiveUp(s)

Spec == Init /\ [][Next]_vars

=============================================================================
