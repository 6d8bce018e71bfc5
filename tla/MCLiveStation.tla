--------------------------- MODULE MCLiveStation ---------------------------
(***************************************************************************)
(* Instances of LiveStation for TLC: two queries, by two students, each    *)
(* minting its own station.                                                *)
(***************************************************************************)
EXTENDS LiveStationProps

CONSTANTS s1, s2, ana, luis

\* One station per student.
MCOwner == [s \in Stations |-> IF s = s1 THEN ana ELSE luis]


=============================================================================
