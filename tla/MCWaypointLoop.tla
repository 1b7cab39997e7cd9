--------------------------- MODULE MCWaypointLoop ---------------------------
(* WaypointLoop for TLC. *)
EXTENDS WaypointLoop

MCNavIds == 1 .. 3
MCTaskOutcomes == BOOLEAN
=============================================================================
