-------------------------- MODULE MCRtkLocalization --------------------------
(* RtkLocalization with two positions in two UTM zones: the zone the user may
   force reaches only the second. *)
EXTENDS RtkLocalization

MCPositions == {1, 2}
MCOdomPoses == {3}
MCZones == {3}
=============================================================================
