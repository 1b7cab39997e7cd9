------------------------------ MODULE MCFastLio ------------------------------
(* Point clouds for model-checking FastLio. *)
EXTENDS FastLio

\* Without point offsets, enough points for a registration but not for the
\* first map; a full scan.
MCClouds == {[offset |-> 0, size |-> 5], [offset |-> 1, size |-> 6]}
=============================================================================
