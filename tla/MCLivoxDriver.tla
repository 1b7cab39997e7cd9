---------------------------- MODULE MCLivoxDriver ----------------------------
(* LivoxDriver for TLC. *)
EXTENDS LivoxDriver

\* Two of the four LivoxLidarConfigBits.
MCOptions == {"dataType", "blindSpot"}
=============================================================================
