----------------------------- MODULE MCRosFilter -----------------------------
(* RosFilter for TLC. *)
EXTENDS RosFilter, TLC

TopicSymmetry == Permutations(Topics)
=============================================================================
