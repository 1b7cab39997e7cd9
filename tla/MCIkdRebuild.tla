---------------------------- MODULE MCIkdRebuild ----------------------------
(* A small instance of IkdRebuild. *)
EXTENDS IkdRebuild
=============================================================================
