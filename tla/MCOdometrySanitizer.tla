------------------------ MODULE MCOdometrySanitizer ------------------------
(* A small instance of OdometrySanitizer. *)
EXTENDS OdometrySanitizer

MCPositions == 0 .. 3
=============================================================================
