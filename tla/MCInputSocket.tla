--------------------------- MODULE MCInputSocket ---------------------------
(* InputSocket for TLC. *)
EXTENDS InputSocket
=============================================================================
