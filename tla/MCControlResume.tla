--------------------------- MODULE MCControlResume ---------------------------
(* Small instances of ControlResume for TLC. *)
EXTENDS ControlResume
=============================================================================
