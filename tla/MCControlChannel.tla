-------------------------- MODULE MCControlChannel --------------------------
(* Small instances of ControlChannel for TLC. *)
EXTENDS ControlChannel
=============================================================================
