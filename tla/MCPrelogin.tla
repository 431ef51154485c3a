----------------------------- MODULE MCPrelogin -----------------------------
(* Small instances of Prelogin for TLC. *)
EXTENDS Prelogin
=============================================================================
