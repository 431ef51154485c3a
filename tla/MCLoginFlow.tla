---------------------------- MODULE MCLoginFlow ----------------------------
(* Small instances of LoginFlow for TLC. *)
EXTENDS LoginFlow, TLC

(* Device ids are random, and workers and windows are any. *)
Alike == Permutations(Device) \cup Permutations(Slot) \cup Permutations(Window)
=============================================================================
