----------------------------- MODULE MCDirectory -----------------------------
(* Small instances of Directory for TLC. *)
EXTENDS Directory, TLC

(* Values of these sets are random in the program: any two are alike. *)
Alike == Permutations(Device) \cup Permutations(Token)
         \cup Permutations(HostId) \cup Permutations(HostToken)
=============================================================================
