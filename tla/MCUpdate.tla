------------------------------- MODULE MCUpdate -------------------------------
(* Small instances of Update for TLC: three programs, and a file that only the *)
(* new release has, placed between them.                                       *)
EXTENDS Update

FourFiles == <<"host", "fresh", "service", "client">>
=============================================================================
