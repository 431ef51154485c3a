---------------------------- MODULE MCVideoStream ----------------------------
(* Small instances of VideoStream for TLC; faults and bounds are in the .cfg files. *)
EXTENDS VideoStream
=============================================================================
