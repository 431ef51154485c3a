------------------------------ MODULE DeviceLife ------------------------------
(***************************************************************************)
(* What the directory promises the holder of a device: a family is started *)
(* once and ends once; at any time at most two of its credentials are      *)
(* accepted, the newest and the one it replaced; exchanging one for the    *)
(* next is the only thing that makes another accepted; and what is refused *)
(* once is refused for good.  No clock, no store, no restart: those are    *)
(* how the directory keeps the promise, and must not show.                 *)
(***************************************************************************)
EXTENDS Naturals

CONSTANT Device

VARIABLES
  life,      \* "unborn", "live" or "ended"
  newest,    \* the last credential issued; 0 unless live
  accepted   \* the credentials that would get a session now

vars == <<life, newest, accepted>>

Init ==
  /\ life = [d \in Device |-> "unborn"]
  /\ newest = [d \in Device |-> 0]
  /\ accepted = [d \in Device |-> {}]

Stays(d) ==
  life'[d] = life[d] /\ newest'[d] = newest[d] /\ accepted'[d] = accepted[d]

Starts(d) ==
  life[d] = "unborn" /\ life'[d] = "live" /\ newest'[d] = 1 /\ accepted'[d] = {1}

(* The newest may be presented once more; one presented for the second time *)
(* leaves nothing but its successor.                                        *)
Exchanged(d) ==
  /\ life[d] = "live" /\ life'[d] = "live"
  /\ newest'[d] = newest[d] + 1
  /\ \E n \in accepted[d] :
       accepted'[d] = IF n = newest[d] THEN {n, n + 1} ELSE {newest[d] + 1}

(* The one that was replaced is not accepted for ever. *)
Lapses(d) ==
  /\ life[d] = "live" /\ life'[d] = "live" /\ newest'[d] = newest[d]
  /\ accepted'[d] = {newest[d]}

Ends(d) ==
  /\ life[d] # "ended" /\ life'[d] = "ended"
  /\ newest'[d] = 0 /\ accepted'[d] = {}

(* One request may start a family and end others; a tick may end several. *)
Next ==
  \A d \in Device : Stays(d) \/ Starts(d) \/ Exchanged(d) \/ Lapses(d) \/ Ends(d)

Spec == Init /\ [][Next]_vars
=============================================================================
