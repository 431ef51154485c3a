---------------------------- MODULE OrderedStream ----------------------------
(***************************************************************************)
(* What the control protocol is promised by the channel under it: the      *)
(* messages of an end reach the application of the other in order, each    *)
(* once and none left out, except that a repair of the channel gives up    *)
(* what was said before it and not yet heard.  No datagrams, no sequence   *)
(* numbers, no acknowledgements.                                           *)
(***************************************************************************)
EXTENDS Naturals

CONSTANT Speaker

VARIABLES
  said,      \* how many messages the application of an end has handed over
  heard,     \* the last of them the application of the other end was given
  given_up   \* those up to here may be left out

vars == <<said, heard, given_up>>

Init ==
  /\ said = [e \in Speaker |-> 0]
  /\ heard = [e \in Speaker |-> 0]
  /\ given_up = [e \in Speaker |-> 0]

Say(e) ==
  said' = [said EXCEPT ![e] = @ + 1] /\ UNCHANGED <<heard, given_up>>

Hear(e) ==
  /\ \E m \in (heard[e] + 1) .. said[e] :
       /\ m = heard[e] + 1 \/ m - 1 <= given_up[e]
       /\ heard' = [heard EXCEPT ![e] = m]
  /\ UNCHANGED <<said, given_up>>

GiveUp(e) ==
  given_up' = [given_up EXCEPT ![e] = said[e]] /\ UNCHANGED <<said, heard>>

Next == \E e \in Speaker : Say(e) \/ Hear(e) \/ GiveUp(e)

Spec == Init /\ [][Next]_vars
=============================================================================
