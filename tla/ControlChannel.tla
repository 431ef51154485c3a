---------------------------- MODULE ControlChannel ----------------------------
(***************************************************************************)
(* The reliable control channel over the media socket                      *)
(* (udp_control_channel.cpp): whole messages cut into fragments, the first *)
(* of the queue under way until it is acknowledged, what is missing asked  *)
(* for again; the probe that asks the other end whether it still answers;  *)
(* and re-keying, which starts both directions over on new stream ids.     *)
(* The two ends are alike; datagrams are lost, repeated and reordered.     *)
(*                                                                         *)
(* A lock of the channel covers every operation but Close, so operations   *)
(* are steps, except ResumeWith: it looks whether the channel was shut     *)
(* down before it opens it, and Close may come in between.  Times are not  *)
(* modelled: a timer that is armed may go off at any moment.               *)
(***************************************************************************)
EXTENDS Naturals, Sequences, FiniteSets

CONSTANTS
  End,          \* the two ends of a session
  Why,          \* bound: the reasons the owner of a channel closes it with
  Speaker,      \* bound: the ends that send messages and probes
  Frags,        \* fragments of a message
  MaxQueued,    \* kMaxQueuedMessages, of what waits to be sent
  MaxHeld,      \* kMaxQueuedMessages again, of what was received and not read
  MaxAttempts,  \* Timings.maxAttempts
  MaxProbes,    \* the attempts of a probe
  MaxSaid,      \* bound: messages of an end
  MaxKey        \* bound: re-keyings of a session

ASSUME Sizes ==
  /\ IsFiniteSet(End) /\ Cardinality(End) = 2 /\ Speaker \subseteq End
  /\ {Frags, MaxQueued, MaxHeld, MaxAttempts, MaxProbes} \subseteq Nat \ {0}
  /\ {MaxSaid, MaxKey} \subseteq Nat

VARIABLES
  net,      \* every datagram sent: one is lost when nobody takes it, repeated when it is taken twice
  ch,       \* the channel of each end
  turning,  \* the key ResumeWith has begun to change to; 0 when it is not running
  said, heard, given_up   \* what the applications see (OrderedStream)

apps == <<said, heard, given_up>>
vars == <<net, ch, turning, apps>>

Other(e) == CHOOSE f \in End : f # e

(* Messages are numbered by their sender as they are handed over, so that   *)
(* content is told apart from sequence numbers.  A stream id is the end     *)
(* that transmits on it and the key (0 for the two base ids, otherwise the  *)
(* resumeId it is derived from, control_resume_stream_id).                  *)
Stream(e, k) == <<e, k>>
Tx(e) == Stream(e, ch[e].key)
Rx(e) == Stream(Other(e), ch[e].key)

Probe == 0    \* the fragment number of a probe's chunk, which has no payload

Data(stream, n, body, frags) ==
  {[kind |-> "data", stream |-> stream, n |-> n, body |-> body, frag |-> i] : i \in frags}
Ack(stream, n) == [kind |-> "ack", stream |-> stream, n |-> n]
Nack(stream, n, missing) == [kind |-> "nack", stream |-> stream, n |-> n, missing |-> missing]

(* A channel that has just been configured, reset or re-keyed. *)
Fresh(k) ==
  [key |-> k, next |-> 1, queue |-> <<>>, tries |-> 0, parts |-> {}, done |-> 0,
   ready |-> <<>>, acked |-> 0, probe |-> "idle", asking |-> 0, asked |-> 0,
   reason |-> "none", shut |-> FALSE]

Init ==
  /\ net = {} /\ turning = [e \in End |-> 0]
  /\ ch = [e \in End |-> Fresh(0)]
  /\ said = [e \in Speaker |-> 0]
  /\ heard = [e \in Speaker |-> 0]
  /\ given_up = [e \in Speaker |-> 0]

Open(e) == ch[e].reason = "none"
Locked(e) == turning[e] # 0
Becomes(e, c) == ch' = [ch EXCEPT ![e] = c]
Sends(datagrams) == net' = net \cup datagrams

-----------------------------------------------------------------------------
(* Closing and re-keying *)

(* The first reason stays; that the owner is shutting down is kept apart. *)
Closed(c, why) ==
  [c EXCEPT !.reason = IF @ = "none" THEN why ELSE @, !.shut = @ \/ why = "shutdown"]

(* Close takes no lock: it may come while ResumeWith runs. *)
Close(e) ==
  /\ \E why \in Why : Becomes(e, Closed(ch[e], why))
  /\ UNCHANGED <<net, turning, apps>>

(* Both ends change to the keys in turn, the one after the other. *)
BeginResumeWith(e) ==
  /\ ~Locked(e) /\ ~ch[e].shut
  /\ \E k \in (ch[e].key + 1) .. MaxKey :
       /\ k <= 1 + ch[Other(e)].key
       /\ turning' = [turning EXCEPT ![e] = k]
  /\ UNCHANGED <<net, ch, apps>>

(* A bug: fragments from before the repair are kept. *)
RekeyKeepsParts(e) ==
  /\ Locked(e)
  /\ Becomes(e, [Fresh(turning[e]) EXCEPT !.shut = ch[e].shut, !.parts = ch[e].parts])
  /\ turning' = [turning EXCEPT ![e] = 0]
  /\ given_up' = IF e \in Speaker THEN [given_up EXCEPT ![e] = said[e]] ELSE given_up
  /\ UNCHANGED <<net, said, heard>>

(* A bug: the receiver goes on counting where it was. *)
RekeyKeepsDelivered(e) ==
  /\ Locked(e)
  /\ Becomes(e, [Fresh(turning[e]) EXCEPT !.shut = ch[e].shut, !.done = ch[e].done])
  /\ turning' = [turning EXCEPT ![e] = 0]
  /\ given_up' = IF e \in Speaker THEN [given_up EXCEPT ![e] = said[e]] ELSE given_up
  /\ UNCHANGED <<net, said, heard>>

EndResumeWith(e) ==
  /\ Locked(e)
  /\ Becomes(e, [Fresh(turning[e]) EXCEPT !.shut = ch[e].shut])
  /\ turning' = [turning EXCEPT ![e] = 0]
  /\ given_up' = IF e \in Speaker THEN [given_up EXCEPT ![e] = said[e]] ELSE given_up
  /\ UNCHANGED <<net, said, heard>>

-----------------------------------------------------------------------------
(* Sending *)

First(c) == Head(c.queue)
SendsFirst(e, c) == Sends(Data(Stream(e, c.key), First(c).n, First(c).body, 1 .. Frags))

(* A queue that is full closes the channel. *)
Send(e) ==
  /\ ~Locked(e) /\ Open(e)
  /\ said[e] < MaxSaid \/ Len(ch[e].queue) >= MaxQueued
  /\ UNCHANGED <<turning, heard, given_up>>
  /\ IF Len(ch[e].queue) >= MaxQueued
     THEN Becomes(e, Closed(ch[e], "resource")) /\ UNCHANGED <<net, said>>
     ELSE LET c == [ch[e] EXCEPT
                      !.queue = Append(@, [n |-> ch[e].next, body |-> said[e] + 1]),
                      !.next = @ + 1,
                      !.tries = IF ch[e].queue = <<>> THEN 1 ELSE @]
          IN  /\ Becomes(e, c)
              /\ said' = [said EXCEPT ![e] = @ + 1]
              /\ IF ch[e].queue = <<>> THEN SendsFirst(e, c) ELSE UNCHANGED net

(* A bug: the attempts are not counted. *)
RetransmitForever(e) ==
  /\ ~Locked(e) /\ ch[e].queue # <<>>
  /\ SendsFirst(e, ch[e])
  /\ UNCHANGED <<ch, turning, apps>>

(* Tick, the message that waits for its acknowledgement: sent again as a    *)
(* whole, by a closed channel too, until the attempts are spent and the     *)
(* peer counts as lost.                                                     *)
Retransmit(e) ==
  /\ ~Locked(e) /\ ch[e].queue # <<>> /\ ch[e].tries <= MaxAttempts
  /\ IF ch[e].tries + 1 > MaxAttempts
     THEN Becomes(e, Closed([ch[e] EXCEPT !.tries = @ + 1], "peer-lost")) /\ UNCHANGED net
     ELSE Becomes(e, [ch[e] EXCEPT !.tries = @ + 1]) /\ SendsFirst(e, ch[e])
  /\ UNCHANGED <<turning, apps>>

(* HandleAck.  The probe first: the message it names has left the queue. *)
HandleAck(e, d) ==
  LET c == ch[e]
      popped == [c EXCEPT !.acked = d.n, !.queue = Tail(@), !.tries = 1]
  IN  CASE c.probe = "pending" /\ d.n = c.asking /\ d.kind = "ack" ->
             Becomes(e, [c EXCEPT !.probe = "alive"]) /\ UNCHANGED net
        [] c.queue = <<>> \/ (c.queue # <<>> /\ First(c).n # d.n) -> UNCHANGED <<ch, net>>
        [] OTHER ->
             IF d.kind = "nack"
             THEN Sends(Data(Tx(e), First(c).n, First(c).body, d.missing)) /\ UNCHANGED ch
             ELSE /\ Becomes(e, popped)
                  /\ IF popped.queue # <<>> THEN SendsFirst(e, popped) ELSE UNCHANGED net

-----------------------------------------------------------------------------
(* The probe: one chunk of a message the peer has acknowledged already, which *)
(* its channel acknowledges again and hands to nobody.                        *)

SendsProbe(e, n) == Sends(Data(Tx(e), n, 0, {Probe}))

StartProbe(e) ==
  /\ ~Locked(e) /\ Open(e) /\ ch[e].probe # "pending"
  /\ Becomes(e, [ch[e] EXCEPT !.probe = "pending", !.asking = ch[e].acked, !.asked = 1])
  /\ SendsProbe(e, ch[e].acked)
  /\ UNCHANGED <<turning, apps>>

ProbeTick(e) ==
  /\ ~Locked(e) /\ ch[e].probe = "pending"
  /\ IF ch[e].asked + 1 > MaxProbes
     THEN Becomes(e, [ch[e] EXCEPT !.probe = "dead", !.asked = @ + 1]) /\ UNCHANGED net
     ELSE Becomes(e, [ch[e] EXCEPT !.asked = @ + 1]) /\ SendsProbe(e, ch[e].asking)
  /\ UNCHANGED <<turning, apps>>

-----------------------------------------------------------------------------
(* Receiving *)

Had(c, n) == {p.frag : p \in {q \in c.parts : q.n = n}}
Incomplete(c) == {p.n : p \in c.parts}

(* A bug: whatever comes is held. *)
Unbounded(c, n) == FALSE

TooMany(c, n) ==
  n \notin Incomplete(c) /\ Cardinality(Incomplete(c)) + Len(c.ready) >= MaxHeld

(* HandleData.  What was delivered is acknowledged again and dropped; the    *)
(* last fragment makes the message deliverable and ends everything older.    *)
(* (Of data; a probe's chunk is never ahead of the messages, see InStep.)    *)
HandleData(e, d) ==
  LET c == ch[e]
      more == [c EXCEPT !.parts = @ \cup {[n |-> d.n, frag |-> d.frag, body |-> d.body]}]
      whole == {p.body : p \in {q \in more.parts : q.n = d.n}}
  IN  \/ d.n <= c.done /\ Sends({Ack(d.stream, d.n)}) /\ UNCHANGED ch
      \/ d.n > c.done /\ d.frag \in Had(c, d.n) \cup {Probe} /\ UNCHANGED <<ch, net>>
      \/ /\ d.n > c.done /\ d.frag \notin Had(c, d.n) \cup {Probe}
         /\ IF TooMany(c, d.n)
            THEN Becomes(e, Closed(c, "resource")) /\ UNCHANGED net
            ELSE IF Cardinality(Had(more, d.n)) < Frags
            THEN Becomes(e, more) /\ UNCHANGED net
            ELSE /\ Becomes(e, [c EXCEPT !.done = d.n, !.ready = Append(@, whole),
                                         !.parts = {p \in @ : p.n > d.n}])
                 /\ Sends({Ack(d.stream, d.n)})

(* OnPacket: a closed channel takes what is its own and does nothing with it; *)
(* a datagram of another stream is not this channel's any more.               *)
OnPacket(e) ==
  /\ ~Locked(e) /\ Open(e)
  /\ \E d \in net :
       \/ d.kind = "data" /\ d.stream = Rx(e) /\ HandleData(e, d)
       \/ d.kind # "data" /\ d.stream = Tx(e) /\ HandleAck(e, d)
  /\ UNCHANGED <<turning, apps>>

(* Tick, the messages that miss fragments. *)
AskForMissing(e) ==
  /\ ~Locked(e)
  /\ \E n \in Incomplete(ch[e]) :
       Sends({Nack(Rx(e), n, (1 .. Frags) \ Had(ch[e], n))})
  /\ UNCHANGED <<ch, turning, apps>>

(* Tick, the messages that stayed incomplete for half a minute. *)
ForgetIncomplete(e) ==
  /\ ~Locked(e)
  /\ \E n \in Incomplete(ch[e]) :
       Becomes(e, [ch[e] EXCEPT !.parts = {p \in @ : p.n # n}])
  /\ UNCHANGED <<net, turning, apps>>

(* Receive: what is ready is handed over, also by a channel that was closed. *)
(* Fragments of several messages put together are one that nobody said.      *)
Receive(e) ==
  /\ ~Locked(e) /\ ch[e].ready # <<>>
  /\ Becomes(e, [ch[e] EXCEPT !.ready = Tail(@)])
  /\ heard' = [heard EXCEPT ![Other(e)] =
                 LET whole == Head(ch[e].ready)
                 IN  IF Cardinality(whole) = 1 THEN CHOOSE m \in whole : TRUE ELSE MaxSaid + 1]
  /\ UNCHANGED <<net, turning, said, given_up>>

-----------------------------------------------------------------------------
Tick(e) == (e \in Speaker /\ (Retransmit(e) \/ ProbeTick(e))) \/ AskForMissing(e) \/ ForgetIncomplete(e)

Next ==
  \/ \E e \in End :
       \/ Close(e) \/ BeginResumeWith(e) \/ EndResumeWith(e)
       \/ OnPacket(e) \/ Tick(e) \/ Receive(e)
  \/ \E e \in Speaker : Send(e) \/ StartProbe(e)

Spec == Init /\ [][Next]_vars

(* The threads of an end call Tick again and again, read what is ready, and  *)
(* leave ResumeWith once they are in it.  Nothing is asked of the network.   *)
Fairness ==
  /\ \A e \in Speaker : WF_vars(Retransmit(e))
  /\ \A e \in End : WF_vars(Receive(e)) /\ WF_vars(EndResumeWith(e))
FairSpec == Spec /\ Fairness

-----------------------------------------------------------------------------
(* Properties *)

Keys == 0 .. MaxKey
Datagrams ==
  [kind : {"data"}, stream : End \X Keys, n : Nat, body : Nat, frag : {Probe} \cup 1 .. Frags]
    \cup [kind : {"ack"}, stream : End \X Keys, n : Nat]
    \cup [kind : {"nack"}, stream : End \X Keys, n : Nat, missing : SUBSET (1 .. Frags)]

ChannelOK(c) ==
  /\ DOMAIN c = DOMAIN Fresh(0) /\ c.key \in Keys
  /\ c.next \in Nat /\ c.queue \in Seq([n : Nat, body : Nat]) /\ Len(c.queue) <= MaxQueued
  /\ c.done \in Nat /\ c.ready \in Seq(SUBSET Nat)
  /\ c.parts \subseteq [n : Nat, frag : 1 .. Frags, body : Nat]
  /\ IsFiniteSet(Incomplete(c)) /\ Cardinality(Incomplete(c)) + Len(c.ready) <= MaxHeld
  /\ c.tries \in 0 .. (MaxAttempts + 1) /\ c.asked \in 0 .. (MaxProbes + 1)
  /\ c.acked \in Nat /\ c.asking \in Nat /\ c.shut \in BOOLEAN
  /\ c.probe \in {"idle", "pending", "alive", "dead"} /\ (c.probe = "pending" => c.asked <= MaxProbes)
  /\ c.reason \in {"none", "peer-lost", "resource"} \cup Why

TypeOK ==
  /\ net \subseteq Datagrams /\ turning \in [End -> Keys]
  /\ DOMAIN ch = End /\ \A e \in End : ChannelOK(ch[e])
  /\ {said, heard, given_up} \subseteq [Speaker -> Nat]

(* On the same streams, what a sender counts as acknowledged the receiver    *)
(* has delivered, and the receiver is never more than the one message ahead  *)
(* that is under way: no datagram from before a repair, and no answer to a   *)
(* probe, moves one end without the other (HandleData, HandleAck).           *)
InStep ==
  \A e \in Speaker :
    LET f == Other(e) IN ch[e].key = ch[f].key =>
      /\ ch[e].acked <= ch[f].done
      /\ ch[f].done <= ch[e].acked + 1 /\ ch[f].done < ch[e].next

(* The application of an end hears what that of the other said: in order,    *)
(* once, intact, and nothing left out but what a repair gave up.             *)
Promised == INSTANCE OrderedStream
DeliversInOrder == Promised!Spec

(* What was said is heard, unless an end closed its channel or the channel   *)
(* was repaired: an acknowledgement that never comes closes it in the end,   *)
(* whatever is lost (Tick, maxAttempts).                                     *)
Broken(e, m) ==
  \/ ~Open(e) \/ ~Open(Other(e))
  \/ ch[e].key # ch[Other(e)].key \/ given_up[e] >= m
HeardOrBroken ==
  \A e \in Speaker, m \in 1 .. MaxSaid :
    said[e] >= m ~> (heard[e] >= m \/ Broken(e, m))

=============================================================================
