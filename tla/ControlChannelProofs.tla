------------------------- MODULE ControlChannelProofs -------------------------
(***************************************************************************)
(* What ControlChannel promises, for any number of fragments, messages and *)
(* repairs, any limits, and for one end that speaks or both: its types     *)
(* with the limits of its queues, that the ends stay in step, and that it  *)
(* implements OrderedStream.                                               *)
(*                                                                         *)
(* The argument is about the datagrams of one stream, all that were ever   *)
(* sent on it: their numbers and their bodies differ by what the sender    *)
(* had given up when it took the stream's key, none is more than one       *)
(* ahead of what the receiver delivered, and an acknowledgement never is   *)
(* ahead of it.  A repair takes one end at a time; until the other has     *)
(* followed, what is still read belongs to the key before, and its bodies  *)
(* are given up.                                                           *)
(***************************************************************************)
EXTENDS ControlChannel, TLAPS, FiniteSetTheorems, SequenceTheorems

(* Every fragment that was ever sent on a stream, the chunks of probes left out. *)
Pieces(s) == {d \in net : d.kind = "data" /\ d.stream = s /\ d.frag # Probe}

(* What the application of e has read under the key the channel has. *)
HasRead(e) == ch[e].done - Len(ch[e].ready)

(* The ends take the keys in turn. *)
KeysClose ==
  \A e \in End :
    /\ ch[e].key <= ch[Other(e)].key + 1
    /\ turning[e] # 0 => ch[e].key < turning[e] /\ turning[e] <= ch[Other(e)].key + 1

(* The queue holds what was said under this key and not acknowledged. *)
QueueInv(e) ==
  /\ ch[e].next = ch[e].acked + Len(ch[e].queue) + 1
  /\ given_up[e] + ch[e].next = said[e] + 1
  /\ \A i \in 1 .. Len(ch[e].queue) :
       ch[e].queue[i] = [n |-> ch[e].acked + i, body |-> given_up[e] + ch[e].acked + i]
  /\ ch[e].acked > 0 => Ack(Tx(e), ch[e].acked) \in net

(* The fragments e has sent: those of this key are of messages up to the one *)
(* under way; those of a key before have been given up.                      *)
PiecesInv(e) ==
  \A k \in Keys : \A d \in Pieces(Stream(e, k)) :
    /\ k <= ch[e].key /\ d.n > 0
    /\ k = ch[e].key => d.n <= ch[e].acked + 1 /\ d.n < ch[e].next /\ d.body = given_up[e] + d.n
    /\ k < ch[e].key => d.body <= given_up[e]
    /\ \A d2 \in Pieces(Stream(e, k)) : d.body + d2.n = d2.body + d.n

(* The acknowledgements e was sent are of what was delivered. *)
AcksInv(e) ==
  LET f == Other(e) IN
  \A k \in Keys, n \in Nat : Ack(Stream(e, k), n) \in net =>
    k <= ch[f].key /\ (k = ch[f].key => n <= ch[f].done)

(* What the other end holds are fragments e has sent on the stream it listens *)
(* to; what is ready there are whole messages, in their order.                *)
ReceivedInv(e) ==
  LET f == Other(e)
      held == ch[f].ready
  IN  /\ ch[f].done > 0 => \E d \in Pieces(Rx(f)) : d.n = ch[f].done
      /\ \A d \in Pieces(Rx(f)) : d.n <= ch[f].done + 1
      /\ \A p \in ch[f].parts : \E d \in Pieces(Rx(f)) : d.n = p.n /\ d.body = p.body
      /\ Len(held) <= ch[f].done
      /\ \A i \in 1 .. Len(held) :
           \E d \in Pieces(Rx(f)) : d.n = HasRead(f) + i /\ held[i] = {d.body}

(* What was heard of e is what was read under the key, on top of what was *)
(* heard before it, and that is given up.                                 *)
HeardInv(e) ==
  LET f == Other(e) IN
  /\ heard[e] <= said[e]
  /\ ch[f].key < ch[e].key \/ (ch[f].key = ch[e].key /\ HasRead(f) = 0) => heard[e] <= given_up[e]
  /\ \A d \in Pieces(Rx(f)) :
       IF HasRead(f) = 0 THEN heard[e] + d.n <= d.body ELSE heard[e] + d.n = d.body + HasRead(f)

ChannelInv ==
  /\ TypeOK /\ KeysClose
  /\ \A e \in Speaker : QueueInv(e) /\ PiecesInv(e) /\ AcksInv(e) /\ ReceivedInv(e) /\ HeardInv(e)
-----------------------------------------------------------------------------
(* The two ends, and what an operation of one of them does *)

LEMMA TwoEnds ==
  \A e \in End : /\ Other(e) \in End /\ Other(e) # e /\ Other(Other(e)) = e
                 /\ \A x \in End : x = e \/ x = Other(e)
<1> SUFFICES ASSUME NEW e \in End
             PROVE  /\ Other(e) \in End /\ Other(e) # e /\ Other(Other(e)) = e
                    /\ \A x \in End : x = e \/ x = Other(e)
  OBVIOUS
<1>1. IsFiniteSet(End \ {e}) /\ Cardinality(End \ {e}) = 1
  BY Sizes, FS_RemoveElement
<1>2. PICK f : End \ {e} = {f}
  BY <1>1, FS_Singleton
<1>3. Other(e) = f
  BY <1>2 DEF Other
<1>4. Other(f) = e
  BY <1>2 DEF Other
<1> QED BY <1>2, <1>3, <1>4

(* What others see of an operation of end x that is not the repair: its       *)
(* datagrams are fragments of the message under way, acknowledgements of what *)
(* was delivered, questions and probes.                                       *)
Sent(x) ==
  \A d \in net' \ net :
    \/ d.kind = "nack" \/ (d.kind = "data" /\ d.frag = Probe)
    \/ /\ d.kind = "data" /\ d.stream = Tx(x) /\ ch'[x].queue # <<>>
       /\ d.n = First(ch'[x]).n /\ d.body = First(ch'[x]).body
    \/ d.kind = "ack" /\ d.stream = Rx(x) /\ d.n <= ch'[x].done

Acts(x) ==
  /\ ch'[x].key = ch[x].key /\ \A y \in End \ {x} : ch'[y] = ch[y]
  /\ net \subseteq net' /\ Sent(x)

SendsAlike(x) == ch'[x].next = ch[x].next /\ ch'[x].queue = ch[x].queue /\ ch'[x].acked = ch[x].acked
ListensAlike(x) == ch'[x].done = ch[x].done /\ ch'[x].ready = ch[x].ready

Part(d) == [n |-> d.n, frag |-> d.frag, body |-> d.body]

(* The message that waits is queued. *)
Queues(x) ==
  /\ x \in Speaker /\ Acts(x) /\ ListensAlike(x) /\ ch'[x].parts = ch[x].parts
  /\ ch'[x].queue = Append(ch[x].queue, [n |-> ch[x].next, body |-> said[x] + 1])
  /\ ch'[x].next = ch[x].next + 1 /\ ch'[x].acked = ch[x].acked
  /\ said' = [said EXCEPT ![x] = @ + 1] /\ UNCHANGED <<heard, given_up>>

(* The message under way is acknowledged. *)
Pops(x) ==
  /\ Acts(x) /\ ListensAlike(x) /\ ch'[x].parts = ch[x].parts
  /\ ch[x].queue # <<>> /\ ch'[x].queue = Tail(ch[x].queue)
  /\ ch'[x].acked = First(ch[x]).n /\ Ack(Tx(x), First(ch[x]).n) \in net
  /\ ch'[x].next = ch[x].next /\ UNCHANGED apps

(* Fragments are held or forgotten, or nothing of all this changes. *)
Holds(x) ==
  /\ Acts(x) /\ SendsAlike(x) /\ ListensAlike(x) /\ UNCHANGED apps
  /\ \A p \in ch'[x].parts : p \in ch[x].parts \/ \E d \in Pieces(Rx(x)) : p = Part(d)

(* A message is delivered. *)
Delivers(x) ==
  /\ Acts(x) /\ SendsAlike(x) /\ UNCHANGED apps
  /\ ch'[x].parts \subseteq ch[x].parts
  /\ \E d \in Pieces(Rx(x)) :
       /\ d.n > ch[x].done /\ ch'[x].done = d.n
       /\ ch'[x].ready = Append(ch[x].ready, {p.body : p \in {q \in ch[x].parts \cup {Part(d)} : q.n = d.n}})

(* A message is read. *)
Reads(x) ==
  /\ Acts(x) /\ SendsAlike(x) /\ ch'[x].parts = ch[x].parts /\ ch'[x].done = ch[x].done
  /\ ch[x].ready # <<>> /\ ch'[x].ready = Tail(ch[x].ready) /\ UNCHANGED <<said, given_up>>
  /\ heard' = [heard EXCEPT ![Other(x)] =
                 LET whole == Head(ch[x].ready)
                 IN  IF Cardinality(whole) = 1 THEN CHOOSE m \in whole : TRUE ELSE MaxSaid + 1]

LEMMA FreshFields ==
  DOMAIN Fresh(0) = {"key", "next", "queue", "tries", "parts", "done", "ready", "acked", "probe", "asking",
                     "asked", "reason", "shut"}
BY DEF Fresh

LEMMA ClosedKeeps ==
  ASSUME NEW c, ChannelOK(c), NEW why
  PROVE  /\ DOMAIN Closed(c, why) = DOMAIN c /\ Closed(c, why).key = c.key
         /\ Closed(c, why).next = c.next /\ Closed(c, why).queue = c.queue /\ Closed(c, why).acked = c.acked
         /\ Closed(c, why).done = c.done /\ Closed(c, why).ready = c.ready /\ Closed(c, why).parts = c.parts
         /\ Closed(c, why).tries = c.tries /\ Closed(c, why).asked = c.asked /\ Closed(c, why).asking = c.asking
         /\ Closed(c, why).probe = c.probe
         /\ Closed(c, why).shut \in BOOLEAN /\ Closed(c, why).reason \in {c.reason, why}
BY FreshFields DEF Closed, ChannelOK

LEMMA BecomesOnly ==
  ASSUME TypeOK, NEW x \in End, NEW c, Becomes(x, c)
  PROVE  ch'[x] = c /\ \A y \in End \ {x} : ch'[y] = ch[y]
BY DEF Becomes, TypeOK

LEMMA CloseHolds == \A x \in End : TypeOK /\ Close(x) => Holds(x)
<1> SUFFICES ASSUME NEW x \in End, TypeOK, Close(x) PROVE Holds(x)
  OBVIOUS
<1>1. PICK why \in Why : Becomes(x, Closed(ch[x], why))
  BY DEF Close
<1>2. ChannelOK(ch[x])
  BY DEF TypeOK
<1> QED BY <1>1, <1>2, BecomesOnly, ClosedKeeps DEF Close, Holds, Acts, Sent, SendsAlike, ListensAlike

LEMMA NothingHolds == \A x \in End : UNCHANGED <<net, ch, apps>> => Holds(x)
BY DEF Holds, Acts, Sent, SendsAlike, ListensAlike

LEMMA SendQueues == \A x \in Speaker : TypeOK /\ Send(x) => Queues(x) \/ Holds(x)
<1> SUFFICES ASSUME NEW x \in Speaker, TypeOK, Send(x) PROVE Queues(x) \/ Holds(x)
  OBVIOUS
<1>1. x \in End /\ ChannelOK(ch[x])
  BY Sizes DEF TypeOK
<1>2. CASE Len(ch[x].queue) >= MaxQueued
  BY <1>1, <1>2, BecomesOnly, ClosedKeeps DEF Send, Holds, Acts, Sent, SendsAlike, ListensAlike, apps
<1>3. CASE ~(Len(ch[x].queue) >= MaxQueued)
  <2> DEFINE m == [n |-> ch[x].next, body |-> said[x] + 1]
             c == [ch[x] EXCEPT !.queue = Append(@, m), !.next = @ + 1, !.tries = IF ch[x].queue = <<>> THEN 1 ELSE @]
  <2>1. /\ Becomes(x, c) /\ said' = [said EXCEPT ![x] = @ + 1] /\ UNCHANGED <<heard, given_up>>
        /\ IF ch[x].queue = <<>> THEN SendsFirst(x, c) ELSE UNCHANGED net
    BY <1>3 DEF Send
  <2>2. /\ c.queue = Append(ch[x].queue, m) /\ c.next = ch[x].next + 1 /\ c.key = ch[x].key
        /\ c.acked = ch[x].acked /\ c.done = ch[x].done /\ c.ready = ch[x].ready /\ c.parts = ch[x].parts
    BY <1>1, FreshFields DEF ChannelOK
  <2>3. ch'[x] = c /\ \A y \in End \ {x} : ch'[y] = ch[y]
    BY <1>1, <2>1, BecomesOnly
  <2> HIDE DEF c
  <2>4. net \subseteq net' /\ Sent(x)
    <3>1. CASE ch[x].queue = <<>>
      <4>1. c.queue # <<>>
        BY <1>1, <2>2, <3>1 DEF ChannelOK
      <4> QED BY <2>1, <2>2, <2>3, <3>1, <4>1 DEF SendsFirst, Sends, Data, Sent, Tx
    <3>2. CASE ch[x].queue # <<>>
      BY <2>1, <3>2 DEF Sent
    <3> QED BY <3>1, <3>2
  <2> QED BY <2>1, <2>2, <2>3, <2>4 DEF Queues, Acts, ListensAlike
<1> QED BY <1>2, <1>3

LEMMA RetransmitHolds == \A x \in End : TypeOK /\ Retransmit(x) => Holds(x)
<1> SUFFICES ASSUME NEW x \in End, TypeOK, Retransmit(x) PROVE Holds(x)
  OBVIOUS
<1> DEFINE c == [ch[x] EXCEPT !.tries = @ + 1]
<1>1. /\ DOMAIN c = DOMAIN ch[x] /\ c.key = ch[x].key /\ c.queue = ch[x].queue /\ c.next = ch[x].next
      /\ c.acked = ch[x].acked /\ c.done = ch[x].done /\ c.ready = ch[x].ready /\ c.parts = ch[x].parts
  BY FreshFields DEF TypeOK, ChannelOK
<1>2. /\ Closed(c, "peer-lost").key = c.key /\ Closed(c, "peer-lost").queue = c.queue
      /\ Closed(c, "peer-lost").next = c.next /\ Closed(c, "peer-lost").acked = c.acked
      /\ Closed(c, "peer-lost").done = c.done /\ Closed(c, "peer-lost").ready = c.ready
      /\ Closed(c, "peer-lost").parts = c.parts
  BY <1>1, FreshFields DEF Closed, TypeOK, ChannelOK
<1>3. \/ Becomes(x, Closed(c, "peer-lost")) /\ UNCHANGED net
      \/ Becomes(x, c) /\ SendsFirst(x, ch[x])
  BY DEF Retransmit
<1> HIDE DEF c
<1>4. /\ \A y \in End \ {x} : ch'[y] = ch[y]
      /\ ch'[x].key = ch[x].key /\ ch'[x].queue = ch[x].queue /\ SendsAlike(x) /\ ListensAlike(x)
      /\ ch'[x].parts = ch[x].parts
  BY <1>1, <1>2, <1>3, BecomesOnly DEF SendsAlike, ListensAlike
<1>5. CASE UNCHANGED net
  BY <1>4, <1>5 DEF Retransmit, Holds, Acts, Sent
<1>6. CASE SendsFirst(x, ch[x])
  <2>1. First(ch'[x]) = First(ch[x]) /\ ch'[x].queue # <<>>
    BY <1>4 DEF First, Retransmit
  <2>2. net \subseteq net' /\ Sent(x)
    BY <1>4, <1>6, <2>1 DEF SendsFirst, Sends, Data, Sent, Tx
  <2> QED BY <1>4, <2>2 DEF Retransmit, Holds, Acts
<1> QED BY <1>3, <1>5, <1>6

LEMMA ProbeHolds == \A x \in End : TypeOK /\ (StartProbe(x) \/ ProbeTick(x)) => Holds(x)
<1> SUFFICES ASSUME NEW x \in End, TypeOK, StartProbe(x) \/ ProbeTick(x) PROVE Holds(x)
  OBVIOUS
<1>1. PICK asking, asked, probe :
        Becomes(x, [ch[x] EXCEPT !.probe = probe, !.asking = asking, !.asked = asked])
          \/ Becomes(x, [ch[x] EXCEPT !.probe = probe, !.asked = asked])
          \/ Becomes(x, [ch[x] EXCEPT !.asked = asked])
  BY DEF StartProbe, ProbeTick
<1>2. /\ \A y \in End \ {x} : ch'[y] = ch[y]
      /\ ch'[x].key = ch[x].key /\ SendsAlike(x) /\ ListensAlike(x) /\ ch'[x].parts = ch[x].parts
  <2>0. ChannelOK(ch[x])
    BY DEF TypeOK
  <2>1. PICK c : /\ Becomes(x, c) /\ c.key = ch[x].key /\ c.parts = ch[x].parts
                 /\ c.next = ch[x].next /\ c.queue = ch[x].queue /\ c.acked = ch[x].acked
                 /\ c.done = ch[x].done /\ c.ready = ch[x].ready
    <3> DEFINE c1 == [ch[x] EXCEPT !.probe = probe, !.asking = asking, !.asked = asked]
               c2 == [ch[x] EXCEPT !.probe = probe, !.asked = asked]
               c3 == [ch[x] EXCEPT !.asked = asked]
    <3>1. \A c \in {c1, c2, c3} : /\ c.key = ch[x].key /\ c.parts = ch[x].parts
                                  /\ c.next = ch[x].next /\ c.queue = ch[x].queue /\ c.acked = ch[x].acked
                                  /\ c.done = ch[x].done /\ c.ready = ch[x].ready
      BY <2>0, FreshFields DEF ChannelOK
    <3>2. \E c \in {c1, c2, c3} : Becomes(x, c)
      BY <1>1
    <3> HIDE DEF c1, c2, c3
    <3> QED BY <3>1, <3>2
  <2>2. ch'[x] = c /\ \A y \in End \ {x} : ch'[y] = ch[y]
    BY <2>1, BecomesOnly
  <2> QED BY <2>1, <2>2 DEF SendsAlike, ListensAlike
<1>3. UNCHANGED net \/ \E n : SendsProbe(x, n)
  BY DEF StartProbe, ProbeTick
<1>4. net \subseteq net' /\ Sent(x)
  BY <1>3 DEF SendsProbe, Sends, Data, Sent
<1> QED BY <1>2, <1>4 DEF StartProbe, ProbeTick, Holds, Acts

LEMMA AckKinds ==
  ASSUME TypeOK, NEW x \in End, NEW d \in net, d.kind # "data", d.stream = Tx(x), HandleAck(x, d), UNCHANGED apps
  PROVE  Pops(x) \/ Holds(x)
<1> DEFINE popped == [ch[x] EXCEPT !.acked = d.n, !.queue = Tail(@), !.tries = 1]
<1>0. ChannelOK(ch[x])
  BY DEF TypeOK
<1>1. CASE UNCHANGED <<ch, net>>
  BY <1>1, NothingHolds
<1>2. CASE Becomes(x, [ch[x] EXCEPT !.probe = "alive"]) /\ UNCHANGED net
  BY SMTT(20), <1>0, <1>2, BecomesOnly, FreshFields DEF Holds, Acts, Sent, SendsAlike, ListensAlike, ChannelOK
<1>3. CASE ch[x].queue # <<>> /\ Sends(Data(Tx(x), First(ch[x]).n, First(ch[x]).body, d.missing)) /\ UNCHANGED ch
  BY <1>3 DEF Holds, Acts, SendsAlike, ListensAlike, Sends, Data, Sent
<1>4. CASE /\ ch[x].queue # <<>> /\ First(ch[x]).n = d.n /\ d.kind # "nack" /\ Becomes(x, popped)
           /\ IF popped.queue # <<>> THEN SendsFirst(x, popped) ELSE UNCHANGED net
  <2>1. /\ popped.key = ch[x].key /\ popped.queue = Tail(ch[x].queue) /\ popped.next = ch[x].next
        /\ popped.acked = d.n /\ popped.done = ch[x].done /\ popped.ready = ch[x].ready
        /\ popped.parts = ch[x].parts
    BY <1>0, FreshFields DEF ChannelOK
  <2>2. ch'[x] = popped /\ \A y \in End \ {x} : ch'[y] = ch[y]
    BY <1>4, BecomesOnly
  <2>3. Ack(Tx(x), First(ch[x]).n) \in net
    <3>1. d \in Datagrams /\ d.kind = "ack"
      BY <1>4 DEF TypeOK, Datagrams
    <3> QED BY <1>4, <3>1 DEF Ack, Datagrams
  <2> HIDE DEF popped
  <2>4. net \subseteq net' /\ Sent(x)
    <3>1. CASE popped.queue # <<>>
      <4>1. net' = net \cup Data(Tx(x), First(ch'[x]).n, First(ch'[x]).body, 1 .. Frags)
        BY <1>4, <2>1, <2>2, <3>1 DEF SendsFirst, Sends, Tx
      <4> QED BY <2>2, <3>1, <4>1 DEF Data, Sent
    <3>2. CASE popped.queue = <<>>
      BY <1>4, <3>2 DEF Sent
    <3> QED BY <3>1, <3>2
  <2> QED BY <1>4, <2>1, <2>2, <2>3, <2>4 DEF Pops, Acts, ListensAlike
<1> QED BY <1>1, <1>2, <1>3, <1>4 DEF HandleAck

LEMMA DataKinds ==
  ASSUME TypeOK, NEW x \in End, NEW d \in net, d.kind = "data", d.stream = Rx(x), HandleData(x, d), UNCHANGED apps
  PROVE  Delivers(x) \/ Holds(x)
<1> DEFINE p == Part(d)
           more == [ch[x] EXCEPT !.parts = @ \cup {p}]
           whole == {q.body : q \in {r \in more.parts : r.n = d.n}}
           after == [ch[x] EXCEPT !.done = d.n, !.ready = Append(@, whole), !.parts = {q \in @ : q.n > d.n}]
<1>0. ChannelOK(ch[x]) /\ d \in Datagrams /\ d.frag \in {Probe} \cup 1 .. Frags
  BY DEF TypeOK, Datagrams
<1>1. CASE UNCHANGED <<ch, net>>
  BY <1>1, NothingHolds
<1>2. CASE d.n <= ch[x].done /\ Sends({Ack(d.stream, d.n)}) /\ UNCHANGED ch
  BY <1>2 DEF Holds, Acts, SendsAlike, ListensAlike, Sends, Ack, Sent
<1>3. CASE Becomes(x, Closed(ch[x], "resource")) /\ UNCHANGED net
  BY <1>0, <1>3, BecomesOnly, ClosedKeeps DEF Holds, Acts, Sent, SendsAlike, ListensAlike
<1>4. CASE d.frag \notin Had(ch[x], d.n) \cup {Probe} /\ Becomes(x, more) /\ UNCHANGED net
  <2>1. d \in Pieces(Rx(x))
    BY <1>4 DEF Pieces
  <2> QED BY <1>0, <1>4, <2>1, BecomesOnly, FreshFields DEF Holds, Acts, Sent, SendsAlike, ListensAlike, ChannelOK
<1>5. CASE d.n > ch[x].done /\ d.frag # Probe /\ Becomes(x, after) /\ Sends({Ack(d.stream, d.n)})
  <2>1. d \in Pieces(Rx(x))
    BY <1>5 DEF Pieces
  <2>2. /\ after.key = ch[x].key /\ after.next = ch[x].next /\ after.queue = ch[x].queue
        /\ after.acked = ch[x].acked /\ after.done = d.n /\ after.ready = Append(ch[x].ready, whole)
        /\ after.parts = {q \in ch[x].parts : q.n > d.n}
    BY <1>0, FreshFields DEF ChannelOK
  <2>3. more.parts = ch[x].parts \cup {p}
    BY <1>0, FreshFields DEF ChannelOK
  <2>4. ch'[x] = after /\ \A y \in End \ {x} : ch'[y] = ch[y]
    BY <1>5, BecomesOnly
  <2> HIDE DEF after, more
  <2>5. net \subseteq net' /\ Sent(x)
    BY <1>0, <1>5, <2>2, <2>4 DEF Sends, Ack, Sent, Datagrams
  <2> QED BY <1>5, <2>1, <2>2, <2>3, <2>4, <2>5 DEF Delivers, Acts, SendsAlike
<1>6. CASE /\ d.n > ch[x].done /\ d.frag \notin Had(ch[x], d.n) \cup {Probe}
           /\ IF TooMany(ch[x], d.n) THEN Becomes(x, Closed(ch[x], "resource")) /\ UNCHANGED net
              ELSE IF Cardinality(Had(more, d.n)) < Frags THEN Becomes(x, more) /\ UNCHANGED net
              ELSE Becomes(x, after) /\ Sends({Ack(d.stream, d.n)})
  <2> HIDE DEF more, after
  <2> QED BY <1>3, <1>4, <1>5, <1>6
<1> QED BY <1>1, <1>2, <1>6 DEF HandleData, Part

LEMMA TickHolds == \A x \in End : TypeOK /\ (AskForMissing(x) \/ ForgetIncomplete(x)) => Holds(x)
<1> SUFFICES ASSUME NEW x \in End, TypeOK, AskForMissing(x) \/ ForgetIncomplete(x) PROVE Holds(x)
  OBVIOUS
<1>0. ChannelOK(ch[x])
  BY DEF TypeOK
<1>1. CASE AskForMissing(x)
  BY <1>1 DEF AskForMissing, Sends, Nack, Holds, Acts, Sent, SendsAlike, ListensAlike
<1>2. CASE ForgetIncomplete(x)
  BY <1>0, <1>2, BecomesOnly, FreshFields
     DEF ForgetIncomplete, Holds, Acts, Sent, SendsAlike, ListensAlike, ChannelOK
<1> QED BY <1>1, <1>2

LEMMA ReceiveReads == \A x \in End : TypeOK /\ Receive(x) => Reads(x)
<1> SUFFICES ASSUME NEW x \in End, TypeOK, Receive(x) PROVE Reads(x)
  OBVIOUS
<1>0. ChannelOK(ch[x])
  BY DEF TypeOK
<1>1. /\ ch'[x].key = ch[x].key /\ ch'[x].parts = ch[x].parts /\ ch'[x].done = ch[x].done
      /\ ch'[x].ready = Tail(ch[x].ready) /\ SendsAlike(x) /\ \A y \in End \ {x} : ch'[y] = ch[y]
  <2> DEFINE c == [ch[x] EXCEPT !.ready = Tail(@)]
  <2>1. /\ c.key = ch[x].key /\ c.parts = ch[x].parts /\ c.done = ch[x].done /\ c.ready = Tail(ch[x].ready)
        /\ c.next = ch[x].next /\ c.queue = ch[x].queue /\ c.acked = ch[x].acked
    BY <1>0, FreshFields DEF ChannelOK
  <2>2. Becomes(x, c)
    BY DEF Receive
  <2> HIDE DEF c
  <2> QED BY <2>1, <2>2, BecomesOnly DEF SendsAlike
<1> QED BY <1>1 DEF Receive, Reads, Acts, Sent

(* Every step is one of these, or the repair of an end. *)
LEMMA Kinds ==
  TypeOK /\ [Next]_vars =>
    \E x \in End : EndResumeWith(x) \/ Queues(x) \/ Pops(x) \/ Holds(x) \/ Delivers(x) \/ Reads(x)
<1> SUFFICES ASSUME TypeOK, [Next]_vars
             PROVE \E x \in End : EndResumeWith(x) \/ Queues(x) \/ Pops(x) \/ Holds(x) \/ Delivers(x) \/ Reads(x)
  OBVIOUS
<1>1. CASE UNCHANGED vars
  <2>1. \E x : x \in End
    BY Sizes, FS_EmptySet
  <2> QED BY <1>1, <2>1, NothingHolds DEF vars
<1>2. ASSUME NEW x \in End, OnPacket(x) PROVE Pops(x) \/ Delivers(x) \/ Holds(x)
  BY <1>2, AckKinds, DataKinds DEF OnPacket
<1>3. ASSUME NEW x \in End, Tick(x) PROVE Holds(x)
  BY <1>3, RetransmitHolds, ProbeHolds, TickHolds DEF Tick
<1>4. ASSUME NEW x \in Speaker, StartProbe(x) \/ Send(x) PROVE Queues(x) \/ Holds(x)
  BY <1>4, ProbeHolds, SendQueues, Sizes
<1>5. ASSUME NEW x \in End, BeginResumeWith(x) PROVE Holds(x)
  BY <1>5, NothingHolds DEF BeginResumeWith
<1>6. ASSUME NEW x \in End, Close(x) PROVE Holds(x)
  BY <1>6, CloseHolds
<1>7. ASSUME NEW x \in End, Receive(x) PROVE Reads(x)
  BY <1>7, ReceiveReads
<1> QED BY <1>1, <1>2, <1>3, <1>4, <1>5, <1>6, <1>7, Sizes DEF Next
-----------------------------------------------------------------------------
(* Types, and the limits of the queues *)

LEMMA DatagramsOK ==
  ASSUME NEW x \in End, NEW k \in Keys, NEW n \in Nat
  PROVE  /\ \A body \in Nat, frags \in SUBSET ({Probe} \cup 1 .. Frags) : Data(Stream(x, k), n, body, frags) \subseteq Datagrams
         /\ Ack(Stream(x, k), n) \in Datagrams
         /\ \A missing \in SUBSET (1 .. Frags) : Nack(Stream(x, k), n, missing) \in Datagrams
<1>1. \A body \in Nat, frags \in SUBSET ({Probe} \cup 1 .. Frags) : Data(Stream(x, k), n, body, frags) \subseteq Datagrams
  BY DEF Data, Stream, Datagrams
<1>2. Ack(Stream(x, k), n) \in Datagrams
  BY DEF Ack, Stream, Datagrams
<1>3. \A missing \in SUBSET (1 .. Frags) : Nack(Stream(x, k), n, missing) \in Datagrams
  BY DEF Nack, Stream, Datagrams
<1> QED BY <1>1, <1>2, <1>3

LEMMA FreshOK == \A k \in Keys, shut \in BOOLEAN : ChannelOK([Fresh(k) EXCEPT !.shut = shut])
<1> SUFFICES ASSUME NEW k \in Keys, NEW shut \in BOOLEAN PROVE ChannelOK([Fresh(k) EXCEPT !.shut = shut])
  OBVIOUS
<1> DEFINE c == [Fresh(k) EXCEPT !.shut = shut]
<1>1. /\ DOMAIN c = DOMAIN Fresh(0) /\ c.key = k /\ c.next = 1 /\ c.queue = <<>> /\ c.done = 0 /\ c.ready = <<>>
      /\ c.parts = {} /\ c.tries = 0 /\ c.asked = 0 /\ c.acked = 0 /\ c.asking = 0 /\ c.shut = shut
      /\ c.probe = "idle" /\ c.reason = "none"
  BY DEF Fresh
<1> HIDE DEF c
<1>2. Incomplete(c) = {}
  BY <1>1 DEF Incomplete
<1>3. Cardinality(Incomplete(c)) = 0 /\ IsFiniteSet(Incomplete(c))
  BY <1>2, FS_EmptySet
<1>4. c.next \in Nat /\ c.queue \in Seq([n : Nat, body : Nat]) /\ c.ready \in Seq(SUBSET Nat)
  BY <1>1
<1>5. Len(c.queue) <= MaxQueued /\ Cardinality(Incomplete(c)) + Len(c.ready) <= MaxHeld
  BY <1>1, <1>3, Sizes
<1>6. c.tries \in 0 .. (MaxAttempts + 1) /\ c.asked \in 0 .. (MaxProbes + 1)
  BY <1>1, Sizes
<1>7. ChannelOK(c)
  BY <1>1, <1>3, <1>4, <1>5, <1>6 DEF ChannelOK
<1> QED BY <1>7 DEF c

LEMMA ClosedOK ==
  ASSUME NEW c, ChannelOK(c), NEW why \in {"peer-lost", "resource"} \cup Why
  PROVE  ChannelOK(Closed(c, why))
<1>1. Incomplete(Closed(c, why)) = Incomplete(c)
  BY ClosedKeeps DEF Incomplete
<1>2. Closed(c, why).reason \in {"none", "peer-lost", "resource"} \cup Why
  BY ClosedKeeps DEF ChannelOK
<1> QED BY SMTT(20), <1>1, <1>2, ClosedKeeps DEF ChannelOK

(* Whatever becomes of the fragments of messages not delivered. *)
LEMMA PartsOK ==
  ASSUME NEW c, ChannelOK(c), NEW parts \in SUBSET c.parts
  PROVE  ChannelOK([c EXCEPT !.parts = parts])
<1> DEFINE after == [c EXCEPT !.parts = parts]
<1>1. /\ DOMAIN after = DOMAIN c /\ after.key = c.key /\ after.next = c.next /\ after.queue = c.queue
      /\ after.done = c.done /\ after.ready = c.ready /\ after.parts = parts /\ after.tries = c.tries
      /\ after.asked = c.asked /\ after.acked = c.acked /\ after.asking = c.asking /\ after.shut = c.shut
      /\ after.probe = c.probe /\ after.reason = c.reason
  BY FreshFields DEF ChannelOK
<1> HIDE DEF after
<1>2. IsFiniteSet(Incomplete(c)) /\ Incomplete(after) \subseteq Incomplete(c)
  BY <1>1 DEF Incomplete, ChannelOK
<1>3. IsFiniteSet(Incomplete(after)) /\ Cardinality(Incomplete(after)) <= Cardinality(Incomplete(c))
  BY <1>2, FS_Subset
<1>4. Cardinality(Incomplete(after)) \in Nat /\ Cardinality(Incomplete(c)) \in Nat
  BY <1>2, FS_Subset, FS_CardinalityType
<1>5. Cardinality(Incomplete(after)) + Len(after.ready) <= MaxHeld
  BY SMTT(20), <1>1, <1>3, <1>4, Sizes DEF ChannelOK
<1>6. ChannelOK(after)
  BY <1>1, <1>3, <1>5 DEF ChannelOK
<1> QED BY <1>6 DEF after

LEMMA HoldsMoreOK ==
  ASSUME NEW c, ChannelOK(c), NEW p \in [n : Nat, frag : 1 .. Frags, body : Nat], ~TooMany(c, p.n)
  PROVE  ChannelOK([c EXCEPT !.parts = @ \cup {p}])
<1> DEFINE after == [c EXCEPT !.parts = @ \cup {p}]
<1>1. /\ DOMAIN after = DOMAIN c /\ after.key = c.key /\ after.next = c.next /\ after.queue = c.queue
      /\ after.done = c.done /\ after.ready = c.ready /\ after.parts = c.parts \cup {p} /\ after.tries = c.tries
      /\ after.asked = c.asked /\ after.acked = c.acked /\ after.asking = c.asking /\ after.shut = c.shut
      /\ after.probe = c.probe /\ after.reason = c.reason
  BY FreshFields DEF ChannelOK
<1> HIDE DEF after
<1>2. Incomplete(after) = Incomplete(c) \cup {p.n}
  BY <1>1 DEF Incomplete
<1>3. IsFiniteSet(Incomplete(c))
  BY DEF ChannelOK
<1>4. /\ IsFiniteSet(Incomplete(after))
      /\ Cardinality(Incomplete(after)) =
           IF p.n \in Incomplete(c) THEN Cardinality(Incomplete(c)) ELSE Cardinality(Incomplete(c)) + 1
  BY <1>2, <1>3, FS_AddElement
<1>5. Cardinality(Incomplete(c)) \in Nat /\ Len(c.ready) \in Nat /\ MaxHeld \in Nat
  BY SMTT(20), <1>3, FS_CardinalityType, Sizes DEF ChannelOK
<1>6. Cardinality(Incomplete(after)) + Len(after.ready) <= MaxHeld
  BY <1>1, <1>4, <1>5 DEF TooMany, ChannelOK
<1>7. after.parts \subseteq [n : Nat, frag : 1 .. Frags, body : Nat]
  BY <1>1 DEF ChannelOK
<1>8. ChannelOK(after)
  BY <1>1, <1>4, <1>6, <1>7 DEF ChannelOK
<1> QED BY <1>8 DEF after

LEMMA DeliversOK ==
  ASSUME NEW c, ChannelOK(c), NEW n \in Nat, ~TooMany(c, n), NEW whole \in SUBSET Nat
  PROVE  ChannelOK([c EXCEPT !.done = n, !.ready = Append(@, whole), !.parts = {p \in @ : p.n > n}])
<1> DEFINE parts == {p \in c.parts : p.n > n}
           after == [c EXCEPT !.done = n, !.ready = Append(@, whole), !.parts = {p \in @ : p.n > n}]
<1>1. /\ DOMAIN after = DOMAIN c /\ after.key = c.key /\ after.next = c.next /\ after.queue = c.queue
      /\ after.done = n /\ after.ready = Append(c.ready, whole) /\ after.parts = parts /\ after.tries = c.tries
      /\ after.asked = c.asked /\ after.acked = c.acked /\ after.asking = c.asking /\ after.shut = c.shut
      /\ after.probe = c.probe /\ after.reason = c.reason
  BY FreshFields DEF ChannelOK
<1> HIDE DEF after
<1>2. Incomplete(after) \subseteq Incomplete(c) \ {n}
  BY <1>1 DEF Incomplete, ChannelOK
<1>3. IsFiniteSet(Incomplete(c))
  BY DEF ChannelOK
<1>4. /\ IsFiniteSet(Incomplete(c) \ {n})
      /\ Cardinality(Incomplete(c) \ {n}) =
           IF n \in Incomplete(c) THEN Cardinality(Incomplete(c)) - 1 ELSE Cardinality(Incomplete(c))
  BY <1>3, FS_RemoveElement
<1>5. IsFiniteSet(Incomplete(after)) /\ Cardinality(Incomplete(after)) <= Cardinality(Incomplete(c) \ {n})
  BY <1>2, <1>4, FS_Subset
<1>6. /\ Cardinality(Incomplete(c)) \in Nat /\ Cardinality(Incomplete(c) \ {n}) \in Nat
      /\ Cardinality(Incomplete(after)) \in Nat /\ Len(c.ready) \in Nat /\ MaxHeld \in Nat
  BY SMTT(20), <1>3, <1>4, <1>5, FS_CardinalityType, Sizes DEF ChannelOK
<1>7. after.ready \in Seq(SUBSET Nat) /\ Len(after.ready) = Len(c.ready) + 1
  BY <1>1 DEF ChannelOK
<1>8. Cardinality(Incomplete(after)) + Len(after.ready) <= MaxHeld
  BY <1>4, <1>5, <1>6, <1>7 DEF TooMany, ChannelOK
<1>9. after.parts \subseteq [n : Nat, frag : 1 .. Frags, body : Nat]
  BY <1>1 DEF ChannelOK
<1>10. ChannelOK(after)
  BY <1>1, <1>5, <1>7, <1>8, <1>9 DEF ChannelOK
<1> QED BY <1>10 DEF after

LEMMA BecomesOK ==
  ASSUME TypeOK, NEW x \in End, NEW c, ChannelOK(c), Becomes(x, c)
  PROVE  DOMAIN ch' = End /\ \A e \in End : ChannelOK(ch'[e])
BY DEF Becomes, TypeOK

LEMMA AlikeOK ==
  ASSUME NEW c, ChannelOK(c), NEW d, DOMAIN d = DOMAIN c, d.parts = c.parts, d.key = c.key, d.done = c.done,
         d.shut = c.shut, d.reason = c.reason, d.ready \in Seq(SUBSET Nat), Len(d.ready) <= Len(c.ready),
         d.next \in Nat, d.queue \in Seq([n : Nat, body : Nat]), Len(d.queue) <= MaxQueued,
         d.tries \in 0 .. (MaxAttempts + 1), d.asked \in 0 .. (MaxProbes + 1), d.acked \in Nat, d.asking \in Nat,
         d.probe \in {"idle", "pending", "alive", "dead"}, d.probe = "pending" => d.asked <= MaxProbes
  PROVE  ChannelOK(d)
<1>1. Incomplete(d) = Incomplete(c)
  BY DEF Incomplete
<1>2. IsFiniteSet(Incomplete(c)) /\ Cardinality(Incomplete(c)) \in Nat
  BY FS_CardinalityType DEF ChannelOK
<1>3. Cardinality(Incomplete(c)) + Len(c.ready) <= MaxHeld /\ Len(c.ready) \in Nat /\ Len(d.ready) \in Nat
  BY SMTT(20) DEF ChannelOK
<1>4. MaxHeld \in Nat
  BY Sizes
<1>5. Cardinality(Incomplete(d)) + Len(d.ready) <= MaxHeld
  BY <1>1, <1>2, <1>3, <1>4
<1> QED BY <1>1, <1>2, <1>5 DEF ChannelOK

LEMMA FirstOK ==
  ASSUME NEW c, ChannelOK(c), c.queue # <<>>
  PROVE  /\ First(c).n \in Nat /\ First(c).body \in Nat
         /\ Tail(c.queue) \in Seq([n : Nat, body : Nat]) /\ Len(Tail(c.queue)) <= MaxQueued
<1>1. c.queue \in Seq([n : Nat, body : Nat]) /\ Len(c.queue) <= MaxQueued /\ MaxQueued \in Nat
  BY Sizes DEF ChannelOK
<1>2. Head(c.queue) \in [n : Nat, body : Nat]
  BY <1>1, HeadTailProperties
<1>3. Tail(c.queue) \in Seq([n : Nat, body : Nat]) /\ Len(Tail(c.queue)) = Len(c.queue) - 1
  BY <1>1, HeadTailProperties
<1>4. Len(c.queue) \in Nat
  BY <1>1
<1> QED BY <1>1, <1>2, <1>3, <1>4 DEF First

(* What a step leaves of the types of the network and the channels. *)
NetOK == net' \subseteq Datagrams
ChannelsOK == DOMAIN ch' = End /\ \A e \in End : ChannelOK(ch'[e])

LEMMA CloseTypes == \A x \in End : TypeOK /\ Close(x) => NetOK /\ ChannelsOK
BY BecomesOK, ClosedOK DEF Close, TypeOK, NetOK, ChannelsOK

LEMMA EndTypes == \A x \in End : TypeOK /\ EndResumeWith(x) => NetOK /\ ChannelsOK
<1> SUFFICES ASSUME NEW x \in End, TypeOK, EndResumeWith(x) PROVE NetOK /\ ChannelsOK
  OBVIOUS
<1>1. ch[x].shut \in BOOLEAN /\ turning[x] \in Keys
  BY DEF TypeOK, ChannelOK
<1> QED BY <1>1, FreshOK, BecomesOK DEF EndResumeWith, TypeOK, NetOK, ChannelsOK

LEMMA SendTypes == \A x \in Speaker : TypeOK /\ Send(x) => NetOK /\ ChannelsOK
<1> SUFFICES ASSUME NEW x \in Speaker, TypeOK, Send(x) PROVE NetOK /\ ChannelsOK
  OBVIOUS
<1>0. x \in End /\ ChannelOK(ch[x]) /\ said[x] \in Nat
  BY Sizes DEF TypeOK
<1>1. CASE Len(ch[x].queue) >= MaxQueued
  BY <1>0, <1>1, BecomesOK, ClosedOK DEF Send, TypeOK, NetOK, ChannelsOK
<1>2. CASE ~(Len(ch[x].queue) >= MaxQueued)
  <2> DEFINE m == [n |-> ch[x].next, body |-> said[x] + 1]
             c == [ch[x] EXCEPT !.queue = Append(@, m), !.next = @ + 1, !.tries = IF ch[x].queue = <<>> THEN 1 ELSE @]
  <2>1. Becomes(x, c) /\ IF ch[x].queue = <<>> THEN SendsFirst(x, c) ELSE UNCHANGED net
    BY <1>2 DEF Send
  <2>2. /\ DOMAIN c = DOMAIN ch[x] /\ c.key = ch[x].key /\ c.parts = ch[x].parts /\ c.done = ch[x].done
        /\ c.shut = ch[x].shut /\ c.reason = ch[x].reason /\ c.ready = ch[x].ready /\ c.acked = ch[x].acked
        /\ c.asked = ch[x].asked /\ c.asking = ch[x].asking /\ c.probe = ch[x].probe
        /\ c.next = ch[x].next + 1 /\ c.queue = Append(ch[x].queue, m) /\ c.tries \in {1, ch[x].tries}
    BY <1>0, FreshFields DEF ChannelOK
  <2> HIDE DEF c
  <2>3. /\ c.queue \in Seq([n : Nat, body : Nat]) /\ Len(c.queue) = Len(ch[x].queue) + 1
        /\ Len(ch[x].queue) \in Nat /\ MaxQueued \in Nat
    <3>1. ch[x].queue \in Seq([n : Nat, body : Nat]) /\ m \in [n : Nat, body : Nat]
      BY <1>0 DEF ChannelOK
    <3> QED BY <2>2, <3>1, Sizes
  <2>4. Len(c.queue) <= MaxQueued /\ c.queue # <<>>
    BY <1>2, <2>3
  <2>5. c.tries \in 0 .. (MaxAttempts + 1)
    <3>1. ch[x].tries \in 0 .. (MaxAttempts + 1) /\ MaxAttempts \in Nat
      BY <1>0, Sizes DEF ChannelOK
    <3> QED BY <2>2, <3>1
  <2>6. ChannelOK(c)
    <3>1. /\ c.ready \in Seq(SUBSET Nat) /\ Len(c.ready) <= Len(ch[x].ready) /\ c.next \in Nat
          /\ c.asked \in 0 .. (MaxProbes + 1) /\ c.acked \in Nat /\ c.asking \in Nat
          /\ c.probe \in {"idle", "pending", "alive", "dead"} /\ (c.probe = "pending" => c.asked <= MaxProbes)
      BY SMTT(20), <1>0, <2>2 DEF ChannelOK
    <3> QED BY <1>0, <2>2, <2>3, <2>4, <2>5, <3>1, AlikeOK
  <2>7. NetOK
    <3>1. CASE ch[x].queue = <<>>
      <4>1. First(c).n \in Nat /\ First(c).body \in Nat /\ c.key \in Keys
        BY <2>4, <2>6, FirstOK DEF ChannelOK
      <4> QED BY <1>0, <2>1, <3>1, <4>1, DatagramsOK DEF SendsFirst, Sends, TypeOK, NetOK
    <3>2. CASE ch[x].queue # <<>>
      BY <2>1, <3>2 DEF TypeOK, NetOK
    <3> QED BY <3>1, <3>2
  <2> QED BY <1>0, <2>1, <2>6, <2>7, BecomesOK DEF ChannelsOK
<1> QED BY <1>1, <1>2

LEMMA RetransmitTypes == \A x \in End : TypeOK /\ Retransmit(x) => NetOK /\ ChannelsOK
<1> SUFFICES ASSUME NEW x \in End, TypeOK, Retransmit(x) PROVE NetOK /\ ChannelsOK
  OBVIOUS
<1> DEFINE c == [ch[x] EXCEPT !.tries = @ + 1]
<1>0. ChannelOK(ch[x]) /\ ch[x].queue # <<>>
  BY DEF TypeOK, Retransmit
<1>1. /\ DOMAIN c = DOMAIN ch[x] /\ c.key = ch[x].key /\ c.parts = ch[x].parts /\ c.done = ch[x].done
      /\ c.shut = ch[x].shut /\ c.reason = ch[x].reason /\ c.ready = ch[x].ready /\ c.acked = ch[x].acked
      /\ c.asked = ch[x].asked /\ c.asking = ch[x].asking /\ c.probe = ch[x].probe
      /\ c.next = ch[x].next /\ c.queue = ch[x].queue /\ c.tries = ch[x].tries + 1
  BY <1>0, FreshFields DEF ChannelOK
<1>2. \/ Becomes(x, Closed(c, "peer-lost")) /\ UNCHANGED net
      \/ Becomes(x, c) /\ SendsFirst(x, ch[x])
  BY DEF Retransmit
<1>3. ch[x].tries <= MaxAttempts
  BY DEF Retransmit
<1> HIDE DEF c
<1>4. ChannelOK(c)
  <2>1. ch[x].tries \in 0 .. (MaxAttempts + 1) /\ MaxAttempts \in Nat
    BY <1>0, Sizes DEF ChannelOK
  <2>2. c.tries \in 0 .. (MaxAttempts + 1)
    BY <1>1, <1>3, <2>1
  <2>3. /\ c.ready \in Seq(SUBSET Nat) /\ Len(c.ready) <= Len(ch[x].ready) /\ c.next \in Nat
        /\ c.asked \in 0 .. (MaxProbes + 1) /\ c.acked \in Nat /\ c.asking \in Nat
        /\ c.probe \in {"idle", "pending", "alive", "dead"} /\ (c.probe = "pending" => c.asked <= MaxProbes)
        /\ c.queue \in Seq([n : Nat, body : Nat]) /\ Len(c.queue) <= MaxQueued
    BY <1>0, <1>1 DEF ChannelOK
  <2> QED BY <1>0, <1>1, <2>2, <2>3, AlikeOK
<1>5. ChannelsOK
  BY <1>2, <1>4, BecomesOK, ClosedOK DEF ChannelsOK
<1>6. NetOK
  <2>1. First(ch[x]).n \in Nat /\ First(ch[x]).body \in Nat /\ ch[x].key \in Keys
    BY <1>0, FirstOK DEF ChannelOK
  <2> QED BY <1>2, <2>1, DatagramsOK DEF SendsFirst, Sends, TypeOK, NetOK
<1> QED BY <1>5, <1>6

LEMMA ProbeTypes == \A x \in End : TypeOK /\ (StartProbe(x) \/ ProbeTick(x)) => NetOK /\ ChannelsOK
<1> SUFFICES ASSUME NEW x \in End, TypeOK, StartProbe(x) \/ ProbeTick(x) PROVE NetOK /\ ChannelsOK
  OBVIOUS
<1> DEFINE c1 == [ch[x] EXCEPT !.probe = "pending", !.asking = ch[x].acked, !.asked = 1]
           c2 == [ch[x] EXCEPT !.probe = "dead", !.asked = @ + 1]
           c3 == [ch[x] EXCEPT !.asked = @ + 1]
<1>0. ChannelOK(ch[x])
  BY DEF TypeOK
<1>1. \A c \in {c1, c2, c3} :
        /\ DOMAIN c = DOMAIN ch[x] /\ c.key = ch[x].key /\ c.parts = ch[x].parts /\ c.done = ch[x].done
        /\ c.shut = ch[x].shut /\ c.reason = ch[x].reason /\ c.ready = ch[x].ready /\ c.acked = ch[x].acked
        /\ c.next = ch[x].next /\ c.queue = ch[x].queue /\ c.tries = ch[x].tries
        /\ c.asking \in {ch[x].asking, ch[x].acked} /\ c.probe \in {ch[x].probe, "pending", "dead"}
        /\ c.asked \in {1, ch[x].asked + 1}
  BY ZenonT(30), <1>0, FreshFields DEF ChannelOK
<1>2. PICK c \in {c1, c2, c3} :
        Becomes(x, c) /\ c.asked \in 0 .. (MaxProbes + 1) /\ (c.probe = "pending" => c.asked <= MaxProbes)
  <2>1. ch[x].asked \in 0 .. (MaxProbes + 1) /\ MaxProbes \in Nat \ {0}
    BY <1>0, Sizes DEF ChannelOK
  <2>2. /\ c1.asked = 1 /\ c2.asked = ch[x].asked + 1 /\ c3.asked = ch[x].asked + 1
        /\ c2.probe = "dead" /\ c3.probe = ch[x].probe
    BY <1>0, FreshFields DEF ChannelOK
  <2>3. CASE StartProbe(x)
    <3>1. Becomes(x, c1)
      BY <2>3 DEF StartProbe
    <3> QED BY <2>1, <2>2, <3>1
  <2>4. CASE ProbeTick(x)
    <3>1. ch[x].asked <= MaxProbes
      BY <1>0, <2>4 DEF ProbeTick, ChannelOK
    <3>2. (ch[x].asked + 1 > MaxProbes /\ Becomes(x, c2)) \/ (ch[x].asked + 1 <= MaxProbes /\ Becomes(x, c3))
      BY <2>1, <2>4 DEF ProbeTick
    <3> HIDE DEF c1, c2, c3
    <3> QED BY <2>1, <2>2, <3>1, <3>2
  <2> QED BY <2>3, <2>4
<1> HIDE DEF c1, c2, c3
<1>3. ChannelOK(c)
  <2>1. /\ c.ready \in Seq(SUBSET Nat) /\ Len(c.ready) <= Len(ch[x].ready) /\ c.next \in Nat
        /\ c.acked \in Nat /\ c.asking \in Nat /\ c.probe \in {"idle", "pending", "alive", "dead"}
        /\ c.queue \in Seq([n : Nat, body : Nat]) /\ Len(c.queue) <= MaxQueued
        /\ c.tries \in 0 .. (MaxAttempts + 1)
    BY <1>0, <1>1 DEF ChannelOK
  <2> QED BY <1>0, <1>1, <1>2, <2>1, AlikeOK
<1>4. ChannelsOK
  BY <1>2, <1>3, BecomesOK DEF ChannelsOK
<1>5. NetOK
  <2>1. ch[x].acked \in Nat /\ ch[x].asking \in Nat /\ ch[x].key \in Keys
    BY <1>0 DEF ChannelOK
  <2>2. UNCHANGED net \/ SendsProbe(x, ch[x].acked) \/ SendsProbe(x, ch[x].asking)
    BY DEF StartProbe, ProbeTick
  <2>3. \A n \in Nat : Data(Tx(x), n, 0, {Probe}) \subseteq Datagrams
    BY <2>1, DatagramsOK DEF Tx
  <2> QED BY <2>1, <2>2, <2>3 DEF SendsProbe, Sends, TypeOK, NetOK
<1> QED BY <1>4, <1>5

LEMMA AckTypes ==
  ASSUME TypeOK, NEW x \in End, NEW d \in net, d.kind # "data", HandleAck(x, d)
  PROVE  NetOK /\ ChannelsOK
<1> DEFINE popped == [ch[x] EXCEPT !.acked = d.n, !.queue = Tail(@), !.tries = 1]
           alive == [ch[x] EXCEPT !.probe = "alive"]
<1>0. ChannelOK(ch[x]) /\ ch[x].key \in Keys
  BY DEF TypeOK, ChannelOK
<1>1. CASE UNCHANGED <<ch, net>>
  BY <1>1 DEF TypeOK, NetOK, ChannelsOK
<1>2. CASE Becomes(x, alive) /\ UNCHANGED net
  <2>1. /\ DOMAIN alive = DOMAIN ch[x] /\ alive.key = ch[x].key /\ alive.parts = ch[x].parts
        /\ alive.done = ch[x].done /\ alive.shut = ch[x].shut /\ alive.reason = ch[x].reason
        /\ alive.ready = ch[x].ready /\ alive.acked = ch[x].acked /\ alive.asked = ch[x].asked
        /\ alive.asking = ch[x].asking /\ alive.next = ch[x].next /\ alive.queue = ch[x].queue
        /\ alive.tries = ch[x].tries /\ alive.probe = "alive"
    BY <1>0, FreshFields DEF ChannelOK
  <2> HIDE DEF alive
  <2>2. /\ ch[x].ready \in Seq(SUBSET Nat) /\ Len(ch[x].ready) <= Len(ch[x].ready) /\ ch[x].next \in Nat
        /\ ch[x].acked \in Nat /\ ch[x].asking \in Nat /\ ch[x].asked \in 0 .. (MaxProbes + 1)
        /\ ch[x].queue \in Seq([n : Nat, body : Nat]) /\ Len(ch[x].queue) <= MaxQueued
        /\ ch[x].tries \in 0 .. (MaxAttempts + 1)
    BY <1>0 DEF ChannelOK
  <2>3. ChannelOK(alive)
    BY <1>0, <2>1, <2>2, AlikeOK
  <2> QED BY <1>2, <2>3, BecomesOK DEF TypeOK, NetOK, ChannelsOK
<1>3. CASE /\ d.kind = "nack" /\ ch[x].queue # <<>> /\ UNCHANGED ch
           /\ Sends(Data(Tx(x), First(ch[x]).n, First(ch[x]).body, d.missing))
  <2>1. d.missing \subseteq {Probe} \cup 1 .. Frags
    BY <1>3 DEF TypeOK, Datagrams
  <2>2. First(ch[x]).n \in Nat /\ First(ch[x]).body \in Nat
    BY <1>0, <1>3, FirstOK
  <2>3. Data(Tx(x), First(ch[x]).n, First(ch[x]).body, d.missing) \subseteq Datagrams
    BY <1>0, <2>1, <2>2, DatagramsOK DEF Tx
  <2> QED BY <1>3, <2>3 DEF Sends, TypeOK, NetOK, ChannelsOK
<1>4. CASE /\ ch[x].queue # <<>> /\ Becomes(x, popped)
           /\ IF popped.queue # <<>> THEN SendsFirst(x, popped) ELSE UNCHANGED net
  <2>1. /\ DOMAIN popped = DOMAIN ch[x] /\ popped.key = ch[x].key /\ popped.parts = ch[x].parts
        /\ popped.done = ch[x].done /\ popped.shut = ch[x].shut /\ popped.reason = ch[x].reason
        /\ popped.ready = ch[x].ready /\ popped.acked = d.n /\ popped.asked = ch[x].asked
        /\ popped.asking = ch[x].asking /\ popped.next = ch[x].next /\ popped.queue = Tail(ch[x].queue)
        /\ popped.tries = 1 /\ popped.probe = ch[x].probe
    BY <1>0, FreshFields DEF ChannelOK
  <2> HIDE DEF popped
  <2>2. /\ ch[x].ready \in Seq(SUBSET Nat) /\ Len(ch[x].ready) <= Len(ch[x].ready) /\ ch[x].next \in Nat
        /\ ch[x].asking \in Nat /\ ch[x].asked \in 0 .. (MaxProbes + 1)
        /\ ch[x].probe \in {"idle", "pending", "alive", "dead"} /\ (ch[x].probe = "pending" => ch[x].asked <= MaxProbes)
    BY <1>0 DEF ChannelOK
  <2>3. popped.queue \in Seq([n : Nat, body : Nat]) /\ Len(popped.queue) <= MaxQueued
    BY <1>0, <1>4, <2>1, FirstOK
  <2>4. d.n \in Nat /\ 1 \in 0 .. (MaxAttempts + 1)
    BY Sizes DEF TypeOK, Datagrams
  <2>5. ChannelOK(popped)
    BY <1>0, <2>1, <2>2, <2>3, <2>4, AlikeOK
  <2>6. NetOK
    <3>1. CASE popped.queue # <<>>
      <4>1. Data(Stream(x, popped.key), First(popped).n, First(popped).body, 1 .. Frags) \subseteq Datagrams
        BY <1>0, <2>1, <2>5, <3>1, FirstOK, DatagramsOK
      <4> QED BY <1>4, <3>1, <4>1 DEF SendsFirst, Sends, TypeOK, NetOK
    <3>2. CASE popped.queue = <<>>
      BY <1>4, <3>2 DEF TypeOK, NetOK
    <3> QED BY <3>1, <3>2
  <2> QED BY <1>4, <2>5, <2>6, BecomesOK DEF ChannelsOK
<1> QED BY <1>1, <1>2, <1>3, <1>4 DEF HandleAck

LEMMA DataTypes ==
  ASSUME TypeOK, NEW x \in End, NEW d \in net, d.kind = "data", HandleData(x, d)
  PROVE  NetOK /\ ChannelsOK
<1> DEFINE p == Part(d)
           more == [ch[x] EXCEPT !.parts = @ \cup {p}]
           whole == {q.body : q \in {r \in more.parts : r.n = d.n}}
           after == [ch[x] EXCEPT !.done = d.n, !.ready = Append(@, whole), !.parts = {q \in @ : q.n > d.n}]
<1>0. /\ ChannelOK(ch[x]) /\ d.n \in Nat /\ d.frag \in {Probe} \cup 1 .. Frags /\ d.body \in Nat
      /\ Ack(d.stream, d.n) \in Datagrams
  BY DEF TypeOK, Datagrams, Ack
<1>1. CASE UNCHANGED ch /\ (UNCHANGED net \/ Sends({Ack(d.stream, d.n)}))
  BY <1>0, <1>1 DEF Sends, TypeOK, NetOK, ChannelsOK
<1>2. CASE Becomes(x, Closed(ch[x], "resource")) /\ UNCHANGED net
  BY <1>0, <1>2, BecomesOK, ClosedOK DEF TypeOK, NetOK, ChannelsOK
<1>3. CASE d.frag # Probe /\ ~TooMany(ch[x], d.n) /\ Becomes(x, more) /\ UNCHANGED net
  <2>1. p \in [n : Nat, frag : 1 .. Frags, body : Nat] /\ p.n = d.n
    BY <1>0, <1>3 DEF Part
  <2>2. ChannelOK(more)
    BY <1>0, <1>3, <2>1, HoldsMoreOK
  <2> QED BY <1>3, <2>2, BecomesOK DEF TypeOK, NetOK, ChannelsOK
<1>4. CASE d.frag # Probe /\ ~TooMany(ch[x], d.n) /\ Becomes(x, after) /\ Sends({Ack(d.stream, d.n)})
  <2>1. p \in [n : Nat, frag : 1 .. Frags, body : Nat]
    BY <1>0, <1>4 DEF Part
  <2>2. more.parts \subseteq [n : Nat, frag : 1 .. Frags, body : Nat]
    BY <1>0, <2>1, FreshFields DEF ChannelOK
  <2> HIDE DEF more
  <2>3. whole \in SUBSET Nat
    BY <2>2
  <2> HIDE DEF whole
  <2>4. ChannelOK(after)
    BY <1>0, <1>4, <2>3, DeliversOK
  <2> QED BY <1>0, <1>4, <2>4, BecomesOK DEF Sends, TypeOK, NetOK, ChannelsOK
<1>5. CASE /\ d.frag \notin Had(ch[x], d.n) \cup {Probe}
           /\ IF TooMany(ch[x], d.n) THEN Becomes(x, Closed(ch[x], "resource")) /\ UNCHANGED net
              ELSE IF Cardinality(Had(more, d.n)) < Frags THEN Becomes(x, more) /\ UNCHANGED net
              ELSE Becomes(x, after) /\ Sends({Ack(d.stream, d.n)})
  <2> HIDE DEF more, after
  <2> QED BY <1>2, <1>3, <1>4, <1>5
<1> QED BY <1>1, <1>5 DEF HandleData, Part

LEMMA TickTypes == \A x \in End : TypeOK /\ (AskForMissing(x) \/ ForgetIncomplete(x)) => NetOK /\ ChannelsOK
<1> SUFFICES ASSUME NEW x \in End, TypeOK, AskForMissing(x) \/ ForgetIncomplete(x) PROVE NetOK /\ ChannelsOK
  OBVIOUS
<1>0. ChannelOK(ch[x])
  BY DEF TypeOK
<1>1. CASE AskForMissing(x)
  <2>1. PICK n \in Incomplete(ch[x]) : Sends({Nack(Rx(x), n, (1 .. Frags) \ Had(ch[x], n))}) /\ UNCHANGED ch
    BY <1>1 DEF AskForMissing
  <2>2. n \in Nat /\ ch[x].key \in Keys /\ Other(x) \in End
    BY <1>0, TwoEnds DEF Incomplete, ChannelOK
  <2>3. Nack(Rx(x), n, (1 .. Frags) \ Had(ch[x], n)) \in Datagrams
    BY <2>2, DatagramsOK DEF Rx
  <2> QED BY <2>1, <2>3 DEF Sends, TypeOK, NetOK, ChannelsOK
<1>2. CASE ForgetIncomplete(x)
  <2>1. PICK n : Becomes(x, [ch[x] EXCEPT !.parts = {p \in @ : p.n # n}]) /\ UNCHANGED net
    BY <1>2 DEF ForgetIncomplete
  <2> DEFINE parts == {p \in ch[x].parts : p.n # n}
  <2>2. Becomes(x, [ch[x] EXCEPT !.parts = parts]) /\ parts \subseteq ch[x].parts
    BY <2>1
  <2>3. ChannelOK([ch[x] EXCEPT !.parts = parts])
    BY <1>0, <2>2, PartsOK
  <2> QED BY <2>1, <2>2, <2>3, BecomesOK DEF TypeOK, NetOK, ChannelsOK
<1> QED BY <1>1, <1>2

LEMMA ReceiveTypes == \A x \in End : TypeOK /\ Receive(x) => NetOK /\ ChannelsOK
<1> SUFFICES ASSUME NEW x \in End, TypeOK, Receive(x) PROVE NetOK /\ ChannelsOK
  OBVIOUS
<1> DEFINE c == [ch[x] EXCEPT !.ready = Tail(@)]
<1>0. ChannelOK(ch[x]) /\ ch[x].ready # <<>>
  BY DEF TypeOK, Receive
<1>1. /\ DOMAIN c = DOMAIN ch[x] /\ c.key = ch[x].key /\ c.parts = ch[x].parts /\ c.done = ch[x].done
      /\ c.shut = ch[x].shut /\ c.reason = ch[x].reason /\ c.ready = Tail(ch[x].ready) /\ c.acked = ch[x].acked
      /\ c.asked = ch[x].asked /\ c.asking = ch[x].asking /\ c.probe = ch[x].probe
      /\ c.next = ch[x].next /\ c.queue = ch[x].queue /\ c.tries = ch[x].tries
  BY <1>0, FreshFields DEF ChannelOK
<1>2. Becomes(x, c) /\ UNCHANGED net
  BY DEF Receive
<1> HIDE DEF c
<1>3. c.ready \in Seq(SUBSET Nat) /\ Len(c.ready) <= Len(ch[x].ready)
  <2>1. ch[x].ready \in Seq(SUBSET Nat)
    BY <1>0 DEF ChannelOK
  <2>2. c.ready \in Seq(SUBSET Nat) /\ Len(c.ready) = Len(ch[x].ready) - 1
    BY <1>0, <1>1, <2>1, HeadTailProperties
  <2>3. Len(ch[x].ready) \in Nat
    BY <2>1
  <2> QED BY <2>2, <2>3
<1>4. /\ ch[x].next \in Nat /\ ch[x].acked \in Nat /\ ch[x].asking \in Nat /\ ch[x].asked \in 0 .. (MaxProbes + 1)
      /\ ch[x].queue \in Seq([n : Nat, body : Nat]) /\ Len(ch[x].queue) <= MaxQueued
      /\ ch[x].tries \in 0 .. (MaxAttempts + 1)
      /\ ch[x].probe \in {"idle", "pending", "alive", "dead"} /\ (ch[x].probe = "pending" => ch[x].asked <= MaxProbes)
  BY <1>0 DEF ChannelOK
<1>5. ChannelOK(c)
  BY <1>0, <1>1, <1>3, <1>4, AlikeOK
<1> QED BY <1>2, <1>5, BecomesOK DEF TypeOK, NetOK, ChannelsOK

(* Only one end hears at a time, and it hears one body. *)
LEMMA AppsTypes == TypeOK /\ [Next]_vars => {said, heard, given_up}' \subseteq [Speaker -> Nat] /\ turning' \in [End -> Keys]
<1> SUFFICES ASSUME TypeOK, [Next]_vars
             PROVE {said', heard', given_up'} \subseteq [Speaker -> Nat] /\ turning' \in [End -> Keys]
  OBVIOUS
<1>1. ASSUME NEW x \in End, BeginResumeWith(x) PROVE UNCHANGED apps /\ turning' \in [End -> Keys]
  <2>1. PICK k \in (ch[x].key + 1) .. MaxKey : turning' = [turning EXCEPT ![x] = k]
    BY <1>1 DEF BeginResumeWith
  <2>2. ch[x].key \in Nat /\ MaxKey \in Nat
    BY Sizes DEF TypeOK, ChannelOK, Keys
  <2>3. k \in Keys
    BY <2>1, <2>2 DEF Keys
  <2> QED BY <1>1, <2>1, <2>3 DEF BeginResumeWith, TypeOK
<1>2. ASSUME NEW x \in End, EndResumeWith(x)
      PROVE /\ turning' \in [End -> Keys] /\ UNCHANGED <<said, heard>> /\ given_up' \in [Speaker -> Nat]
  BY <1>2, Sizes DEF EndResumeWith, TypeOK, Keys
<1>3. ASSUME NEW x \in Speaker, Send(x)
      PROVE UNCHANGED <<turning, heard, given_up>> /\ said' \in [Speaker -> Nat]
  BY SMTT(20), <1>3 DEF Send, TypeOK
<1>4. ASSUME NEW x \in End, Receive(x)
      PROVE UNCHANGED <<turning, said, given_up>> /\ heard' \in [Speaker -> Nat]
  <2> DEFINE whole == Head(ch[x].ready)
             m == IF Cardinality(whole) = 1 THEN CHOOSE b \in whole : TRUE ELSE MaxSaid + 1
  <2>1. whole \in SUBSET Nat
    BY <1>4, HeadTailProperties DEF Receive, TypeOK, ChannelOK
  <2>2. Cardinality(whole) = 1 => \E b \in whole : TRUE
    <3>1. Cardinality({}) = 0
      BY FS_EmptySet
    <3> QED BY <3>1
  <2>3. m \in Nat
    BY <2>1, <2>2, Sizes
  <2>4. heard' = [heard EXCEPT ![Other(x)] = m] /\ UNCHANGED <<turning, said, given_up>>
    BY <1>4 DEF Receive
  <2> HIDE DEF m
  <2> QED BY <2>3, <2>4 DEF TypeOK
<1>5. CASE UNCHANGED <<turning, apps>>
  BY <1>5 DEF apps, TypeOK
<1>6. ASSUME NEW x \in End, Close(x) \/ OnPacket(x) \/ Tick(x) \/ StartProbe(x) PROVE UNCHANGED <<turning, apps>>
  BY <1>6 DEF Close, OnPacket, Tick, Retransmit, ProbeTick, AskForMissing, ForgetIncomplete, StartProbe
<1>7. UNCHANGED vars => UNCHANGED <<turning, apps>>
  BY DEF vars
<1> QED BY <1>1, <1>2, <1>3, <1>4, <1>5, <1>6, <1>7, Sizes DEF Next, TypeOK, apps

LEMMA TypesStep == TypeOK /\ [Next]_vars => TypeOK'
<1> SUFFICES ASSUME TypeOK, [Next]_vars PROVE NetOK /\ ChannelsOK
  BY AppsTypes DEF TypeOK, NetOK, ChannelsOK
<1>1. CASE UNCHANGED vars
  BY <1>1 DEF vars, TypeOK, NetOK, ChannelsOK
<1>2. ASSUME NEW x \in End, BeginResumeWith(x) PROVE NetOK /\ ChannelsOK
  BY <1>2 DEF BeginResumeWith, TypeOK, NetOK, ChannelsOK
<1>3. ASSUME NEW x \in End, OnPacket(x) PROVE NetOK /\ ChannelsOK
  BY <1>3, AckTypes, DataTypes DEF OnPacket
<1>4. ASSUME NEW x \in End, Tick(x) PROVE NetOK /\ ChannelsOK
  BY <1>4, RetransmitTypes, ProbeTypes, TickTypes DEF Tick
<1>5. ASSUME NEW x \in Speaker, StartProbe(x) \/ Send(x) PROVE NetOK /\ ChannelsOK
  BY <1>5, ProbeTypes, SendTypes, Sizes
<1> QED BY <1>1, <1>2, <1>3, <1>4, <1>5, CloseTypes, EndTypes, ReceiveTypes DEF Next

LEMMA TypesInit == Init => TypeOK
<1> SUFFICES ASSUME Init PROVE TypeOK
  OBVIOUS
<1>1. 0 \in Keys
  BY Sizes DEF Keys
<1>2. ASSUME NEW c, DOMAIN c = DOMAIN Fresh(0), \A i \in DOMAIN c : c[i] = Fresh(0)[i], ChannelOK(c)
      PROVE ChannelOK(Fresh(0))
  BY <1>2, FreshFields DEF ChannelOK, Incomplete
<1>3. ChannelOK(Fresh(0))
  <2> DEFINE c == [Fresh(0) EXCEPT !.shut = FALSE]
  <2>1. DOMAIN c = DOMAIN Fresh(0) /\ \A i \in DOMAIN c : c[i] = Fresh(0)[i]
    <3>1. Fresh(0).shut = FALSE
      BY DEF Fresh
    <3> QED BY <3>1, FreshFields
  <2>2. ChannelOK(c)
    BY <1>1, FreshOK
  <2> HIDE DEF c
  <2> QED BY <1>2, <2>1, <2>2
<1> QED BY <1>1, <1>3 DEF Init, TypeOK
-----------------------------------------------------------------------------
(* The invariant *)

LEMMA ChannelInit == Init => ChannelInv
<1> SUFFICES ASSUME Init PROVE ChannelInv
  OBVIOUS
<1>1. \A e \in End : /\ ch[e].key = 0 /\ ch[e].next = 1 /\ ch[e].acked = 0 /\ ch[e].queue = <<>>
                     /\ ch[e].done = 0 /\ ch[e].ready = <<>> /\ ch[e].parts = {} /\ turning[e] = 0
  BY DEF Init, Fresh
<1>2. KeysClose
  BY <1>1, TwoEnds DEF KeysClose
<1>3. \A s : Pieces(s) = {}
  BY DEF Init, Pieces
<1>4. ASSUME NEW e \in Speaker PROVE QueueInv(e) /\ PiecesInv(e) /\ AcksInv(e) /\ ReceivedInv(e) /\ HeardInv(e)
  <2>1. e \in End /\ Other(e) \in End /\ said[e] = 0 /\ heard[e] = 0 /\ given_up[e] = 0 /\ net = {}
    BY Sizes, TwoEnds DEF Init
  <2>2. QueueInv(e)
    BY <1>1, <2>1 DEF QueueInv
  <2>3. PiecesInv(e) /\ AcksInv(e)
    BY <1>3, <2>1 DEF PiecesInv, AcksInv
  <2>4. ReceivedInv(e)
    BY <1>1, <1>3, <2>1 DEF ReceivedInv
  <2>5. HeardInv(e)
    BY <1>3, <2>1 DEF HeardInv
  <2> QED BY <2>2, <2>3, <2>4, <2>5
<1> QED BY <1>2, <1>4, TypesInit DEF ChannelInv

LEMMA KeysStep == TypeOK /\ KeysClose /\ [Next]_vars => KeysClose'
<1> SUFFICES ASSUME TypeOK, KeysClose, [Next]_vars PROVE KeysClose'
  OBVIOUS
<1>0. \A e \in End : ch[e].key \in Nat /\ turning[e] \in Nat /\ Other(e) \in End
  BY TwoEnds, Sizes DEF TypeOK, ChannelOK, Keys
<1>1. ASSUME NEW x \in End, BeginResumeWith(x) PROVE KeysClose'
  <2>1. PICK k \in (ch[x].key + 1) .. MaxKey :
          k <= 1 + ch[Other(x)].key /\ turning' = [turning EXCEPT ![x] = k] /\ UNCHANGED ch
    BY <1>1 DEF BeginResumeWith
  <2>2. \A e \in End : turning'[e] = IF e = x THEN k ELSE turning[e]
    BY <2>1 DEF TypeOK
  <2> QED BY <1>0, <2>1, <2>2, Sizes DEF KeysClose
<1>2. ASSUME NEW x \in End, EndResumeWith(x) PROVE KeysClose'
  <2>1. \A e \in End : /\ ch'[e].key = IF e = x THEN turning[x] ELSE ch[e].key
                       /\ turning'[e] = IF e = x THEN 0 ELSE turning[e]
    <3>1. [Fresh(turning[x]) EXCEPT !.shut = ch[x].shut].key = turning[x]
      BY DEF Fresh
    <3>2. ch'[x].key = turning[x] /\ \A y \in End \ {x} : ch'[y] = ch[y]
      BY <1>2, <3>1, BecomesOnly DEF EndResumeWith
    <3> QED BY <1>2, <3>2 DEF EndResumeWith, TypeOK
  <2>2. turning[x] # 0
    BY <1>2 DEF EndResumeWith, Locked
  <2>3. ch[x].key < turning[x] /\ turning[x] <= ch[Other(x)].key + 1
    BY <2>2 DEF KeysClose
  <2> QED BY <1>0, <2>1, <2>3, TwoEnds DEF KeysClose
<1>3. ASSUME UNCHANGED turning, \A e \in End : ch'[e].key = ch[e].key PROVE KeysClose'
  BY <1>3, <1>0 DEF KeysClose
<1>4. (\E x \in End : BeginResumeWith(x) \/ EndResumeWith(x)) \/ UNCHANGED turning
  BY DEF Next, vars, Close, OnPacket, Tick, Retransmit, ProbeTick, AskForMissing, ForgetIncomplete, Receive, Send,
         StartProbe
<1>5. (\E x \in End : EndResumeWith(x)) \/ \A e \in End : ch'[e].key = ch[e].key
  BY Kinds DEF Queues, Pops, Holds, Delivers, Reads, Acts
<1> QED BY <1>1, <1>2, <1>3, <1>4, <1>5

(* After a repair. *)
LEMMA RepairResets ==
  ASSUME TypeOK, NEW x \in End, EndResumeWith(x)
  PROVE  /\ ch'[x].key = turning[x] /\ ch'[x].next = 1 /\ ch'[x].queue = <<>> /\ ch'[x].acked = 0
         /\ ch'[x].done = 0 /\ ch'[x].ready = <<>> /\ ch'[x].parts = {}
         /\ \A y \in End \ {x} : ch'[y] = ch[y]
         /\ turning[x] # 0 /\ UNCHANGED <<net, said, heard>>
         /\ \A e \in Speaker : given_up'[e] = IF e = x THEN said[e] ELSE given_up[e]
<1> DEFINE c == [Fresh(turning[x]) EXCEPT !.shut = ch[x].shut]
<1>1. /\ c.key = turning[x] /\ c.next = 1 /\ c.queue = <<>> /\ c.acked = 0 /\ c.done = 0 /\ c.ready = <<>>
      /\ c.parts = {}
  BY DEF Fresh
<1> HIDE DEF c
<1>2. ch'[x] = c /\ \A y \in End \ {x} : ch'[y] = ch[y]
  BY BecomesOnly DEF EndResumeWith, c
<1> QED BY <1>1, <1>2 DEF EndResumeWith, Locked, TypeOK

(* What is new on a stream is of the message under way. *)
LEMMA NewPieces ==
  ASSUME TypeOK, TypeOK', NEW x \in End, Acts(x), NEW e \in End, NEW k \in Keys, NEW d \in Pieces(Stream(e, k))',
         d \notin Pieces(Stream(e, k))
  PROVE  /\ x = e /\ k = ch[e].key /\ ch'[e].queue # <<>>
         /\ d.n = First(ch'[e]).n /\ d.body = First(ch'[e]).body
<1>1. d \in net' \ net /\ d.kind = "data" /\ d.stream = Stream(e, k) /\ d.frag # Probe
  BY DEF Pieces
<1> QED BY <1>1 DEF Acts, Sent, Tx, Stream

LEMMA NewAcks ==
  ASSUME TypeOK, NEW x \in End, Acts(x), NEW e \in End, NEW k \in Keys, NEW n \in Nat,
         Ack(Stream(e, k), n) \in net', Ack(Stream(e, k), n) \notin net
  PROVE  x = Other(e) /\ k = ch[x].key /\ n <= ch'[x].done
<1>1. Ack(Stream(e, k), n).kind = "ack" /\ Ack(Stream(e, k), n).stream = Stream(e, k) /\ Ack(Stream(e, k), n).n = n
  BY DEF Ack
<1>2. Stream(e, k) = Rx(x) /\ n <= ch'[x].done
  BY <1>1 DEF Acts, Sent
<1> QED BY <1>2, TwoEnds DEF Rx, Stream

LEMMA PiecesStay == \A s : net \subseteq net' => Pieces(s) \subseteq Pieces(s)'
BY DEF Pieces

LEMMA PieceTypes ==
  ASSUME TypeOK, NEW s
  PROVE  \A d \in Pieces(s) : d.n \in Nat /\ d.body \in Nat
BY DEF Pieces, TypeOK, Datagrams

(* The numbers of an end. *)
Typed(e) ==
  /\ ch[e].key \in Nat /\ ch[e].key \in Keys /\ ch[e].next \in Nat /\ ch[e].acked \in Nat /\ ch[e].done \in Nat
  /\ ch[e].queue \in Seq([n : Nat, body : Nat]) /\ Len(ch[e].queue) \in Nat
  /\ ch[e].ready \in Seq(SUBSET Nat) /\ Len(ch[e].ready) \in Nat
  /\ turning[e] \in Nat /\ turning[e] \in Keys
  /\ e \in Speaker => said[e] \in Nat /\ heard[e] \in Nat /\ given_up[e] \in Nat

LEMMA ChannelTypes == \A e \in End : TypeOK => Typed(e)
BY SMTT(20), Sizes DEF Typed, TypeOK, ChannelOK, Keys

LEMMA ChannelTypesThen == \A e \in End : TypeOK' => Typed(e)'
<1> TAKE e \in End
<1>1. TypeOK => Typed(e)
  BY ChannelTypes
<1> QED BY <1>1, PTL

LEMMA QueueStep ==
  ASSUME TypeOK, TypeOK', [Next]_vars, NEW e \in Speaker, QueueInv(e)
  PROVE  QueueInv(e)'
<1>0. e \in End
  BY Sizes
<1> DEFINE c == ch[e]
           d == ch'[e]
<1>1. PICK x \in End : EndResumeWith(x) \/ Queues(x) \/ Pops(x) \/ Holds(x) \/ Delivers(x) \/ Reads(x)
  BY Kinds
<1>2. /\ c.next \in Nat /\ c.acked \in Nat /\ c.queue \in Seq([n : Nat, body : Nat]) /\ Len(c.queue) \in Nat
      /\ said[e] \in Nat /\ given_up[e] \in Nat
  BY <1>0, ChannelTypes DEF Typed
<1>3. /\ \A i \in 1 .. Len(c.queue) : c.queue[i] = [n |-> c.acked + i, body |-> given_up[e] + c.acked + i]
      /\ c.acked > 0 => Ack(Tx(e), c.acked) \in net
  BY DEF QueueInv
<1>9. c.next = c.acked + Len(c.queue) + 1 /\ given_up[e] + c.next = said[e] + 1
  BY DEF QueueInv
<1>4. ASSUME d.key = c.key, d.next = c.next, d.queue = c.queue, d.acked = c.acked, net \subseteq net',
             said'[e] = said[e], given_up'[e] = given_up[e]
      PROVE  QueueInv(e)'
  BY <1>3, <1>4, <1>9 DEF QueueInv, Tx
<1>5. CASE EndResumeWith(x)
  <2>1. CASE x = e
    BY <1>0, <1>2, <1>5, <2>1, RepairResets DEF QueueInv
  <2>2. CASE x # e
    BY <1>0, <1>4, <1>5, <2>2, RepairResets
  <2> QED BY <2>1, <2>2
<1>6. CASE Queues(x)
  <2>1. CASE x = e
    <3>1. /\ d.queue = Append(c.queue, [n |-> c.next, body |-> said[e] + 1]) /\ d.next = c.next + 1
          /\ d.acked = c.acked /\ d.key = c.key /\ said'[e] = said[e] + 1 /\ given_up'[e] = given_up[e]
          /\ net \subseteq net'
      BY <1>6, <2>1 DEF Queues, Acts, TypeOK
    <3>2. Len(d.queue) = Len(c.queue) + 1
      BY <1>2, <3>1
    <3>3. \A i \in 1 .. Len(d.queue) : d.queue[i] = IF i = Len(c.queue) + 1 THEN [n |-> c.next, body |-> said[e] + 1] ELSE c.queue[i]
      BY <1>2, <3>1
    <3>4. \A i \in 1 .. Len(d.queue) : d.queue[i] = [n |-> d.acked + i, body |-> given_up'[e] + d.acked + i]
      <4> SUFFICES ASSUME NEW i \in 1 .. Len(d.queue)
                   PROVE d.queue[i] = [n |-> d.acked + i, body |-> given_up'[e] + d.acked + i]
        OBVIOUS
      <4>1. CASE i = Len(c.queue) + 1
        <5>1. c.next = d.acked + i /\ said[e] + 1 = given_up'[e] + d.acked + i
          <6>1. d.acked = c.acked /\ given_up'[e] = given_up[e]
            BY <3>1
          <6>2. c.next = c.acked + i
            BY <1>2, <1>9, <4>1
          <6>3. given_up[e] + (c.acked + i) = said[e] + 1
            BY <1>9, <6>2
          <6>4. i \in Nat
            BY <1>2, <4>1
          <6>5. given_up[e] + c.acked + i = said[e] + 1
            BY <1>2, <6>3, <6>4
          <6> QED BY <6>1, <6>2, <6>5
        <5> QED BY <3>3, <4>1, <5>1
      <4>2. CASE i # Len(c.queue) + 1
        <5>1. i \in 1 .. Len(c.queue)
          BY <1>2, <3>2, <4>2
        <5> QED BY <1>3, <3>1, <3>3, <4>2, <5>1
      <4> QED BY <4>1, <4>2
    <3>5. d.next = d.acked + Len(d.queue) + 1 /\ given_up'[e] + d.next = said'[e] + 1
      <4>1. d.acked = c.acked /\ given_up'[e] = given_up[e] /\ d.next = c.next + 1 /\ said'[e] = said[e] + 1
        BY <3>1
      <4>2. d.next = c.acked + Len(c.queue) + 1 + 1
        BY <1>9, <4>1
      <4>3. d.next = c.acked + Len(d.queue) + 1
        BY <1>2, <3>2, <4>2
      <4>4. given_up[e] + (c.next + 1) = said[e] + 1 + 1
        BY <1>2, <1>9
      <4>5. given_up'[e] + d.next = said[e] + 1 + 1
        BY <4>1, <4>4
      <4> QED BY <4>1, <4>3, <4>5
    <3>6. d.acked > 0 => Ack(Stream(e, d.key), d.acked) \in net'
      BY <1>3, <3>1 DEF Tx
    <3> QED BY <3>4, <3>5, <3>6 DEF QueueInv, Tx
  <2>2. CASE x # e
    BY <1>0, <1>4, <1>6, <2>2 DEF Queues, Acts, TypeOK
  <2> QED BY <2>1, <2>2
<1>7. CASE Pops(x)
  <2>1. CASE x = e
    <3>1. /\ d.queue = Tail(c.queue) /\ d.next = c.next /\ c.queue # <<>> /\ d.key = c.key
          /\ d.acked = First(c).n /\ Ack(Tx(e), First(c).n) \in net /\ net \subseteq net'
          /\ said'[e] = said[e] /\ given_up'[e] = given_up[e]
      BY <1>7, <2>1 DEF Pops, Acts, apps
    <3>2. Len(d.queue) = Len(c.queue) - 1 /\ \A i \in 1 .. Len(d.queue) : d.queue[i] = c.queue[i + 1]
      BY <1>2, <3>1, HeadTailProperties
    <3>3. Len(c.queue) > 0
      BY <1>2, <3>1
    <3>4. d.acked = c.acked + 1
      <4>1. First(c) = c.queue[1]
        BY <1>2, <3>1 DEF First
      <4>2. c.queue[1].n = c.acked + 1
        <5>1. 1 \in 1 .. Len(c.queue)
          BY <1>2, <3>3
        <5>2. c.queue[1] = [n |-> c.acked + 1, body |-> given_up[e] + c.acked + 1]
          BY <1>3, <5>1
        <5> QED BY <5>2
      <4> QED BY <3>1, <4>1, <4>2
    <3>5. \A i \in 1 .. Len(d.queue) : d.queue[i] = [n |-> d.acked + i, body |-> given_up'[e] + d.acked + i]
      <4> SUFFICES ASSUME NEW i \in 1 .. Len(d.queue)
                   PROVE d.queue[i] = [n |-> d.acked + i, body |-> given_up'[e] + d.acked + i]
        OBVIOUS
      <4>1. i + 1 \in 1 .. Len(c.queue)
        BY <1>2, <3>2
      <4>2. c.acked + (i + 1) = d.acked + i /\ given_up[e] + c.acked + (i + 1) = given_up'[e] + d.acked + i
        <5>1. given_up'[e] = given_up[e] /\ i \in Nat
          BY <1>2, <3>1, <3>2
        <5>2. c.acked + (i + 1) = c.acked + 1 + i /\ given_up[e] + c.acked + (i + 1) = given_up[e] + (c.acked + 1) + i
          <6>1. \A a, b, j \in Nat : b + (j + 1) = b + 1 + j /\ a + b + (j + 1) = a + (b + 1) + j
            OBVIOUS
          <6> QED BY ZenonT(30), <1>2, <5>1, <6>1
        <5> QED BY <3>4, <5>1, <5>2
      <4> QED BY <1>3, <3>2, <4>1, <4>2
    <3>6. d.next = d.acked + Len(d.queue) + 1 /\ given_up'[e] + d.next = said'[e] + 1
      <4>1. given_up'[e] = given_up[e] /\ d.next = c.next /\ said'[e] = said[e]
        BY <3>1
      <4> QED BY SMTT(20), <1>2, <1>9, <3>2, <3>3, <3>4, <4>1
    <3>7. Ack(Stream(e, d.key), d.acked) \in net'
      BY <3>1 DEF Tx
    <3> QED BY <3>5, <3>6, <3>7 DEF QueueInv, Tx
  <2>2. CASE x # e
    BY <1>0, <1>4, <1>7, <2>2 DEF Pops, Acts, apps
  <2> QED BY <2>1, <2>2
<1>8. CASE Holds(x) \/ Delivers(x) \/ Reads(x)
  <2>1. /\ d.key = c.key /\ d.next = c.next /\ d.queue = c.queue /\ d.acked = c.acked /\ net \subseteq net'
        /\ said'[e] = said[e] /\ given_up'[e] = given_up[e]
    BY <1>0, <1>8 DEF Holds, Delivers, Reads, Acts, SendsAlike, apps
  <2> QED BY <1>4, <2>1
<1> QED BY <1>1, <1>5, <1>6, <1>7, <1>8

(* What a step does to what e sends. *)
LEMMA SenderMoves ==
  ASSUME TypeOK, NEW x \in End, NEW e \in Speaker, QueueInv(e),
         Queues(x) \/ Pops(x) \/ Holds(x) \/ Delivers(x) \/ Reads(x)
  PROVE  /\ Acts(x) /\ given_up'[e] = given_up[e] /\ ch'[e].next >= ch[e].next
         /\ ch'[e].acked >= ch[e].acked /\ ch'[e].key = ch[e].key /\ said'[e] >= said[e]
<1>0. e \in End /\ ch[e].next \in Nat /\ ch[e].acked \in Nat /\ said[e] \in Nat
  BY Sizes, ChannelTypes DEF Typed
<1>1. Acts(x) /\ given_up'[e] = given_up[e] /\ ch'[e].key = ch[e].key
  BY <1>0 DEF Queues, Pops, Holds, Delivers, Reads, Acts, apps
<1>2. CASE x # e
  <2>1. ch'[e] = ch[e] /\ said'[e] = said[e]
    BY <1>0, <1>2 DEF Queues, Pops, Holds, Delivers, Reads, Acts, apps, TypeOK
  <2> QED BY <1>0, <1>1, <2>1
<1>3. CASE x = e
  <2>1. CASE Queues(x)
    <3>1. ch'[e].next = ch[e].next + 1 /\ ch'[e].acked = ch[e].acked /\ said'[e] = said[e] + 1
      BY <1>3, <2>1 DEF Queues, TypeOK
    <3> QED BY <1>0, <1>1, <3>1
  <2>2. CASE Pops(x)
    <3>1. ch'[e].next = ch[e].next /\ ch'[e].acked = First(ch[e]).n /\ ch[e].queue # <<>> /\ said'[e] = said[e]
      BY <1>3, <2>2 DEF Pops, apps
    <3>2. ch[e].queue \in Seq([n : Nat, body : Nat])
      BY <1>0, ChannelTypes DEF Typed
    <3>3. First(ch[e]) = ch[e].queue[1] /\ 1 \in 1 .. Len(ch[e].queue)
      BY <3>1, <3>2 DEF First
    <3>4. First(ch[e]).n = ch[e].acked + 1
      <4>1. First(ch[e]) = [n |-> ch[e].acked + 1, body |-> given_up[e] + ch[e].acked + 1]
        BY <3>3 DEF QueueInv
      <4> QED BY <4>1
    <3> QED BY <1>0, <1>1, <3>1, <3>4
  <2>3. CASE Holds(x) \/ Delivers(x) \/ Reads(x)
    <3>1. ch'[e].next = ch[e].next /\ ch'[e].acked = ch[e].acked /\ said'[e] = said[e]
      BY <1>3, <2>3 DEF Holds, Delivers, Reads, SendsAlike, apps
    <3> QED BY <1>0, <1>1, <3>1
  <2> QED BY <2>1, <2>2, <2>3
<1> QED BY <1>2, <1>3

(* The message under way. *)
FirstIs(e) ==
  ch[e].queue # <<>> =>
    /\ First(ch[e]).n = ch[e].acked + 1 /\ First(ch[e]).n < ch[e].next
    /\ First(ch[e]).body = given_up[e] + First(ch[e]).n

LEMMA FirstIsNext == \A e \in Speaker : TypeOK /\ QueueInv(e) => FirstIs(e)
<1> SUFFICES ASSUME TypeOK, NEW e \in Speaker, QueueInv(e), ch[e].queue # <<>>
             PROVE  /\ First(ch[e]).n = ch[e].acked + 1 /\ First(ch[e]).n < ch[e].next
                    /\ First(ch[e]).body = given_up[e] + First(ch[e]).n
  BY DEF FirstIs
<1>0. e \in End /\ ch[e].next \in Nat /\ ch[e].acked \in Nat /\ given_up[e] \in Nat /\ Len(ch[e].queue) \in Nat
  BY Sizes, ChannelTypes DEF Typed
<1>1. ch[e].queue \in Seq([n : Nat, body : Nat])
  BY <1>0, ChannelTypes DEF Typed
<1>2. First(ch[e]) = ch[e].queue[1] /\ 1 \in 1 .. Len(ch[e].queue) /\ Len(ch[e].queue) >= 1
  BY <1>1 DEF First
<1>3. First(ch[e]) = [n |-> ch[e].acked + 1, body |-> given_up[e] + ch[e].acked + 1]
  BY <1>2 DEF QueueInv
<1>4. ch[e].next = ch[e].acked + Len(ch[e].queue) + 1
  BY DEF QueueInv
<1>5. ch[e].acked + 1 < ch[e].next
  BY <1>0, <1>2, <1>4
<1>6. given_up[e] + ch[e].acked + 1 = given_up[e] + (ch[e].acked + 1)
  BY <1>0
<1> QED BY <1>3, <1>5, <1>6

LEMMA FirstIsNextThen == \A e \in Speaker : TypeOK' /\ QueueInv(e)' => FirstIs(e)'
<1> TAKE e \in Speaker
<1>1. TypeOK /\ QueueInv(e) => FirstIs(e)
  BY FirstIsNext
<1> QED BY <1>1, PTL

LEMMA PiecesStep ==
  ASSUME TypeOK, TypeOK', KeysClose, [Next]_vars, NEW e \in Speaker, QueueInv(e), QueueInv(e)', PiecesInv(e)
  PROVE  PiecesInv(e)'
<1>0. /\ e \in End /\ ch[e].key \in Nat /\ ch'[e].key \in Nat /\ ch[e].next \in Nat /\ ch'[e].next \in Nat
      /\ ch[e].acked \in Nat /\ ch'[e].acked \in Nat
      /\ given_up[e] \in Nat /\ given_up'[e] \in Nat /\ said[e] \in Nat
  <2>1. e \in End
    BY Sizes
  <2>2. ch'[e].key \in Nat /\ ch'[e].next \in Nat /\ ch'[e].acked \in Nat /\ given_up'[e] \in Nat
    BY <2>1, ChannelTypesThen DEF Typed
  <2> QED BY <2>1, <2>2, ChannelTypes DEF Typed
<1>1. PICK x \in End : EndResumeWith(x) \/ Queues(x) \/ Pops(x) \/ Holds(x) \/ Delivers(x) \/ Reads(x)
  BY Kinds
<1>2. ASSUME NEW k \in Keys, NEW d \in Pieces(Stream(e, k))
      PROVE  /\ k <= ch[e].key /\ d.n > 0 /\ d.n \in Nat /\ d.body \in Nat
             /\ k = ch[e].key => d.n <= ch[e].acked + 1 /\ d.n < ch[e].next /\ d.body = given_up[e] + d.n
             /\ k < ch[e].key => d.body <= given_up[e]
             /\ \A d2 \in Pieces(Stream(e, k)) : d.body + d2.n = d2.body + d.n
  BY PieceTypes DEF PiecesInv
<1>3. CASE EndResumeWith(x)
  <2>1. \A s : Pieces(s)' = Pieces(s)
    BY <1>3, RepairResets DEF Pieces
  <2>2. CASE x = e
    <3>1. given_up'[e] = said[e] /\ ch'[e].key = turning[e] /\ turning[e] # 0
      BY <1>3, <2>2, RepairResets
    <3>2. ch[e].key < ch'[e].key
      BY <1>0, <3>1 DEF KeysClose
    <3>3. ASSUME NEW k \in Keys, NEW d \in Pieces(Stream(e, k)) PROVE d.body <= said[e]
      <4>1. given_up[e] + ch[e].next = said[e] + 1
        BY DEF QueueInv
      <4>2. given_up[e] <= said[e]
        <5>1. ch[e].next >= 1
          <6>1. ch[e].next = ch[e].acked + Len(ch[e].queue) + 1
            BY DEF QueueInv
          <6>2. Len(ch[e].queue) \in Nat
            BY <1>0, ChannelTypes DEF Typed
          <6> QED BY <1>0, <6>1, <6>2
        <5> QED BY <1>0, <4>1, <5>1
      <4>3. CASE k = ch[e].key
        <5>1. d.n < ch[e].next /\ d.body = given_up[e] + d.n /\ d.n \in Nat
          BY <1>2, <4>3
        <5>2. \A a, b, c, f \in Nat : a + b = c + 1 /\ f < b => a + f <= c
          OBVIOUS
        <5> QED BY <1>0, <4>1, <5>1, <5>2
      <4>4. CASE k < ch[e].key
        BY <1>0, <1>2, <4>2, <4>4
      <4> QED BY <1>0, <1>2, <4>3, <4>4 DEF Keys
    <3> QED BY <1>0, <1>2, <2>1, <3>1, <3>2, <3>3, Sizes DEF PiecesInv, Keys
  <2>3. CASE x # e
    <3>1. ch'[e] = ch[e] /\ given_up'[e] = given_up[e]
      BY <1>0, <1>3, <2>3, RepairResets
    <3> QED BY <1>2, <2>1, <3>1 DEF PiecesInv
  <2> QED BY <2>2, <2>3
<1>4. CASE Queues(x) \/ Pops(x) \/ Holds(x) \/ Delivers(x) \/ Reads(x)
  <2>1. /\ Acts(x) /\ given_up'[e] = given_up[e] /\ ch'[e].next >= ch[e].next
        /\ ch'[e].acked >= ch[e].acked /\ ch'[e].key = ch[e].key
    BY <1>4, SenderMoves
  <2>2. ASSUME NEW k \in Keys, NEW d \in Pieces(Stream(e, k))', d \notin Pieces(Stream(e, k))
        PROVE  /\ k = ch[e].key /\ d.n = ch'[e].acked + 1 /\ d.n < ch'[e].next /\ d.body = given_up[e] + d.n
    <3>1. k = ch[e].key /\ ch'[e].queue # <<>> /\ d.n = First(ch'[e]).n /\ d.body = First(ch'[e]).body
      BY <1>0, <2>1, <2>2, NewPieces
    <3>2. FirstIs(e)'
      BY FirstIsNextThen
    <3> QED BY <2>1, <3>1, <3>2 DEF FirstIs
  <2>3. ASSUME NEW k \in Keys, NEW d \in Pieces(Stream(e, k))'
        PROVE  /\ k <= ch[e].key /\ d.n > 0 /\ d.n \in Nat
               /\ k = ch[e].key => d.n <= ch'[e].acked + 1 /\ d.n < ch'[e].next /\ d.body = given_up[e] + d.n
               /\ k < ch[e].key => d.body <= given_up[e]
    <3>1. CASE d \in Pieces(Stream(e, k))
      BY <1>0, <1>2, <2>1, <3>1
    <3>2. CASE d \notin Pieces(Stream(e, k))
      BY <1>0, <2>2, <3>2
    <3> QED BY <3>1, <3>2
  <2>4. ASSUME NEW k \in Keys, NEW d \in Pieces(Stream(e, k))', NEW d2 \in Pieces(Stream(e, k))'
        PROVE  d.body + d2.n = d2.body + d.n
    <3>1. CASE d \in Pieces(Stream(e, k)) /\ d2 \in Pieces(Stream(e, k))
      BY <1>2, <3>1
    <3>2. CASE k = ch[e].key
      <4>1. d.body = given_up[e] + d.n /\ d2.body = given_up[e] + d2.n /\ d.n \in Nat /\ d2.n \in Nat
        BY <2>3, <3>2
      <4>2. \A a, b, g \in Nat : g + a + b = g + b + a
        OBVIOUS
      <4> QED BY <1>0, <4>1, <4>2
    <3> QED BY <2>2, <3>1, <3>2
  <2> QED BY <2>1, <2>3, <2>4 DEF PiecesInv
<1> QED BY <1>1, <1>3, <1>4

(* What a delivery delivers: the message after the last. *)
LEMMA DeliversNext ==
  ASSUME TypeOK, NEW e \in Speaker, PiecesInv(e), ReceivedInv(e), Delivers(Other(e))
  PROVE  \E d \in Pieces(Rx(Other(e))) :
           /\ d.n = ch[Other(e)].done + 1 /\ ch'[Other(e)].done = d.n
           /\ ch'[Other(e)].ready = Append(ch[Other(e)].ready, {d.body})
<1> DEFINE f == Other(e)
<1>0. e \in End /\ f \in End /\ Rx(f) = Stream(e, ch[f].key) /\ ch[f].key \in Keys /\ ch[f].done \in Nat
  BY Sizes, TwoEnds, ChannelTypes DEF Rx, Typed
<1>1. PICK d \in Pieces(Rx(f)) :
        /\ d.n > ch[f].done /\ ch'[f].done = d.n
        /\ ch'[f].ready = Append(ch[f].ready, {p.body : p \in {q \in ch[f].parts \cup {Part(d)} : q.n = d.n}})
  BY DEF Delivers
<1>2. d.n \in Nat /\ d.n <= ch[f].done + 1
  BY PieceTypes DEF ReceivedInv
<1>3. d.n = ch[f].done + 1
  BY <1>0, <1>1, <1>2
<1>4. ASSUME NEW d2 \in Pieces(Rx(f)), d2.n = d.n PROVE d2.body = d.body
  <2>1. d.body + d2.n = d2.body + d.n
    BY <1>0 DEF PiecesInv
  <2>2. d.body \in Nat /\ d2.body \in Nat /\ d2.n \in Nat
    BY PieceTypes
  <2> QED BY <1>2, <1>4, <2>1, <2>2
<1>5. \A p \in ch[f].parts : p.n = d.n => p.body = d.body
  BY <1>4 DEF ReceivedInv
<1>6. Part(d).n = d.n /\ Part(d).body = d.body
  BY DEF Part
<1>7. {p.body : p \in {q \in ch[f].parts \cup {Part(d)} : q.n = d.n}} = {d.body}
  BY <1>5, <1>6
<1> QED BY <1>1, <1>3, <1>7

(* What is read next. *)
LEMMA ReadsNext ==
  ASSUME TypeOK, NEW e \in Speaker, ReceivedInv(e), Reads(Other(e))
  PROVE  /\ \E d \in Pieces(Rx(Other(e))) : d.n = HasRead(Other(e)) + 1 /\ heard'[e] = d.body
         /\ Len(ch'[Other(e)].ready) = Len(ch[Other(e)].ready) - 1 /\ Len(ch[Other(e)].ready) > 0
         /\ \A i \in 1 .. Len(ch'[Other(e)].ready) : ch'[Other(e)].ready[i] = ch[Other(e)].ready[i + 1]
<1> DEFINE f == Other(e)
           whole == Head(ch[f].ready)
<1>0. e \in End /\ f \in End /\ Other(f) = e /\ ch[f].ready \in Seq(SUBSET Nat)
  BY Sizes, TwoEnds, ChannelTypes DEF Typed
<1>1. ch[f].ready # <<>> /\ ch'[f].ready = Tail(ch[f].ready)
  BY DEF Reads
<1>2. /\ Len(ch'[f].ready) = Len(ch[f].ready) - 1
      /\ \A i \in 1 .. Len(ch'[f].ready) : ch'[f].ready[i] = ch[f].ready[i + 1]
  BY <1>0, <1>1, HeadTailProperties
<1>3. whole = ch[f].ready[1] /\ 1 \in 1 .. Len(ch[f].ready)
  BY <1>0, <1>1
<1>4. PICK d \in Pieces(Rx(f)) : d.n = HasRead(f) + 1 /\ whole = {d.body}
  BY <1>3 DEF ReceivedInv
<1>5. Cardinality(whole) = 1 /\ (CHOOSE m \in whole : TRUE) = d.body
  BY <1>4, FS_Singleton
<1>6. heard'[e] = d.body
  BY <1>0, <1>5 DEF Reads, TypeOK
<1> QED BY <1>0, <1>2, <1>3, <1>4, <1>6

LEMMA AcksStep ==
  ASSUME TypeOK, TypeOK', KeysClose, [Next]_vars, NEW e \in Speaker, PiecesInv(e), AcksInv(e), ReceivedInv(e)
  PROVE  AcksInv(e)'
<1> DEFINE f == Other(e)
<1>0. /\ e \in End /\ f \in End /\ f # e /\ ch[f].key \in Nat /\ ch'[f].key \in Nat
      /\ ch[f].done \in Nat /\ ch'[f].done \in Nat
  <2>1. e \in End /\ f \in End /\ f # e
    BY Sizes, TwoEnds
  <2> QED BY <2>1, ChannelTypes, ChannelTypesThen DEF Typed
<1>1. PICK x \in End : EndResumeWith(x) \/ Queues(x) \/ Pops(x) \/ Holds(x) \/ Delivers(x) \/ Reads(x)
  BY Kinds
<1>2. ASSUME NEW k \in Keys, NEW n \in Nat, Ack(Stream(e, k), n) \in net
      PROVE  k <= ch[f].key /\ (k = ch[f].key => n <= ch[f].done)
  BY <1>2 DEF AcksInv
<1>3. CASE EndResumeWith(x)
  <2>1. CASE x = f
    <3>1. ch'[f].key = turning[f] /\ turning[f] # 0 /\ UNCHANGED net
      BY <1>3, <2>1, RepairResets
    <3>2. ch[f].key < ch'[f].key
      BY <1>0, <3>1 DEF KeysClose
    <3> QED BY <1>0, <1>2, <3>1, <3>2 DEF AcksInv, Keys
  <2>2. CASE x # f
    <3>1. ch'[f] = ch[f] /\ UNCHANGED net
      BY <1>0, <1>3, <2>2, RepairResets
    <3> QED BY <3>1 DEF AcksInv
  <2> QED BY <2>1, <2>2
<1>4. CASE Queues(x) \/ Pops(x) \/ Holds(x) \/ Delivers(x) \/ Reads(x)
  <2>1. Acts(x)
    BY <1>4 DEF Queues, Pops, Holds, Delivers, Reads
  <2>2. ch'[f].key = ch[f].key
    BY <1>0, <2>1 DEF Acts
  <2>3. ch'[f].done >= ch[f].done
    <3>1. CASE x # f
      BY <1>0, <2>1, <3>1 DEF Acts
    <3>2. CASE Delivers(f)
      <4>1. ch'[f].done = ch[f].done + 1
        BY <3>2, DeliversNext
      <4> QED BY <1>0, <4>1
    <3>3. CASE x = f /\ ~Delivers(f)
      <4>1. ch'[f].done = ch[f].done
        BY <1>4, <3>3 DEF Queues, Pops, Holds, Reads, ListensAlike
      <4> QED BY <1>0, <4>1
    <3> QED BY <3>1, <3>2, <3>3
  <2>4. ASSUME NEW k \in Keys, NEW n \in Nat, Ack(Stream(e, k), n) \in net'
        PROVE  k <= ch'[f].key /\ (k = ch'[f].key => n <= ch'[f].done)
    <3>1. CASE Ack(Stream(e, k), n) \in net
      BY <1>0, <1>2, <2>2, <2>3, <3>1
    <3>2. CASE Ack(Stream(e, k), n) \notin net
      <4>1. x = f /\ k = ch[x].key /\ n <= ch'[x].done
        BY <1>0, <2>1, <2>4, <3>2, NewAcks
      <4> QED BY <1>0, <2>2, <4>1
    <3> QED BY <3>1, <3>2
  <2>5. \A k, n : Ack(Stream(e, k), n)' = Ack(Stream(e, k), n)
    BY DEF Ack, Stream
  <2> QED BY <2>4, <2>5 DEF AcksInv
<1> QED BY <1>1, <1>3, <1>4

(* The two ends of a step, once the sender's half of the invariant is known after it. *)
LEMMA ReceivedStep ==
  ASSUME TypeOK, TypeOK', KeysClose, [Next]_vars, NEW e \in Speaker,
         QueueInv(e), QueueInv(e)', PiecesInv(e), PiecesInv(e)', AcksInv(e), AcksInv(e)', ReceivedInv(e)
  PROVE  ReceivedInv(e)'
<1> DEFINE f == Other(e)
           old == ch[f].ready
           new == ch'[f].ready
<1>0. /\ e \in End /\ f \in End /\ f # e /\ Other(f) = e /\ f' = f
      /\ Rx(f) = Stream(e, ch[f].key) /\ Rx(f)' = Stream(e, ch'[f].key)
  BY Sizes, TwoEnds DEF Rx, Other, Stream
<1>1. PICK x \in End : EndResumeWith(x) \/ Queues(x) \/ Pops(x) \/ Holds(x) \/ Delivers(x) \/ Reads(x)
  BY Kinds
<1>2. /\ {ch[e].key, ch[f].key, ch'[e].key, ch'[f].key} \subseteq Keys
      /\ ch[e].key \in Nat /\ ch[f].key \in Nat /\ ch'[e].key \in Nat /\ ch'[f].key \in Nat /\ turning[f] \in Nat
      /\ ch[e].acked \in Nat /\ ch'[e].acked \in Nat /\ ch[f].done \in Nat /\ ch'[f].done \in Nat
      /\ old \in Seq(SUBSET Nat) /\ new \in Seq(SUBSET Nat) /\ Len(old) \in Nat /\ Len(new) \in Nat
  <2>1. Typed(e) /\ Typed(f)
    BY <1>0, ChannelTypes
  <2>2. /\ ch'[e].key \in Keys /\ ch'[e].key \in Nat /\ ch'[e].acked \in Nat
        /\ ch'[f].key \in Keys /\ ch'[f].key \in Nat /\ ch'[f].done \in Nat
        /\ new \in Seq(SUBSET Nat) /\ Len(new) \in Nat
    BY <1>0, ChannelTypesThen DEF Typed
  <2> QED BY <2>1, <2>2 DEF Typed
<1>3. CASE EndResumeWith(x) /\ x = f
  <2>1. /\ ch'[f].key = turning[f] /\ ch'[f].done = 0 /\ new = <<>> /\ ch'[f].parts = {} /\ ch'[e] = ch[e]
        /\ turning[f] # 0 /\ UNCHANGED net
    BY <1>0, <1>3, RepairResets
  <2>2. ch[f].key < ch'[f].key /\ ch[e].key <= ch'[f].key
    <3>1. ch[f].key < turning[f] /\ ch[e].key <= ch[f].key + 1
      BY <1>0, <2>1 DEF KeysClose
    <3> QED BY <1>2, <2>1, <3>1
  <2>3. ASSUME NEW d \in Pieces(Stream(e, ch'[f].key)) PROVE d.n <= 1
    <3>1. d.n \in Nat
      BY PieceTypes
    <3>2. ch'[f].key <= ch[e].key /\ (ch'[f].key = ch[e].key => d.n <= ch[e].acked + 1)
      BY <1>2 DEF PiecesInv
    <3>3. ch'[f].key = ch[e].key
      BY <1>2, <2>2, <3>2
    <3>4. ch[e].acked = 0
      <4> SUFFICES ASSUME ch[e].acked > 0 PROVE FALSE
        BY <1>2
      <4>1. Ack(Stream(e, ch[e].key), ch[e].acked) \in net
        BY DEF QueueInv, Tx
      <4>2. ch[e].key <= ch[f].key
        BY <1>2, <4>1 DEF AcksInv
      <4> QED BY <1>2, <2>2, <3>3, <4>2
    <3> QED BY <3>2, <3>3, <3>4
  <2>4. Pieces(Rx(f))' = Pieces(Stream(e, ch'[f].key))
    BY <1>0, <2>1 DEF Pieces
  <2> QED BY <1>0, <2>1, <2>3, <2>4 DEF ReceivedInv
<1>4. CASE EndResumeWith(x) /\ x # f
  <2>1. ch'[f] = ch[f] /\ UNCHANGED net
    BY <1>0, <1>4, RepairResets
  <2>2. Pieces(Rx(f))' = Pieces(Rx(f)) /\ HasRead(f)' = HasRead(f)
    BY <1>0, <2>1 DEF Pieces, HasRead
  <2> QED BY <1>0, <2>1, <2>2 DEF ReceivedInv
<1>5. CASE Queues(x) \/ Pops(x) \/ Holds(x) \/ Delivers(x) \/ Reads(x)
  <2>1. Acts(x) /\ ch'[e].key = ch[e].key /\ ch'[f].key = ch[f].key /\ net \subseteq net'
    BY <1>0, <1>5 DEF Queues, Pops, Holds, Delivers, Reads, Acts
  <2>2. Rx(f)' = Rx(f) /\ Pieces(Rx(f)) \subseteq Pieces(Rx(f))'
    <3>1. Rx(f)' = Rx(f)
      BY <1>0, <2>1
    <3> QED BY <2>1, <3>1 DEF Pieces
  <2>3. ch'[f].done >= ch[f].done /\ (ch'[f].done > 0 => \E d \in Pieces(Rx(f)) : d.n = ch'[f].done)
    <3>1. CASE x = f /\ Delivers(x)
      <4>1. PICK d \in Pieces(Rx(f)) : d.n = ch[f].done + 1 /\ ch'[f].done = d.n
        BY <3>1, DeliversNext
      <4> QED BY <1>2, <4>1
    <3>2. CASE ~(x = f /\ Delivers(x))
      <4>1. ch'[f].done = ch[f].done
        BY <1>0, <1>5, <2>1, <3>2 DEF Queues, Pops, Holds, Reads, ListensAlike, Acts
      <4> QED BY <1>2, <4>1 DEF ReceivedInv
    <3> QED BY <3>1, <3>2
  <2>4. ASSUME NEW d \in Pieces(Rx(f))' PROVE d.n <= ch'[f].done + 1
    <3>1. CASE d \in Pieces(Rx(f))
      <4>1. d.n \in Nat /\ d.n <= ch[f].done + 1
        BY <3>1, PieceTypes DEF ReceivedInv
      <4> QED BY <1>2, <2>3, <4>1
    <3>2. CASE d \notin Pieces(Rx(f))
      <4>1. d \in Pieces(Stream(e, ch[f].key))' /\ d \notin Pieces(Stream(e, ch[f].key)) /\ ch[f].key \in Keys
        BY <1>0, <1>2, <2>1, <2>2, <3>2
      <4>2. ch[f].key = ch[e].key /\ ch'[e].queue # <<>> /\ d.n = First(ch'[e]).n
        BY <1>0, <2>1, <4>1, NewPieces
      <4>3. d.n = ch'[e].acked + 1
        BY <4>2, FirstIsNextThen DEF FirstIs
      <4>4. ch'[e].acked <= ch'[f].done
        <5> SUFFICES ASSUME ch'[e].acked > 0 PROVE ch'[e].acked <= ch'[f].done
          BY <1>2
        <5>1. Ack(Stream(e, ch'[e].key), ch'[e].acked) \in net'
          BY DEF QueueInv, Tx, Ack, Stream
        <5>2. ch'[e].key = ch'[f].key => ch'[e].acked <= ch'[f].done
          BY <1>0, <1>2, <5>1 DEF AcksInv, Ack, Stream
        <5> QED BY <2>1, <4>2, <5>2
      <4> QED BY <1>2, <4>3, <4>4
    <3> QED BY <3>1, <3>2
  <2>5. \A p \in ch'[f].parts : \E d \in Pieces(Rx(f)) : d.n = p.n /\ d.body = p.body
    <3>1. \A p \in ch'[f].parts : p \in ch[f].parts \/ \E d \in Pieces(Rx(f)) : p = Part(d)
      <4>1. CASE x = f
        BY <1>5, <4>1 DEF Queues, Pops, Holds, Delivers, Reads
      <4>2. CASE x # f
        BY <1>0, <2>1, <4>2 DEF Acts
      <4> QED BY <4>1, <4>2
    <3>2. \A d : Part(d).n = d.n /\ Part(d).body = d.body
      BY DEF Part
    <3> QED BY <3>1, <3>2 DEF ReceivedInv
  <2>6. /\ Len(new) <= ch'[f].done
        /\ \A i \in 1 .. Len(new) : \E d \in Pieces(Rx(f)) : d.n = HasRead(f)' + i /\ new[i] = {d.body}
    <3>0. /\ Len(old) <= ch[f].done
          /\ \A i \in 1 .. Len(old) : \E d \in Pieces(Rx(f)) : d.n = HasRead(f) + i /\ old[i] = {d.body}
      BY DEF ReceivedInv
    <3>1. CASE x = f /\ Delivers(x)
      <4>1. PICK d \in Pieces(Rx(f)) : d.n = ch[f].done + 1 /\ ch'[f].done = d.n /\ new = Append(old, {d.body})
        BY <3>1, DeliversNext
      <4>2. Len(new) = Len(old) + 1 /\ \A i \in 1 .. Len(new) : new[i] = IF i = Len(old) + 1 THEN {d.body} ELSE old[i]
        BY SMTT(20), <1>2, <4>1
      <4>3. HasRead(f)' = HasRead(f) /\ d.n = HasRead(f) + (Len(old) + 1)
        <5>1. Len(new) = Len(old) + 1 /\ d.n = ch[f].done + 1 /\ ch'[f].done = ch[f].done + 1
          BY <4>1, <4>2
        <5>2. \A a, b \in Nat : (a + 1) - (b + 1) = a - b /\ a + 1 = (a - b) + (b + 1)
          OBVIOUS
        <5>3. ch[f].done \in Nat /\ Len(old) \in Nat
          BY <1>2
        <5>4. (ch[f].done + 1) - (Len(old) + 1) = ch[f].done - Len(old)
          BY <5>2, <5>3
        <5>5. ch[f].done + 1 = (ch[f].done - Len(old)) + (Len(old) + 1)
          BY <5>2, <5>3
        <5> QED BY <5>1, <5>4, <5>5 DEF HasRead
      <4>4. Len(new) <= ch'[f].done
        BY <1>2, <3>0, <4>1, <4>2
      <4>5. ASSUME NEW i \in 1 .. Len(new) PROVE \E b \in Pieces(Rx(f)) : b.n = HasRead(f) + i /\ new[i] = {b.body}
        <5>1. CASE i = Len(old) + 1
          BY <4>2, <4>3, <5>1
        <5>2. CASE i # Len(old) + 1
          <6>1. i \in 1 .. Len(old)
            <7>1. i \in 1 .. (Len(old) + 1)
              BY <4>2
            <7> QED BY <1>2, <5>2, <7>1
          <6> QED BY SMTT(20), <3>0, <4>2, <5>2, <6>1
        <5> QED BY <5>1, <5>2
      <4> QED BY <4>3, <4>4, <4>5
    <3>2. CASE x = f /\ Reads(x)
      <4>1. /\ Len(new) = Len(old) - 1 /\ Len(old) > 0 /\ \A i \in 1 .. Len(new) : new[i] = old[i + 1]
            /\ ch'[f].done = ch[f].done
        BY <3>2, ReadsNext DEF Reads
      <4>2. HasRead(f)' = HasRead(f) + 1 /\ HasRead(f) \in Nat
        BY <1>2, <3>0, <4>1 DEF HasRead
      <4>3. Len(new) <= ch'[f].done
        BY <1>2, <3>0, <4>1
      <4>4. ASSUME NEW i \in 1 .. Len(new) PROVE \E b \in Pieces(Rx(f)) : b.n = HasRead(f)' + i /\ new[i] = {b.body}
        <5>1. i \in Nat /\ i + 1 \in 1 .. Len(old)
          BY <1>2, <4>1
        <5>2. \A a, b \in Nat : a + 1 + b = a + (b + 1)
          OBVIOUS
        <5>3. HasRead(f)' + i = HasRead(f) + (i + 1)
          BY <4>2, <5>1, <5>2
        <5> QED BY <3>0, <4>1, <5>1, <5>3
      <4> QED BY <4>3, <4>4
    <3>3. CASE ~(x = f /\ (Delivers(x) \/ Reads(x)))
      <4>1. ch'[f].done = ch[f].done /\ new = old
        BY <1>0, <1>5, <2>1, <3>3 DEF Queues, Pops, Holds, ListensAlike, Acts
      <4> QED BY <3>0, <4>1 DEF HasRead
    <3> QED BY <3>1, <3>2, <3>3
  <2> QED BY <1>0, <2>2, <2>3, <2>4, <2>5, <2>6 DEF ReceivedInv
<1> QED BY <1>1, <1>3, <1>4, <1>5

(* A delivery leaves what is read where it is. *)
LEMMA ReadOnlyByReading ==
  ASSUME TypeOK, TypeOK', NEW e \in Speaker, PiecesInv(e), ReceivedInv(e), NEW x \in End,
         Queues(x) \/ Pops(x) \/ Holds(x) \/ Delivers(x) \/ Reads(x), ~(x = Other(e) /\ Reads(x))
  PROVE  HasRead(Other(e))' = HasRead(Other(e)) /\ heard'[e] = heard[e]
<1> DEFINE f == Other(e)
           old == ch[f].ready
           new == ch'[f].ready
<1>0. e \in End /\ f \in End /\ f # e /\ Other(f) = e /\ Other(x) \in End /\ Other(Other(x)) = x
  BY Sizes, TwoEnds
<1>1. heard'[e] = heard[e]
  <2>1. CASE Queues(x) \/ Pops(x) \/ Holds(x) \/ Delivers(x)
    BY <2>1 DEF Queues, Pops, Holds, Delivers, apps
  <2>2. CASE Reads(x)
    <3>1. Other(x) # e
      BY <1>0, <2>2
    <3> QED BY <2>2, <3>1 DEF Reads, TypeOK
  <2> QED BY <2>1, <2>2
<1>2. ch[f].done \in Nat /\ ch'[f].done \in Nat /\ old \in Seq(SUBSET Nat)
  BY <1>0, ChannelTypes, ChannelTypesThen DEF Typed
<1>3. CASE x = f /\ Delivers(x)
  <2>1. PICK d \in Pieces(Rx(f)) : d.n = ch[f].done + 1 /\ ch'[f].done = d.n /\ new = Append(old, {d.body})
    BY <1>3, DeliversNext
  <2>2. Len(new) = Len(old) + 1 /\ Len(old) \in Nat
    <3>1. d.body \in Nat
      BY PieceTypes
    <3>2. {d.body} \in SUBSET Nat
      BY <3>1
    <3> QED BY <1>2, <2>1, <3>2
  <2>3. \A a, b \in Nat : (a + 1) - (b + 1) = a - b
    OBVIOUS
  <2>4. (ch[f].done + 1) - (Len(old) + 1) = ch[f].done - Len(old)
    BY <1>2, <2>2, <2>3
  <2>5. ch'[f].done - Len(new) = ch[f].done - Len(old)
    BY <2>1, <2>2, <2>4
  <2> QED BY <1>1, <2>5 DEF HasRead
<1>4. CASE ~(x = f /\ Delivers(x))
  <2>1. ch'[f].done = ch[f].done /\ new = old
    BY <1>0, <1>4 DEF Queues, Pops, Holds, Delivers, Reads, ListensAlike, Acts
  <2> QED BY <1>1, <2>1 DEF HasRead
<1> QED BY <1>3, <1>4

(* Nothing of e that is on its way is ahead of what e said. *)
LEMMA PiecesWereSaid ==
  ASSUME TypeOK, NEW e \in Speaker, QueueInv(e), PiecesInv(e), NEW k \in Keys, NEW d \in Pieces(Stream(e, k))
  PROVE  d.body <= said[e] /\ given_up[e] <= said[e]
<1>1. /\ e \in End /\ ch[e].key \in Nat /\ ch[e].next \in Nat /\ ch[e].acked \in Nat /\ said[e] \in Nat
      /\ given_up[e] \in Nat /\ Len(ch[e].queue) \in Nat
  BY Sizes, ChannelTypes DEF Typed
<1>2. given_up[e] + ch[e].next = said[e] + 1 /\ ch[e].next = ch[e].acked + Len(ch[e].queue) + 1
  BY DEF QueueInv
<1>3. ch[e].next >= 1
  BY <1>1, <1>2
<1>4. given_up[e] <= said[e]
  BY <1>1, <1>2, <1>3
<1>5. d.n \in Nat /\ d.body \in Nat /\ k \in Nat
  BY PieceTypes DEF Keys
<1>6. CASE k = ch[e].key
  <2>1. d.n < ch[e].next /\ d.body = given_up[e] + d.n
    BY <1>6 DEF PiecesInv
  <2>2. \A a, b, c, g \in Nat : a + b = c + 1 /\ g < b => a + g <= c
    OBVIOUS
  <2> QED BY <1>1, <1>2, <1>4, <1>5, <2>1, <2>2
<1>7. CASE k # ch[e].key
  <2>1. d.body <= given_up[e]
    <3>1. k <= ch[e].key /\ (k < ch[e].key => d.body <= given_up[e])
      BY DEF PiecesInv
    <3> QED BY <1>1, <1>5, <1>7, <3>1
  <2> QED BY <1>1, <1>4, <1>5, <2>1
<1> QED BY <1>6, <1>7

LEMMA HeardStep ==
  ASSUME TypeOK, TypeOK', KeysClose, [Next]_vars, NEW e \in Speaker, QueueInv(e), QueueInv(e)', PiecesInv(e),
         PiecesInv(e)', ReceivedInv(e), HeardInv(e)
  PROVE  HeardInv(e)'
<1> DEFINE f == Other(e)
           k == ch[f].key
<1>0. /\ e \in End /\ f \in End /\ f # e /\ Other(f) = e
      /\ Rx(f) = Stream(e, k) /\ Rx(f)' = Stream(e, ch'[f].key)
  BY Sizes, TwoEnds DEF Rx, Other, Stream
<1>1. PICK x \in End : EndResumeWith(x) \/ Queues(x) \/ Pops(x) \/ Holds(x) \/ Delivers(x) \/ Reads(x)
  BY Kinds
<1>2. /\ k \in Keys /\ ch[e].key \in Keys /\ ch'[f].key \in Keys
      /\ ch[e].key \in Nat /\ k \in Nat /\ ch'[f].key \in Nat /\ turning[f] \in Nat
      /\ ch[f].done \in Nat /\ Len(ch[f].ready) \in Nat /\ HasRead(f) \in Nat
      /\ said[e] \in Nat /\ heard[e] \in Nat /\ given_up[e] \in Nat
      /\ said'[e] \in Nat /\ heard'[e] \in Nat /\ given_up'[e] \in Nat
  <2>1. Typed(e) /\ Typed(f)
    BY <1>0, ChannelTypes
  <2>2. ch'[f].key \in Keys /\ ch'[f].key \in Nat
    BY <1>0, ChannelTypesThen DEF Typed
  <2>3. said'[e] \in Nat /\ heard'[e] \in Nat /\ given_up'[e] \in Nat
    BY <1>0, ChannelTypesThen DEF Typed
  <2>4. Len(ch[f].ready) <= ch[f].done
    BY DEF ReceivedInv
  <2>5. \A a, b \in Nat : b <= a => a - b \in Nat
    OBVIOUS
  <2> QED BY <2>1, <2>2, <2>3, <2>4, <2>5 DEF Typed, HasRead
<1>3. /\ heard[e] <= said[e]
      /\ k < ch[e].key \/ (k = ch[e].key /\ HasRead(f) = 0) => heard[e] <= given_up[e]
      /\ \A d \in Pieces(Stream(e, k)) :
           IF HasRead(f) = 0 THEN heard[e] + d.n <= d.body ELSE heard[e] + d.n = d.body + HasRead(f)
  BY <1>0 DEF HeardInv
<1>4. CASE EndResumeWith(x) /\ x = f
  <2>1. /\ ch'[f].key = turning[f] /\ ch'[f].done = 0 /\ ch'[f].ready = <<>> /\ ch'[e] = ch[e]
        /\ turning[f] # 0 /\ UNCHANGED <<net, said, heard>> /\ given_up'[e] = given_up[e]
    BY <1>0, <1>4, RepairResets
  <2>2. k < ch'[f].key /\ ch[e].key <= ch'[f].key
    <3>1. k < turning[f] /\ ch[e].key <= k + 1
      BY <1>0, <2>1 DEF KeysClose
    <3> QED BY <1>2, <2>1, <3>1
  <2>3. HasRead(f)' = 0
    <3>1. Len(ch'[f].ready) = 0 /\ ch'[f].done = 0
      BY <2>1
    <3> QED BY <3>1 DEF HasRead
  <2>4. ch'[f].key <= ch[e].key => heard[e] <= given_up[e]
    BY <1>2, <1>3, <2>2
  <2>5. ASSUME NEW d \in Pieces(Stream(e, ch'[f].key)) PROVE heard[e] + d.n <= d.body
    <3>1. ch'[f].key <= ch[e].key /\ (ch'[f].key = ch[e].key => d.body = given_up[e] + d.n)
      BY <1>2 DEF PiecesInv
    <3>2. d.body = given_up[e] + d.n /\ heard[e] <= given_up[e]
      BY <1>2, <2>2, <2>4, <3>1
    <3>3. d.n \in Nat
      BY PieceTypes
    <3> QED BY <1>2, <3>2, <3>3
  <2>6. Pieces(Rx(f))' = Pieces(Stream(e, ch'[f].key))
    BY <1>0, <2>1 DEF Pieces
  <2>7. ch'[f].key < ch[e].key \/ ch'[f].key = ch[e].key => heard[e] <= given_up[e]
    BY <1>2, <2>4
  <2> QED BY <1>0, <1>3, <2>1, <2>3, <2>5, <2>6, <2>7 DEF HeardInv
<1>5. CASE EndResumeWith(x) /\ x # f
  <2>1. ch'[f] = ch[f] /\ UNCHANGED <<net, said, heard>> /\ given_up'[e] = said[e]
    <3>1. x = e
      BY <1>0, <1>5, TwoEnds
    <3> QED BY <1>0, <1>5, <3>1, RepairResets
  <2>2. Pieces(Rx(f))' = Pieces(Stream(e, k)) /\ HasRead(f)' = HasRead(f)
    BY <1>0, <2>1 DEF Pieces, HasRead
  <2> QED BY <1>0, <1>3, <2>1, <2>2 DEF HeardInv
<1>6. CASE Queues(x) \/ Pops(x) \/ Holds(x) \/ Delivers(x) \/ Reads(x)
  <2>1. Acts(x) /\ given_up'[e] = given_up[e] /\ ch'[e].key = ch[e].key /\ said'[e] >= said[e]
    BY <1>6, SenderMoves
  <2>2. ch'[f].key = k /\ Rx(f)' = Stream(e, k)
    <3>1. ch'[f].key = k
      BY <1>0, <2>1 DEF Acts
    <3> QED BY <1>0, <3>1
  <2>3. ASSUME NEW d \in Pieces(Stream(e, k))', d \notin Pieces(Stream(e, k))
        PROVE  x = e /\ k = ch[e].key /\ d.body = given_up[e] + d.n /\ d.n \in Nat
    <3>1. x = e /\ k = ch[e].key /\ ch'[e].queue # <<>> /\ d.n = First(ch'[e]).n /\ d.body = First(ch'[e]).body
      BY <1>0, <1>2, <2>1, <2>2, <2>3, NewPieces
    <3>2. FirstIs(e)'
      BY FirstIsNextThen
    <3>3. d.n = ch'[e].acked + 1 /\ d.body = given_up[e] + d.n
      BY <2>1, <3>1, <3>2 DEF FirstIs
    <3>4. ch'[e].acked \in Nat
      BY <1>0, ChannelTypesThen DEF Typed
    <3> QED BY <3>1, <3>3, <3>4
  <2>4. CASE ~(x = f /\ Reads(x))
    <3>1. HasRead(f)' = HasRead(f) /\ heard'[e] = heard[e]
      BY <1>6, <2>4, ReadOnlyByReading
    <3>2. ASSUME NEW d \in Pieces(Stream(e, k))'
          PROVE  IF HasRead(f) = 0 THEN heard[e] + d.n <= d.body ELSE heard[e] + d.n = d.body + HasRead(f)
      <4>1. CASE d \in Pieces(Stream(e, k))
        BY <1>3, <4>1
      <4>2. CASE d \notin Pieces(Stream(e, k))
        <5>1. k = ch[e].key /\ d.body = given_up[e] + d.n /\ d.n \in Nat
          BY <2>3, <4>2
        <5>2. CASE HasRead(f) = 0
          <6>1. heard[e] <= given_up[e]
            BY <1>3, <5>1, <5>2
          <6> QED BY <1>2, <5>1, <5>2, <6>1
        <5>3. CASE HasRead(f) # 0
          <6>1. ch[f].done > 0
            <7>1. ch[f].done - Len(ch[f].ready) # 0 /\ Len(ch[f].ready) <= ch[f].done
              BY <5>3 DEF HasRead, ReceivedInv
            <7> QED BY <1>2, <7>1
          <6>2. PICK d0 \in Pieces(Stream(e, k)) : TRUE
            BY <1>0, <6>1 DEF ReceivedInv
          <6>3. d0.body = given_up[e] + d0.n /\ d0.n \in Nat
            BY <1>2, <5>1, PieceTypes DEF PiecesInv
          <6>4. heard[e] + d0.n = d0.body + HasRead(f)
            BY <1>3, <5>3
          <6>5. \A h, g, n, r \in Nat : h + n = (g + n) + r => h = g + r
            OBVIOUS
          <6>6. heard[e] = given_up[e] + HasRead(f)
            <7>1. heard[e] + d0.n = (given_up[e] + d0.n) + HasRead(f)
              BY <6>3, <6>4
            <7>2. heard[e] \in Nat /\ given_up[e] \in Nat /\ d0.n \in Nat /\ HasRead(f) \in Nat
              BY <1>2, <6>3
            <7> QED BY <6>5, <7>1, <7>2
          <6>7. \A g, n, r \in Nat : (g + r) + n = (g + n) + r
            OBVIOUS
          <6> QED BY <1>2, <5>1, <5>3, <6>6, <6>7
        <5> QED BY <5>2, <5>3
      <4> QED BY <4>1, <4>2
    <3>3. heard[e] <= said'[e]
      BY <1>2, <1>3, <2>1
    <3> QED BY <1>0, <1>3, <2>1, <2>2, <3>1, <3>2, <3>3 DEF HeardInv
  <2>5. CASE x = f /\ Reads(x)
    <3>1. PICK d1 \in Pieces(Stream(e, k)) : d1.n = HasRead(f) + 1 /\ heard'[e] = d1.body
      BY <1>0, <2>5, ReadsNext
    <3>2. HasRead(f)' = HasRead(f) + 1
      <4>1. Len(ch'[f].ready) = Len(ch[f].ready) - 1 /\ Len(ch[f].ready) > 0 /\ ch'[f].done = ch[f].done
        BY <2>5, ReadsNext DEF Reads
      <4>2. \A a, b \in Nat : a - (b - 1) = (a - b) + 1
        OBVIOUS
      <4>3. ch[f].done - (Len(ch[f].ready) - 1) = (ch[f].done - Len(ch[f].ready)) + 1
        BY <1>2, <4>2
      <4> QED BY <4>1, <4>3 DEF HasRead
    <3>3. Pieces(Stream(e, k))' \subseteq Pieces(Stream(e, k))
      BY <1>0, <2>3, <2>5
    <3>4. d1.body <= said[e]
      BY <1>2, PiecesWereSaid
    <3>5. said'[e] = said[e]
      BY <2>5 DEF Reads
    <3>6. k < ch[e].key => d1.body <= given_up[e]
      BY <1>2 DEF PiecesInv
    <3>7. HasRead(f)' # 0
      BY <1>2, <3>2
    <3>8. ASSUME NEW d \in Pieces(Stream(e, k)) PROVE d1.body + d.n = d.body + (HasRead(f) + 1)
      <4>1. d.body + d1.n = d1.body + d.n
        BY <1>2 DEF PiecesInv
      <4> QED BY <3>1, <4>1
    <3> QED BY <1>0, <2>1, <2>2, <3>1, <3>2, <3>3, <3>4, <3>5, <3>6, <3>7, <3>8 DEF HeardInv
  <2> QED BY <2>4, <2>5
<1> QED BY <1>1, <1>4, <1>5, <1>6
-----------------------------------------------------------------------------
(* What holds in every state *)

LEMMA ChannelStep == ChannelInv /\ [Next]_vars => ChannelInv'
<1> SUFFICES ASSUME ChannelInv, [Next]_vars PROVE ChannelInv'
  OBVIOUS
<1>1. TypeOK /\ KeysClose /\ TypeOK' /\ KeysClose'
  BY TypesStep, KeysStep DEF ChannelInv
<1>2. ASSUME NEW e \in Speaker
      PROVE  QueueInv(e)' /\ PiecesInv(e)' /\ AcksInv(e)' /\ ReceivedInv(e)' /\ HeardInv(e)'
  <2>1. QueueInv(e) /\ PiecesInv(e) /\ AcksInv(e) /\ ReceivedInv(e) /\ HeardInv(e)
    BY DEF ChannelInv
  <2>2. QueueInv(e)'
    BY <1>1, <2>1, QueueStep
  <2>3. PiecesInv(e)'
    BY <1>1, <2>1, <2>2, PiecesStep
  <2>4. AcksInv(e)'
    BY <1>1, <2>1, AcksStep
  <2>5. ReceivedInv(e)'
    BY <1>1, <2>1, <2>2, <2>3, <2>4, ReceivedStep
  <2>6. HeardInv(e)'
    BY <1>1, <2>1, <2>2, <2>3, HeardStep
  <2> QED BY <2>2, <2>3, <2>4, <2>5, <2>6
<1> QED BY <1>1, <1>2 DEF ChannelInv

LEMMA ChannelInvariant == Spec => []ChannelInv
BY ChannelInit, ChannelStep, PTL DEF Spec

(* The queues keep to their limits: what waits to be sent, and what was        *)
(* received in part or whole and not read (Send, HandleData), whatever comes   *)
(* from the network and however often the channel is re-keyed (ResumeWith).    *)
THEOREM QueuesAreLimited == Spec => []TypeOK
<1>1. ChannelInv => TypeOK
  BY DEF ChannelInv
<1> QED BY <1>1, ChannelInvariant, PTL

(* On the same streams the sender and the receiver are never more than the     *)
(* message under way apart: HandleAck takes nothing for an acknowledgement     *)
(* that the receiver did not give on this stream, and HandleData delivers      *)
(* nothing the sender has not begun to send on it.                             *)
THEOREM EndsStayInStep == Spec => []InStep
<1>1. ChannelInv => InStep
  <2> SUFFICES ASSUME ChannelInv, NEW e \in Speaker, ch[e].key = ch[Other(e)].key
               PROVE  /\ ch[e].acked <= ch[Other(e)].done
                      /\ ch[Other(e)].done <= ch[e].acked + 1 /\ ch[Other(e)].done < ch[e].next
    BY DEF InStep
  <2> DEFINE f == Other(e)
  <2>1. TypeOK /\ QueueInv(e) /\ PiecesInv(e) /\ AcksInv(e) /\ ReceivedInv(e)
    BY DEF ChannelInv
  <2>2. /\ e \in End /\ f \in End /\ ch[e].acked \in Nat /\ ch[f].done \in Nat /\ ch[e].next \in Nat
        /\ ch[e].key \in Keys /\ Len(ch[e].queue) \in Nat
    BY <2>1, Sizes, TwoEnds, ChannelTypes DEF Typed
  <2>3. Rx(f) = Stream(e, ch[e].key)
    BY <2>2, TwoEnds DEF Rx
  <2>4. ch[e].acked <= ch[f].done
    <3>1. CASE ch[e].acked > 0
      <4>1. Ack(Stream(e, ch[e].key), ch[e].acked) \in net
        BY <2>1, <3>1 DEF QueueInv, Tx
      <4> QED BY <2>1, <2>2, <4>1 DEF AcksInv
    <3> QED BY <2>2, <3>1
  <2>5. ch[f].done <= ch[e].acked + 1 /\ ch[f].done < ch[e].next
    <3>1. CASE ch[f].done > 0
      <4>1. PICK d \in Pieces(Stream(e, ch[e].key)) : d.n = ch[f].done
        BY <2>1, <2>3, <3>1 DEF ReceivedInv
      <4> QED BY <2>1, <2>2, <4>1 DEF PiecesInv
    <3>2. CASE ~(ch[f].done > 0)
      <4>1. ch[e].next = ch[e].acked + Len(ch[e].queue) + 1 /\ ch[f].done = 0
        BY <2>1, <2>2, <3>2 DEF QueueInv
      <4> QED BY <2>2, <4>1
    <3> QED BY <3>1, <3>2
  <2> QED BY <2>4, <2>5
<1> QED BY <1>1, ChannelInvariant, PTL

(* The channel implements OrderedStream: Send says a message, ResumeWith gives *)
(* up what was said before it, Receive lets the other application hear the     *)
(* next message or, after a repair, one that leaves out only what was given    *)
(* up, and every other operation leaves the applications alone.                *)
THEOREM ChannelDeliversInOrder == Spec => DeliversInOrder
<1>1. Init => Promised!Init
  BY DEF Init, Promised!Init
<1>2. ChannelInv /\ ChannelInv' /\ [Next]_vars => [Promised!Next]_Promised!vars
  <2> SUFFICES ASSUME ChannelInv, ChannelInv', [Next]_vars PROVE [Promised!Next]_Promised!vars
    OBVIOUS
  <2>0. TypeOK /\ {said, heard, given_up} \subseteq [Speaker -> Nat]
    BY DEF ChannelInv, TypeOK
  <2>1. PICK x \in End : EndResumeWith(x) \/ Queues(x) \/ Pops(x) \/ Holds(x) \/ Delivers(x) \/ Reads(x)
    BY <2>0, Kinds
  <2>2. CASE EndResumeWith(x)
    <3>1. CASE x \in Speaker
      BY <2>2, <3>1 DEF EndResumeWith, Promised!Next, Promised!GiveUp
    <3>2. CASE x \notin Speaker
      BY <2>2, <3>2 DEF EndResumeWith, Promised!vars
    <3> QED BY <3>1, <3>2
  <2>3. CASE Queues(x)
    BY <2>3 DEF Queues, Promised!Next, Promised!Say
  <2>4. CASE Pops(x) \/ Holds(x) \/ Delivers(x)
    BY <2>4 DEF Pops, Holds, Delivers, apps, Promised!vars
  <2>5. CASE Reads(x)
    <3> DEFINE e == Other(x)
    <3>1. e \in End /\ Other(e) = x
      BY TwoEnds
    <3>2. UNCHANGED <<said, given_up>> /\ \E m : heard' = [heard EXCEPT ![e] = m]
      BY <2>5 DEF Reads
    <3>3. CASE e \notin Speaker
      <4>1. heard' = heard
        BY <2>0, <3>2, <3>3
      <4> QED BY <3>2, <4>1 DEF Promised!vars
    <3>4. CASE e \in Speaker
      <4>1. QueueInv(e) /\ PiecesInv(e) /\ ReceivedInv(e) /\ HeardInv(e) /\ HeardInv(e)'
        BY <3>4 DEF ChannelInv
      <4>2. PICK d \in Pieces(Rx(x)) : d.n = HasRead(x) + 1 /\ heard'[e] = d.body
        BY <2>0, <2>5, <3>1, <3>4, <4>1, ReadsNext
      <4>3. IF HasRead(x) = 0 THEN heard[e] + d.n <= d.body ELSE heard[e] + d.n = d.body + HasRead(x)
        BY <3>1, <4>1 DEF HeardInv
      <4>4. heard[e] \in Nat /\ given_up[e] \in Nat /\ said[e] \in Nat /\ d.body \in Nat /\ d.n \in Nat
        BY <2>0, <3>4, PieceTypes
      <4>5. HasRead(x) \in Nat
        <5>1. ch[x].done \in Nat /\ Len(ch[x].ready) \in Nat
          BY <2>0, ChannelTypes DEF Typed
        <5>2. Len(ch[x].ready) <= ch[x].done
          BY <3>1, <4>1 DEF ReceivedInv
        <5> QED BY <5>1, <5>2 DEF HasRead
      <4>6. d.body \in (heard[e] + 1) .. said[e]
        <5>1. d.body <= said[e]
          BY <3>2, <3>4, <4>1, <4>2 DEF HeardInv
        <5>2. heard[e] + 1 <= d.body
          BY <4>2, <4>3, <4>4, <4>5
        <5> QED BY <4>4, <5>1, <5>2
      <4>7. d.body = heard[e] + 1 \/ d.body - 1 <= given_up[e]
        <5>1. CASE HasRead(x) = 0
          <6>1. Rx(x) = Stream(e, ch[x].key) /\ ch[x].key \in Keys /\ ch[x].key \in Nat /\ ch[e].key \in Nat
            BY <2>0, <3>1, ChannelTypes DEF Rx, Typed
          <6>2. d.n = 1
            BY <4>2, <5>1
          <6>3. ch[x].key <= ch[e].key
            BY <4>1, <6>1 DEF PiecesInv
          <6>4. CASE ch[x].key = ch[e].key
            <7>1. d.body = given_up[e] + d.n
              BY <4>1, <6>1, <6>4 DEF PiecesInv
            <7> QED BY <4>4, <6>2, <7>1
          <6>5. CASE ch[x].key < ch[e].key
            <7>1. d.body <= given_up[e]
              BY <4>1, <6>1, <6>5 DEF PiecesInv
            <7> QED BY <4>4, <7>1
          <6> QED BY <6>1, <6>3, <6>4, <6>5
        <5>2. CASE HasRead(x) # 0
          <6>1. heard[e] + (HasRead(x) + 1) = d.body + HasRead(x)
            BY <4>2, <4>3, <5>2
          <6>2. \A h, r, b \in Nat : h + (r + 1) = b + r => b = h + 1
            OBVIOUS
          <6> QED BY <4>4, <4>5, <6>1, <6>2
        <5> QED BY <5>1, <5>2
      <4>8. heard' = [heard EXCEPT ![e] = d.body]
        BY <2>0, <3>2, <3>4, <4>2
      <4> QED BY <3>2, <3>4, <4>6, <4>7, <4>8 DEF Promised!Next, Promised!Hear
    <3> QED BY <3>3, <3>4
  <2> QED BY <2>1, <2>2, <2>3, <2>4, <2>5
<1> QED BY <1>1, <1>2, ChannelInvariant, PTL DEF Spec, DeliversInOrder, Promised!Spec
===============================================================================
