-------------------------- MODULE ControlResumeProofs --------------------------
(***************************************************************************)
(* What ControlResume promises a viewer, for any number of viewers, resume *)
(* ids, breaks and waits that run out, as long as an ask is not delayed    *)
(* past the recovery it belongs to.                                        *)
(*                                                                         *)
(* The argument: a viewer draws a new id only while the dispatcher waits   *)
(* or serves, and only when nothing is raised that the dispatcher would    *)
(* still turn to.  So what it turns to from then on is that id, what it    *)
(* announces as served is served with that key, and once the ask is        *)
(* answered the reader only repeats the answer.                            *)
(***************************************************************************)
EXTENDS ControlResume, TLAPS

(* The records have their fields, and what counts is a number. *)
Shapes ==
  /\ DOMAIN v = {"gen", "worker", "key", "open", "id", "served", "ids"}
  /\ DOMAIN h = {"peer", "epoch", "ready", "seq", "rid", "served", "serving", "pending", "key", "open", "reason", "probe"}
  /\ DOMAIN r = {"pc", "ask", "at", "for", "cache", "probeId", "probeEpoch", "wakeId", "wakeFor"}
  /\ DOMAIN d = {"pc", "resuming", "epoch", "seq"}
  /\ v.gen \in Nat /\ v.id \in Nat /\ v.ids \in Nat /\ v.served \in Nat
  /\ h.peer \in Nat /\ h.epoch \in Nat /\ h.ready \in Nat /\ h.seq \in Nat /\ h.rid \in Nat /\ h.served \in Nat
  /\ r.cache.id \in Nat /\ r.ask \in Nat /\ r.at \in Nat /\ r.for \in Nat /\ r.wakeId \in Nat /\ r.wakeFor \in Nat
  /\ d.epoch \in Nat /\ d.seq \in Nat
  /\ hellos \subseteq Nat /\ acked \subseteq Nat /\ answers \subseteq [gen : Nat, id : Nat]

(* The dispatcher is between its wait and its announcement. *)
Turning == d.pc \in {"woken", "turn", "publish"}

(* The reader is busy with an ask. *)
Busy == r.pc \in {"hold", "close", "answer"}

Answered == v.id # 0 /\ [gen |-> v.gen, id |-> v.id] \in answers

(* Ids are drawn in order, and nothing knows one that was not drawn. *)
IdsDrawn ==
  /\ v.id <= v.ids /\ v.served <= v.ids /\ h.rid <= v.ids
  /\ r.ask <= v.ids /\ r.wakeId <= v.ids /\ r.cache.id <= v.ids
  /\ \A a \in answers : a.id <= v.ids

(* A viewer that is past its hello is the host's peer, and one that was let *)
(* out of a recovery has had its answer.                                    *)
PeerIsThere ==
  /\ h.peer <= v.gen
  /\ \A n \in hellos : n <= v.gen
  /\ \A n \in acked : n <= h.peer
  /\ v.worker = "connecting" => v.id = 0
  /\ v.worker \in {"resuming", "proving"} => v.id # 0
  /\ v.id # 0 \/ v.worker = "running" => h.peer = v.gen
  /\ v.worker = "resuming" /\ v.served = v.id => Answered
  /\ v.worker = "proving" \/ (v.worker = "running" /\ v.id # 0) => Answered

(* A peer that has not broken yet finds nothing left of the one before. *)
NothingLeft ==
  v.id = 0 /\ h.peer = v.gen =>
    /\ r.pc \in {"read", "epoch"}
    /\ ~Turning => h.seq = d.seq \/ h.epoch > d.epoch

(* While a viewer has an id, what the dispatcher turns to is that id. *)
TurnsToIt ==
  /\ h.served <= d.seq /\ d.seq <= h.seq /\ d.epoch <= h.epoch
  /\ v.id # 0 =>
       /\ ~Turning /\ h.seq > d.seq /\ h.epoch = d.epoch => h.rid = v.id
       /\ d.pc \in {"woken", "turn"} /\ d.resuming => h.rid = v.id
       /\ d.pc = "publish" /\ d.resuming => h.key = v.id
       /\ d.pc \in {"turn", "publish"} \/ (d.pc = "woken" /\ d.resuming) => d.epoch = h.epoch

(* What was raised last is what the reader waits for. *)
RaisedForIt ==
  v.id # 0 =>
    /\ Busy /\ r.ask = v.id => h.rid = v.id /\ r.for = h.seq
    /\ r.wakeId = v.id => h.rid = v.id /\ r.wakeFor = h.seq

(* The dispatcher has nothing more to do for this viewer. *)
Settled == h.seq = d.seq /\ h.epoch = d.epoch /\ ~Turning

(* What is announced as served was served with the key of the id; a number   *)
(* that was lost with a roll-over stays unserved.                            *)
ServedIsTrue ==
  v.id # 0 =>
    /\ h.rid = v.id /\ h.served = h.seq => h.key = v.id /\ Settled
    /\ Busy /\ r.ask = v.id => r.at = h.ready \/ (Settled /\ h.served < h.seq)

(* An answer that was given stays true, and is only repeated; the reader     *)
(* remembers none that was not given.                                        *)
AnswerStands ==
  /\ v.id # 0 /\ r.cache.id = v.id => Answered
  /\ Answered =>
       /\ h.rid = v.id /\ h.key = v.id /\ h.served = h.seq /\ Settled
       /\ r.pc = "read" /\ r.cache.id = v.id /\ r.cache.epoch = h.ready /\ r.cache.key = v.id

ResumeInv ==
  /\ Shapes /\ IdsDrawn /\ PeerIsThere /\ NothingLeft
  /\ TurnsToIt /\ RaisedForIt /\ ServedIsTrue /\ AnswerStands
-----------------------------------------------------------------------------
(* What two handlers of the reader write, field by field. *)

(* A hello that was answered before, and the hello of a new viewer. *)
Repeats == h' = h /\ r' = r /\ acked' = acked \cup {h.peer}
Admits(n) ==
  /\ n > h.peer /\ acked' = acked
  /\ DOMAIN h' = DOMAIN h /\ DOMAIN r' = DOMAIN r
  /\ h'.peer = n /\ h'.epoch = h.epoch + 1 /\ ~h'.open
  /\ h'.ready = h.ready /\ h'.seq = h.seq /\ h'.rid = h.rid /\ h'.served = h.served /\ h'.key = h.key
  /\ h'.serving = h.serving /\ h'.pending = h.pending
  /\ r'.pc = "epoch" /\ r'.for = h.epoch + 1
  /\ r'.ask = r.ask /\ r'.at = r.at /\ r'.cache = r.cache /\ r'.wakeId = r.wakeId /\ r'.wakeFor = r.wakeFor

(* An ask that joins the one the dispatcher is being woken for, and one that *)
(* raises a resume of its own.                                               *)
SameHost ==
  /\ h'.peer = h.peer /\ h'.epoch = h.epoch /\ h'.ready = h.ready /\ h'.served = h.served
  /\ h'.key = h.key /\ h'.serving = h.serving /\ h'.pending = h.pending /\ h'.open = h.open
Takes(id) ==
  /\ DOMAIN h' = DOMAIN h /\ DOMAIN r' = DOMAIN r
  /\ SameHost /\ r'.ask = id /\ r'.at = h.ready /\ r'.cache = Remembered(id)
Joins(id) ==
  /\ Takes(id) /\ h.pending /\ r.wakeId = id
  /\ h'.seq = h.seq /\ h'.rid = h.rid
  /\ r'.pc = "answer" /\ r'.for = r.wakeFor /\ r'.wakeId = r.wakeId /\ r'.wakeFor = r.wakeFor
Raises(id) ==
  /\ Takes(id) /\ h'.seq = h.seq + 1 /\ h'.rid = id
  /\ r'.pc \in {"hold", "answer"} /\ r'.for = h.seq + 1 /\ r'.wakeId = id /\ r'.wakeFor = h.seq + 1

(* A hello is one or the other.                                              *)
LEMMA HelloFields ==
  ASSUME Shapes, ReadHello
  PROVE  /\ UNCHANGED <<v, d, hellos, asks, answers>> /\ r.pc = "read"
         /\ Repeats \/ \E n \in hellos : Admits(n)
<1>1. PICK n \in hellos :
        \/ n = h.peer /\ acked' = acked \cup {n} /\ h' = h /\ r' = r
        \/ /\ n > h.peer
           /\ h' = [Close("session-rollover") EXCEPT !.peer = n, !.epoch = @ + 1]
           /\ r' = [r EXCEPT !.pc = "epoch", !.for = h.epoch + 1]
           /\ acked' = acked
  BY DEF ReadHello
<1>2. CASE n = h.peer /\ acked' = acked \cup {n} /\ h' = h /\ r' = r
  BY <1>2 DEF ReadHello, Repeats
<1>3. CASE /\ n > h.peer
           /\ h' = [Close("session-rollover") EXCEPT !.peer = n, !.epoch = @ + 1]
           /\ r' = [r EXCEPT !.pc = "epoch", !.for = h.epoch + 1]
           /\ acked' = acked
  <2>1. /\ DOMAIN h' = DOMAIN h
        /\ h'.peer = n /\ h'.epoch = h.epoch + 1 /\ ~h'.open
        /\ h'.ready = h.ready /\ h'.seq = h.seq /\ h'.rid = h.rid /\ h'.served = h.served
        /\ h'.key = h.key /\ h'.serving = h.serving /\ h'.pending = h.pending
    BY <1>3 DEF Close
  <2>2. /\ DOMAIN r' = DOMAIN r
        /\ r'.pc = "epoch" /\ r'.for = h.epoch + 1
        /\ r'.ask = r.ask /\ r'.at = r.at /\ r'.cache = r.cache
        /\ r'.wakeId = r.wakeId /\ r'.wakeFor = r.wakeFor
    BY <1>3
  <2> QED BY <1>3, <2>1, <2>2 DEF ReadHello, Admits
<1> QED BY <1>1, <1>2, <1>3

(* So is an ask the reader takes on.                                         *)
LEMMA AcceptFields ==
  ASSUME Shapes, NEW id \in 1 .. MaxIds, Accept(id)
  PROVE  /\ UNCHANGED <<v, d, net>> /\ r.pc = "read" /\ Asked(id) /\ ~Replays(id)
         /\ Joins(id) \/ Raises(id)
<1> DEFINE joins(probe) ==
             /\ h.pending /\ r.wakeId = id
             /\ h' = [h EXCEPT !.probe = probe]
             /\ r' = [Noted(id) EXCEPT !.pc = "answer", !.ask = id, !.at = h.ready, !.for = r.wakeFor]
           raises(probe) ==
             /\ h' = [h EXCEPT !.probe = probe, !.rid = id, !.seq = @ + 1]
             /\ r' = [Noted(id) EXCEPT !.pc = IF h.serving THEN "hold" ELSE "answer",
                                       !.ask = id, !.at = h.ready, !.for = h.seq + 1,
                                       !.wakeId = id, !.wakeFor = h.seq + 1]
<1>1. PICK probe : joins(probe) \/ raises(probe)
  BY DEF Accept
<1>2. UNCHANGED <<v, d, net>> /\ Considers(id)
  BY DEF Accept
<1>3. CASE joins(probe)
  <2>1. DOMAIN h' = DOMAIN h /\ SameHost /\ h'.seq = h.seq /\ h'.rid = h.rid
    BY <1>3 DEF SameHost, Shapes
  <2>2. /\ DOMAIN r' = DOMAIN r /\ r'.ask = id /\ r'.at = h.ready /\ r'.cache = Remembered(id)
        /\ r'.pc = "answer" /\ r'.for = r.wakeFor /\ r'.wakeId = r.wakeId /\ r'.wakeFor = r.wakeFor
    BY <1>3 DEF Noted
  <2> QED BY <1>2, <1>3, <2>1, <2>2 DEF Considers, Joins, Takes
<1>4. CASE raises(probe)
  <2>1. DOMAIN h' = DOMAIN h /\ SameHost /\ h'.seq = h.seq + 1 /\ h'.rid = id
    BY <1>4 DEF SameHost
  <2>2. /\ DOMAIN r' = DOMAIN r /\ r'.ask = id /\ r'.at = h.ready /\ r'.cache = Remembered(id)
        /\ r'.pc \in {"hold", "answer"} /\ r'.for = h.seq + 1
        /\ r'.wakeId = id /\ r'.wakeFor = h.seq + 1
    BY <1>4 DEF Noted, Shapes
  <2> QED BY <1>2, <1>4, <2>1, <2>2 DEF Considers, Raises, Takes
<1> QED BY <1>1, <1>2, <1>3, <1>4
-----------------------------------------------------------------------------
(* Every step keeps every part of the invariant.                             *)

(* Every step leaves the records their fields, and numbers numbers.          *)
LEMMA ShapesStep == Shapes /\ [Next]_vars => Shapes'
<1> SUFFICES ASSUME Shapes, [Next]_vars PROVE Shapes'
  OBVIOUS
<1>1. CASE Hello
  BY <1>1 DEF Hello, Shapes
<1>2. CASE Connected
  BY <1>2 DEF Connected, Shapes, net
<1>3. CASE EndSession
  BY <1>3 DEF EndSession, Shapes, net
<1>4. CASE NextViewer
  BY <1>4 DEF NextViewer, Connecting, Shapes, net
<1>5. CASE BeginBreak
  BY <1>5 DEF BeginBreak, Shapes, net
<1>6. CASE Ask
  BY <1>6 DEF Ask, Shapes
<1>7. CASE GiveUp
  BY <1>7 DEF GiveUp, Shapes, net
<1>8. CASE TakeAnswer
  BY <1>8 DEF TakeAnswer, Shapes, net
<1>9. CASE ApplyPendingRekey
  BY <1>9 DEF ApplyPendingRekey, Shapes, net
<1>10. CASE Proved
  BY <1>10 DEF Proved, Shapes, net
<1>11. CASE NotProved
  BY <1>11 DEF NotProved, Shapes, net
<1>12. CASE ReadHello
  <2>1. /\ UNCHANGED <<v, d, hellos, asks, answers>> /\ r.pc = "read"
        /\ Repeats \/ \E n \in hellos : Admits(n)
    BY <1>12, HelloFields
  <2>2. CASE Repeats
    BY <2>1, <2>2 DEF Repeats, Shapes
  <2>3. ASSUME NEW n \in hellos, Admits(n) PROVE Shapes'
    BY <2>1, <2>3 DEF Admits, Shapes
  <2> QED BY <2>1, <2>2, <2>3
<1>13. CASE AnswerHello
  BY <1>13 DEF AnswerHello, Reading, Shapes
<1>14. ASSUME NEW id \in 1 .. MaxIds, ReplayAck(id) PROVE Shapes'
  BY <1>14 DEF ReplayAck, Answer, Shapes
<1>15. ASSUME NEW id \in 1 .. MaxIds, Throttled(id) PROVE Shapes'
  BY <1>15 DEF Throttled, Remembered, Shapes, NoAnswer, net
<1>16. ASSUME NEW id \in 1 .. MaxIds, Refuse(id) PROVE Shapes'
  BY <1>16 DEF Refuse, Noted, Remembered, Shapes, NoAnswer, net
<1>17. ASSUME NEW id \in 1 .. MaxIds, Probe(id) PROVE Shapes'
  BY <1>17 DEF Probe, Noted, Remembered, Shapes, NoAnswer, net
<1>18. ASSUME NEW id \in 1 .. MaxIds, Accept(id) PROVE Shapes'
  <2>1. /\ UNCHANGED <<v, d, net>> /\ r.pc = "read" /\ Asked(id) /\ ~Replays(id)
        /\ Joins(id) \/ Raises(id)
    BY <1>18, AcceptFields
  <2>2. CASE Joins(id)
    BY <2>1, <2>2 DEF Joins, Takes, SameHost, Remembered, Shapes, NoAnswer, net
  <2>3. CASE Raises(id)
    BY <2>1, <2>3 DEF Raises, Takes, SameHost, Remembered, Shapes, NoAnswer, net
  <2> QED BY <2>1, <2>2, <2>3
<1>19. CASE HoldStream
  BY <1>19 DEF HoldStream, Shapes, net
<1>20. CASE CloseForResume
  BY <1>20 DEF CloseForResume, Close, Shapes, net
<1>21. CASE AnswerServed
  BY <1>21 DEF AnswerServed, Reading, Answer, Shapes
<1>22. CASE AnswerLate
  BY <1>22 DEF AnswerLate, Reading, Shapes, net
<1>23. CASE ProbeDecided
  BY <1>23 DEF ProbeDecided, Shapes, net
<1>24. CASE LosePeer
  BY <1>24 DEF LosePeer, Close, Shapes, net
<1>25. CASE Wake
  BY <1>25 DEF Wake, Shapes, net
<1>26. CASE TakeEpoch
  BY <1>26 DEF TakeEpoch, Shapes, net
<1>27. CASE Turn
  BY <1>27 DEF Turn, Turned, Shapes, net
<1>28. CASE Publish
  BY <1>28 DEF Publish, Shapes, net
<1>29. CASE EnterServe
  BY <1>29 DEF EnterServe, Shapes, net
<1>30. CASE LeaveServe
  BY <1>30 DEF LeaveServe, Shapes, net
<1>31. CASE Left
  BY <1>31 DEF Left, Shapes, net
<1>32. CASE UNCHANGED vars
  BY <1>32 DEF vars, net, Shapes
<1> QED
  BY <1>1, <1>2, <1>3, <1>4, <1>5, <1>6, <1>7, <1>8, <1>9, <1>10, <1>11, <1>12, <1>13, <1>14,
     <1>15, <1>16, <1>17, <1>18, <1>19, <1>20, <1>21, <1>22, <1>23, <1>24, <1>25, <1>26, <1>27,
     <1>28, <1>29, <1>30, <1>31, <1>32 DEF Next, Viewer, Reader, ReadAsk, Dispatcher

(* Only the viewer draws ids; whatever else names one has it from an ask.    *)
LEMMA IdsStep == ~Delayed /\ ResumeInv /\ [Next]_vars => IdsDrawn'
<1> SUFFICES ASSUME ~Delayed, ResumeInv, [Next]_vars PROVE IdsDrawn'
  OBVIOUS
<1>1. CASE Hello
  BY <1>1 DEF Hello, ResumeInv, IdsDrawn
<1>2. CASE Connected
  BY <1>2 DEF Connected, ResumeInv, IdsDrawn, net
<1>3. CASE EndSession
  BY <1>3 DEF EndSession, ResumeInv, IdsDrawn, net
<1>4. CASE NextViewer
  BY <1>4 DEF NextViewer, Connecting, ResumeInv, Shapes, IdsDrawn, net
<1>5. CASE BeginBreak
  BY <1>5 DEF BeginBreak, ResumeInv, Shapes, IdsDrawn, net
<1>6. CASE Ask
  BY <1>6 DEF Ask, ResumeInv, IdsDrawn
<1>7. CASE GiveUp
  BY <1>7 DEF GiveUp, ResumeInv, IdsDrawn, net
<1>8. CASE TakeAnswer
  BY <1>8 DEF TakeAnswer, ResumeInv, IdsDrawn, net
<1>9. CASE ApplyPendingRekey
  BY <1>9 DEF ApplyPendingRekey, ResumeInv, Shapes, IdsDrawn, net
<1>10. CASE Proved
  BY <1>10 DEF Proved, ResumeInv, IdsDrawn, net
<1>11. CASE NotProved
  BY <1>11 DEF NotProved, ResumeInv, Shapes, IdsDrawn, net
<1>12. CASE ReadHello
  <2>1. /\ UNCHANGED <<v, d, hellos, asks, answers>> /\ r.pc = "read"
        /\ Repeats \/ \E n \in hellos : Admits(n)
    BY <1>12, HelloFields DEF ResumeInv
  <2>2. CASE Repeats
    BY <2>1, <2>2 DEF Repeats, ResumeInv, IdsDrawn
  <2>3. ASSUME NEW n \in hellos, Admits(n) PROVE IdsDrawn'
    BY <2>1, <2>3 DEF Admits, ResumeInv, IdsDrawn
  <2> QED BY <2>1, <2>2, <2>3
<1>13. CASE AnswerHello
  BY <1>13 DEF AnswerHello, Reading, ResumeInv, Shapes, IdsDrawn
<1>14. ASSUME NEW id \in 1 .. MaxIds, ReplayAck(id) PROVE IdsDrawn'
  BY <1>14 DEF ReplayAck, Asked, Answer, ResumeInv, IdsDrawn
<1>15. ASSUME NEW id \in 1 .. MaxIds, Throttled(id) PROVE IdsDrawn'
  BY <1>15 DEF Throttled, Remembered, NoAnswer, ResumeInv, Shapes, IdsDrawn, net
<1>16. ASSUME NEW id \in 1 .. MaxIds, Refuse(id) PROVE IdsDrawn'
  BY <1>16 DEF Refuse, Noted, Remembered, NoAnswer, ResumeInv, Shapes, IdsDrawn, net
<1>17. ASSUME NEW id \in 1 .. MaxIds, Probe(id) PROVE IdsDrawn'
  BY <1>17 DEF Probe, Noted, Remembered, NoAnswer, ResumeInv, Shapes, IdsDrawn, net
<1>18. ASSUME NEW id \in 1 .. MaxIds, Accept(id) PROVE IdsDrawn'
  <2>1. /\ UNCHANGED <<v, d, net>> /\ r.pc = "read" /\ Asked(id) /\ ~Replays(id)
        /\ Joins(id) \/ Raises(id)
    BY <1>18, AcceptFields DEF ResumeInv
  <2>2. CASE Joins(id)
    BY <2>1, <2>2 DEF Joins, Takes, NoAnswer, Remembered, ResumeInv, Shapes, IdsDrawn, net
  <2>3. CASE Raises(id)
    BY <2>1, <2>3 DEF Raises, Takes, Asked, NoAnswer, Remembered, ResumeInv, Shapes, IdsDrawn, net
  <2> QED BY <2>1, <2>2, <2>3
<1>19. CASE HoldStream
  BY <1>19 DEF HoldStream, ResumeInv, Shapes, IdsDrawn, net, bounds
<1>20. CASE CloseForResume
  BY <1>20 DEF CloseForResume, Close, ResumeInv, IdsDrawn, net
<1>21. CASE AnswerServed
  BY <1>21 DEF AnswerServed, Reading, Answer, ResumeInv, Shapes, IdsDrawn
<1>22. CASE AnswerLate
  BY <1>22 DEF AnswerLate, Reading, ResumeInv, Shapes, IdsDrawn, net
<1>23. CASE ProbeDecided
  BY <1>23 DEF ProbeDecided, ResumeInv, IdsDrawn, net
<1>24. CASE LosePeer
  BY <1>24 DEF LosePeer, Close, ResumeInv, IdsDrawn, net
<1>25. CASE Wake
  BY <1>25 DEF Wake, ResumeInv, IdsDrawn, net
<1>26. CASE TakeEpoch
  BY <1>26 DEF TakeEpoch, ResumeInv, IdsDrawn, net
<1>27. CASE Turn
  BY <1>27 DEF Turn, Turned, ResumeInv, IdsDrawn, net
<1>28. CASE Publish
  BY <1>28 DEF Publish, ResumeInv, IdsDrawn, net
<1>29. CASE EnterServe
  BY <1>29 DEF EnterServe, ResumeInv, IdsDrawn, net
<1>30. CASE LeaveServe
  BY <1>30 DEF LeaveServe, ResumeInv, IdsDrawn, net
<1>31. CASE Left
  BY <1>31 DEF Left, ResumeInv, IdsDrawn, net
<1>32. CASE UNCHANGED vars
  BY <1>32 DEF vars, net, ResumeInv, IdsDrawn
<1> QED
  BY <1>1, <1>2, <1>3, <1>4, <1>5, <1>6, <1>7, <1>8, <1>9, <1>10, <1>11, <1>12, <1>13, <1>14,
     <1>15, <1>16, <1>17, <1>18, <1>19, <1>20, <1>21, <1>22, <1>23, <1>24, <1>25, <1>26, <1>27,
     <1>28, <1>29, <1>30, <1>31, <1>32 DEF Next, Viewer, Reader, ReadAsk, Dispatcher

(* A hello is answered by the host that admitted it, or one further on.      *)
LEMMA PeerStep == ~Delayed /\ ResumeInv /\ [Next]_vars => PeerIsThere'
<1> SUFFICES ASSUME ~Delayed, ResumeInv, [Next]_vars PROVE PeerIsThere'
  OBVIOUS
<1>1. CASE Hello
  <2>1. /\ UNCHANGED <<v, h, r, d, acked, answers>> /\ hellos' = hellos \cup {v.gen}
        /\ v.gen \in Nat /\ PeerIsThere
    BY <1>1 DEF Hello, ResumeInv, Shapes
  <2>2. \A n \in hellos' : n <= v.gen
    BY <2>1 DEF PeerIsThere
  <2> QED BY <2>1, <2>2 DEF PeerIsThere, Answered
<1>2. CASE Connected
  BY <1>2 DEF Connected, ResumeInv, Shapes, PeerIsThere, net
<1>3. CASE EndSession
  BY <1>3 DEF EndSession, ResumeInv, PeerIsThere, net
<1>4. CASE NextViewer
  BY <1>4 DEF NextViewer, Connecting, ResumeInv, Shapes, PeerIsThere, net
<1>5. CASE BeginBreak
  BY <1>5 DEF BeginBreak, ResumeInv, Shapes, IdsDrawn, PeerIsThere, net
<1>6. CASE Ask
  BY <1>6 DEF Ask, ResumeInv, PeerIsThere, Answered
<1>7. CASE GiveUp
  BY <1>7 DEF GiveUp, ResumeInv, PeerIsThere, net
<1>8. CASE TakeAnswer
  BY <1>8 DEF TakeAnswer, ResumeInv, PeerIsThere, Answered, net
<1>9. CASE ApplyPendingRekey
  BY <1>9 DEF ApplyPendingRekey, ResumeInv, PeerIsThere, Answered, net
<1>10. CASE Proved
  BY <1>10 DEF Proved, ResumeInv, PeerIsThere, Answered, net
<1>11. CASE NotProved
  BY <1>11 DEF NotProved, ResumeInv, Shapes, PeerIsThere, net
<1>12. CASE ReadHello
  <2>1. /\ UNCHANGED <<v, d, hellos, asks, answers>> /\ r.pc = "read"
        /\ Repeats \/ \E n \in hellos : Admits(n)
    BY <1>12, HelloFields DEF ResumeInv
  <2>2. CASE Repeats
    BY <2>1, <2>2 DEF Repeats, ResumeInv, Shapes, PeerIsThere, Answered
  <2>3. ASSUME NEW n \in hellos, Admits(n) PROVE PeerIsThere'
    BY <2>1, <2>3 DEF Admits, ResumeInv, Shapes, PeerIsThere
  <2> QED BY <2>1, <2>2, <2>3
<1>13. CASE AnswerHello
  BY <1>13 DEF AnswerHello, ResumeInv, Shapes, PeerIsThere, Answered
<1>14. ASSUME NEW id \in 1 .. MaxIds, ReplayAck(id) PROVE PeerIsThere'
  BY <1>14 DEF ReplayAck, Answer, ResumeInv, PeerIsThere, Answered
<1>15. ASSUME NEW id \in 1 .. MaxIds, Throttled(id) PROVE PeerIsThere'
  BY <1>15 DEF Throttled, ResumeInv, PeerIsThere, Answered, net
<1>16. ASSUME NEW id \in 1 .. MaxIds, Refuse(id) PROVE PeerIsThere'
  BY <1>16 DEF Refuse, ResumeInv, PeerIsThere, Answered, net
<1>17. ASSUME NEW id \in 1 .. MaxIds, Probe(id) PROVE PeerIsThere'
  BY <1>17 DEF Probe, ResumeInv, PeerIsThere, Answered, net
<1>18. ASSUME NEW id \in 1 .. MaxIds, Accept(id) PROVE PeerIsThere'
  <2>1. /\ UNCHANGED <<v, d, net>> /\ r.pc = "read" /\ Asked(id) /\ ~Replays(id)
        /\ Joins(id) \/ Raises(id)
    BY <1>18, AcceptFields DEF ResumeInv
  <2>2. CASE Joins(id)
    BY <2>1, <2>2 DEF Joins, Takes, SameHost, ResumeInv, PeerIsThere, Answered, net
  <2>3. CASE Raises(id)
    BY <2>1, <2>3 DEF Raises, Takes, SameHost, ResumeInv, PeerIsThere, Answered, net
  <2> QED BY <2>1, <2>2, <2>3
<1>19. CASE HoldStream
  BY <1>19 DEF HoldStream, ResumeInv, PeerIsThere, Answered, net
<1>20. CASE CloseForResume
  BY <1>20 DEF CloseForResume, Close, ResumeInv, PeerIsThere, Answered, net
<1>21. CASE AnswerServed
  BY <1>21 DEF AnswerServed, Answer, ResumeInv, PeerIsThere, Answered
<1>22. CASE AnswerLate
  BY <1>22 DEF AnswerLate, ResumeInv, PeerIsThere, Answered, net
<1>23. CASE ProbeDecided
  BY <1>23 DEF ProbeDecided, ResumeInv, PeerIsThere, Answered, net
<1>24. CASE LosePeer
  BY <1>24 DEF LosePeer, Close, ResumeInv, PeerIsThere, Answered, net
<1>25. CASE Wake
  BY <1>25 DEF Wake, ResumeInv, PeerIsThere, Answered, net
<1>26. CASE TakeEpoch
  BY <1>26 DEF TakeEpoch, ResumeInv, PeerIsThere, Answered, net
<1>27. CASE Turn
  BY <1>27 DEF Turn, Turned, ResumeInv, PeerIsThere, Answered, net
<1>28. CASE Publish
  BY <1>28 DEF Publish, ResumeInv, PeerIsThere, Answered, net
<1>29. CASE EnterServe
  BY <1>29 DEF EnterServe, ResumeInv, PeerIsThere, Answered, net
<1>30. CASE LeaveServe
  BY <1>30 DEF LeaveServe, ResumeInv, PeerIsThere, Answered, net
<1>31. CASE Left
  BY <1>31 DEF Left, ResumeInv, PeerIsThere, Answered, net
<1>32. CASE UNCHANGED vars
  BY <1>32 DEF vars, net, ResumeInv, PeerIsThere, Answered
<1> QED
  BY <1>1, <1>2, <1>3, <1>4, <1>5, <1>6, <1>7, <1>8, <1>9, <1>10, <1>11, <1>12, <1>13, <1>14,
     <1>15, <1>16, <1>17, <1>18, <1>19, <1>20, <1>21, <1>22, <1>23, <1>24, <1>25, <1>26, <1>27,
     <1>28, <1>29, <1>30, <1>31, <1>32 DEF Next, Viewer, Reader, ReadAsk, Dispatcher

(* The host admits a viewer while its reader is free, and begins an epoch.   *)
LEMMA NothingStep == ~Delayed /\ ResumeInv /\ [Next]_vars => NothingLeft'
<1> SUFFICES ASSUME ~Delayed, ResumeInv, [Next]_vars PROVE NothingLeft'
  OBVIOUS
<1>1. CASE Hello
  BY <1>1 DEF Hello, ResumeInv, NothingLeft, Turning
<1>2. CASE Connected
  BY <1>2 DEF Connected, ResumeInv, NothingLeft, Turning
<1>3. CASE EndSession
  BY <1>3 DEF EndSession, ResumeInv, NothingLeft, Turning
<1>4. CASE NextViewer
  BY <1>4 DEF NextViewer, Connecting, ResumeInv, Shapes, PeerIsThere, NothingLeft
<1>5. CASE BeginBreak
  BY <1>5 DEF BeginBreak, ResumeInv, Shapes, NothingLeft
<1>6. CASE Ask
  BY <1>6 DEF Ask, ResumeInv, PeerIsThere, NothingLeft
<1>7. CASE GiveUp
  BY <1>7 DEF GiveUp, ResumeInv, PeerIsThere, NothingLeft
<1>8. CASE TakeAnswer
  BY <1>8 DEF TakeAnswer, ResumeInv, PeerIsThere, NothingLeft
<1>9. CASE ApplyPendingRekey
  BY <1>9 DEF ApplyPendingRekey, ResumeInv, PeerIsThere, NothingLeft
<1>10. CASE Proved
  BY <1>10 DEF Proved, ResumeInv, PeerIsThere, NothingLeft
<1>11. CASE NotProved
  BY <1>11 DEF NotProved, ResumeInv, Shapes, PeerIsThere, NothingLeft
<1>12. CASE ReadHello
  <2>1. /\ UNCHANGED <<v, d, hellos, asks, answers>> /\ r.pc = "read"
        /\ Repeats \/ \E n \in hellos : Admits(n)
    BY <1>12, HelloFields DEF ResumeInv
  <2>2. CASE Repeats
    BY <2>1, <2>2 DEF Repeats, ResumeInv, NothingLeft, Turning
  <2>3. ASSUME NEW n \in hellos, Admits(n) PROVE NothingLeft'
    BY <2>1, <2>3 DEF Admits, ResumeInv, Shapes, TurnsToIt, NothingLeft
  <2> QED BY <2>1, <2>2, <2>3
<1>13. CASE AnswerHello
  BY <1>13 DEF AnswerHello, Reading, ResumeInv, NothingLeft, Turning
<1>14. ASSUME NEW id \in 1 .. MaxIds, ReplayAck(id) PROVE NothingLeft'
  BY <1>14 DEF ReplayAck, Asked, NothingLeft
<1>15. ASSUME NEW id \in 1 .. MaxIds, Throttled(id) PROVE NothingLeft'
  BY <1>15 DEF Throttled, Asked, NothingLeft
<1>16. ASSUME NEW id \in 1 .. MaxIds, Refuse(id) PROVE NothingLeft'
  BY <1>16 DEF Refuse, Considers, Asked, NothingLeft
<1>17. ASSUME NEW id \in 1 .. MaxIds, Probe(id) PROVE NothingLeft'
  BY <1>17 DEF Probe, Considers, Asked, NothingLeft
<1>18. ASSUME NEW id \in 1 .. MaxIds, Accept(id) PROVE NothingLeft'
  <2>1. /\ UNCHANGED <<v, d, net>> /\ r.pc = "read" /\ Asked(id) /\ ~Replays(id)
        /\ Joins(id) \/ Raises(id)
    BY <1>18, AcceptFields DEF ResumeInv
  <2>2. CASE Joins(id)
    BY <2>1, <2>2 DEF Asked, NothingLeft
  <2>3. CASE Raises(id)
    BY <2>1, <2>3 DEF Asked, NothingLeft
  <2> QED BY <2>1, <2>2, <2>3
<1>19. CASE HoldStream
  BY <1>19 DEF HoldStream, ResumeInv, NothingLeft
<1>20. CASE CloseForResume
  BY <1>20 DEF CloseForResume, Close, ResumeInv, NothingLeft
<1>21. CASE AnswerServed
  BY <1>21 DEF AnswerServed, ResumeInv, NothingLeft
<1>22. CASE AnswerLate
  BY <1>22 DEF AnswerLate, ResumeInv, NothingLeft
<1>23. CASE ProbeDecided
  BY <1>23 DEF ProbeDecided, ResumeInv, NothingLeft, Turning
<1>24. CASE LosePeer
  BY <1>24 DEF LosePeer, Close, ResumeInv, NothingLeft, Turning
<1>25. CASE Wake
  BY <1>25 DEF Wake, ResumeInv, NothingLeft, Turning
<1>26. CASE TakeEpoch
  BY <1>26 DEF TakeEpoch, ResumeInv, NothingLeft, Turning
<1>27. CASE Turn
  BY <1>27 DEF Turn, Turned, ResumeInv, NothingLeft, Turning
<1>28. CASE Publish
  BY <1>28 DEF Publish, ResumeInv, NothingLeft
<1>29. CASE EnterServe
  BY <1>29 DEF EnterServe, ResumeInv, NothingLeft, Turning
<1>30. CASE LeaveServe
  BY <1>30 DEF LeaveServe, ResumeInv, NothingLeft, Turning
<1>31. CASE Left
  BY <1>31 DEF Left, ResumeInv, NothingLeft, Turning
<1>32. CASE UNCHANGED vars
  BY <1>32 DEF vars, ResumeInv, NothingLeft, Turning
<1> QED
  BY <1>1, <1>2, <1>3, <1>4, <1>5, <1>6, <1>7, <1>8, <1>9, <1>10, <1>11, <1>12, <1>13, <1>14,
     <1>15, <1>16, <1>17, <1>18, <1>19, <1>20, <1>21, <1>22, <1>23, <1>24, <1>25, <1>26, <1>27,
     <1>28, <1>29, <1>30, <1>31, <1>32 DEF Next, Viewer, Reader, ReadAsk, Dispatcher

(* The dispatcher turns to what was raised last, or to an epoch still to serve. *)
LEMMA TurnsStep == ~Delayed /\ ResumeInv /\ [Next]_vars => TurnsToIt'
<1> SUFFICES ASSUME ~Delayed, ResumeInv, [Next]_vars PROVE TurnsToIt'
  OBVIOUS
<1>1. CASE Hello
  BY <1>1 DEF Hello, ResumeInv, PeerIsThere, TurnsToIt
<1>2. CASE Connected
  BY <1>2 DEF Connected, ResumeInv, PeerIsThere, TurnsToIt
<1>3. CASE EndSession
  BY <1>3 DEF EndSession, ResumeInv, TurnsToIt, Turning
<1>4. CASE NextViewer
  BY <1>4 DEF NextViewer, Connecting, ResumeInv, TurnsToIt
<1>5. CASE BeginBreak
  BY <1>5 DEF BeginBreak, Prompt, ResumeInv, Shapes, PeerIsThere, NothingLeft, TurnsToIt,
     AnswerStands, Turning
<1>6. CASE Ask
  BY <1>6 DEF Ask, ResumeInv, TurnsToIt, Turning
<1>7. CASE GiveUp
  BY <1>7 DEF GiveUp, ResumeInv, TurnsToIt, Turning
<1>8. CASE TakeAnswer
  BY <1>8 DEF TakeAnswer, ResumeInv, TurnsToIt, Turning
<1>9. CASE ApplyPendingRekey
  BY <1>9 DEF ApplyPendingRekey, ResumeInv, PeerIsThere, TurnsToIt, AnswerStands
<1>10. CASE Proved
  BY <1>10 DEF Proved, ResumeInv, PeerIsThere, TurnsToIt, AnswerStands
<1>11. CASE NotProved
  BY <1>11 DEF NotProved, Prompt, ResumeInv, Shapes, PeerIsThere, TurnsToIt, AnswerStands
<1>12. CASE ReadHello
  <2>1. /\ UNCHANGED <<v, d, hellos, asks, answers>> /\ r.pc = "read"
        /\ Repeats \/ \E n \in hellos : Admits(n)
    BY <1>12, HelloFields DEF ResumeInv
  <2>2. CASE Repeats
    BY <2>1, <2>2 DEF Repeats, ResumeInv, TurnsToIt, Turning
  <2>3. ASSUME NEW n \in hellos, Admits(n) PROVE TurnsToIt'
    BY <2>1, <2>3 DEF Admits, ResumeInv, Shapes, PeerIsThere, TurnsToIt
  <2> QED BY <2>1, <2>2, <2>3
<1>13. CASE AnswerHello
  BY <1>13 DEF AnswerHello, ResumeInv, TurnsToIt, Turning
<1>14. ASSUME NEW id \in 1 .. MaxIds, ReplayAck(id) PROVE TurnsToIt'
  BY <1>14 DEF ReplayAck, Asked, Replays, ResumeInv, TurnsToIt, AnswerStands
<1>15. ASSUME NEW id \in 1 .. MaxIds, Throttled(id) PROVE TurnsToIt'
  BY <1>15 DEF Throttled, ResumeInv, TurnsToIt, Turning
<1>16. ASSUME NEW id \in 1 .. MaxIds, Refuse(id) PROVE TurnsToIt'
  BY <1>16 DEF Refuse, ResumeInv, TurnsToIt, Turning
<1>17. ASSUME NEW id \in 1 .. MaxIds, Probe(id) PROVE TurnsToIt'
  BY <1>17 DEF Probe, ResumeInv, TurnsToIt, Turning
<1>18. ASSUME NEW id \in 1 .. MaxIds, Accept(id) PROVE TurnsToIt'
  <2>1. /\ UNCHANGED <<v, d, net>> /\ r.pc = "read" /\ Asked(id) /\ ~Replays(id)
        /\ Joins(id) \/ Raises(id)
    BY <1>18, AcceptFields DEF ResumeInv
  <2>2. CASE Joins(id)
    BY <2>1, <2>2 DEF Joins, Takes, SameHost, ResumeInv, TurnsToIt, Turning
  <2>3. CASE Raises(id)
    BY <2>1, <2>3 DEF Raises, Takes, SameHost, Asked, ResumeInv, Shapes, TurnsToIt
  <2> QED BY <2>1, <2>2, <2>3
<1>19. CASE HoldStream
  BY <1>19 DEF HoldStream, ResumeInv, TurnsToIt, Turning
<1>20. CASE CloseForResume
  BY <1>20 DEF CloseForResume, Close, ResumeInv, TurnsToIt, Turning
<1>21. CASE AnswerServed
  BY <1>21 DEF AnswerServed, ResumeInv, TurnsToIt, Turning
<1>22. CASE AnswerLate
  BY <1>22 DEF AnswerLate, ResumeInv, TurnsToIt, Turning
<1>23. CASE ProbeDecided
  BY <1>23 DEF ProbeDecided, ResumeInv, TurnsToIt, Turning
<1>24. CASE LosePeer
  BY <1>24 DEF LosePeer, Close, ResumeInv, TurnsToIt, Turning
<1>25. CASE Wake
  <2>1. /\ UNCHANGED <<v, h>> /\ d.pc = "wait"
        /\ d'.pc = "woken" /\ d'.epoch = d.epoch /\ d'.seq = d.seq
        /\ d'.resuming = (h.epoch <= d.epoch)
        /\ h.epoch > d.epoch \/ h.seq > d.seq
    BY <1>25 DEF Wake
  <2>2. /\ h.epoch \in Nat /\ d.epoch \in Nat /\ h.seq \in Nat /\ d.seq \in Nat
        /\ TurnsToIt
    BY DEF ResumeInv, Shapes
  <2>3. CASE h.epoch <= d.epoch
    BY <2>1, <2>2, <2>3 DEF TurnsToIt, Turning
  <2>4. CASE ~(h.epoch <= d.epoch)
    BY <2>1, <2>2, <2>4 DEF TurnsToIt, Turning
  <2> QED BY <2>3, <2>4
<1>26. CASE TakeEpoch
  BY <1>26 DEF TakeEpoch, ResumeInv, Shapes, TurnsToIt, Turning
<1>27. CASE Turn
  BY <1>27 DEF Turn, Turned, ResumeInv, TurnsToIt, Turning
<1>28. CASE Publish
  BY <1>28 DEF Publish, ResumeInv, Shapes, TurnsToIt
<1>29. CASE EnterServe
  BY <1>29 DEF EnterServe, ResumeInv, TurnsToIt, Turning
<1>30. CASE LeaveServe
  BY <1>30 DEF LeaveServe, ResumeInv, TurnsToIt, Turning
<1>31. CASE Left
  BY <1>31 DEF Left, ResumeInv, TurnsToIt, Turning
<1>32. CASE UNCHANGED vars
  BY <1>32 DEF vars, ResumeInv, TurnsToIt, Turning
<1> QED
  BY <1>1, <1>2, <1>3, <1>4, <1>5, <1>6, <1>7, <1>8, <1>9, <1>10, <1>11, <1>12, <1>13, <1>14,
     <1>15, <1>16, <1>17, <1>18, <1>19, <1>20, <1>21, <1>22, <1>23, <1>24, <1>25, <1>26, <1>27,
     <1>28, <1>29, <1>30, <1>31, <1>32 DEF Next, Viewer, Reader, ReadAsk, Dispatcher

(* Asks of this id either raise it or join the wait for it.                  *)
LEMMA RaisedStep == ~Delayed /\ ResumeInv /\ [Next]_vars => RaisedForIt'
<1> SUFFICES ASSUME ~Delayed, ResumeInv, [Next]_vars PROVE RaisedForIt'
  OBVIOUS
<1>1. CASE Hello
  BY <1>1 DEF Hello, ResumeInv, PeerIsThere, RaisedForIt
<1>2. CASE Connected
  BY <1>2 DEF Connected, ResumeInv, PeerIsThere, RaisedForIt
<1>3. CASE EndSession
  BY <1>3 DEF EndSession, ResumeInv, RaisedForIt, Busy
<1>4. CASE NextViewer
  BY <1>4 DEF NextViewer, Connecting, RaisedForIt
<1>5. CASE BeginBreak
  BY <1>5 DEF BeginBreak, ResumeInv, Shapes, IdsDrawn, RaisedForIt
<1>6. CASE Ask
  BY <1>6 DEF Ask, ResumeInv, RaisedForIt, Busy
<1>7. CASE GiveUp
  BY <1>7 DEF GiveUp, ResumeInv, RaisedForIt, Busy
<1>8. CASE TakeAnswer
  BY <1>8 DEF TakeAnswer, ResumeInv, RaisedForIt, Busy
<1>9. CASE ApplyPendingRekey
  BY <1>9 DEF ApplyPendingRekey, ResumeInv, RaisedForIt, Busy
<1>10. CASE Proved
  BY <1>10 DEF Proved, ResumeInv, RaisedForIt, Busy
<1>11. CASE NotProved
  BY <1>11 DEF NotProved, ResumeInv, Shapes, IdsDrawn, RaisedForIt, Busy
<1>12. CASE ReadHello
  <2>1. /\ UNCHANGED <<v, d, hellos, asks, answers>> /\ r.pc = "read"
        /\ Repeats \/ \E n \in hellos : Admits(n)
    BY <1>12, HelloFields DEF ResumeInv
  <2>2. CASE Repeats
    BY <2>1, <2>2 DEF Repeats, ResumeInv, RaisedForIt, Busy
  <2>3. ASSUME NEW n \in hellos, Admits(n) PROVE RaisedForIt'
    BY <2>1, <2>3 DEF Admits, ResumeInv, Shapes, IdsDrawn, PeerIsThere, RaisedForIt
  <2> QED BY <2>1, <2>2, <2>3
<1>13. CASE AnswerHello
  BY <1>13 DEF AnswerHello, Reading, ResumeInv, RaisedForIt
<1>14. ASSUME NEW id \in 1 .. MaxIds, ReplayAck(id) PROVE RaisedForIt'
  BY <1>14 DEF ReplayAck, ResumeInv, RaisedForIt, Busy
<1>15. ASSUME NEW id \in 1 .. MaxIds, Throttled(id) PROVE RaisedForIt'
  BY <1>15 DEF Throttled, ResumeInv, RaisedForIt, Busy
<1>16. ASSUME NEW id \in 1 .. MaxIds, Refuse(id) PROVE RaisedForIt'
  BY <1>16 DEF Refuse, Noted, ResumeInv, RaisedForIt, Busy
<1>17. ASSUME NEW id \in 1 .. MaxIds, Probe(id) PROVE RaisedForIt'
  BY <1>17 DEF Probe, Noted, ResumeInv, RaisedForIt, Busy
<1>18. ASSUME NEW id \in 1 .. MaxIds, Accept(id) PROVE RaisedForIt'
  <2>1. /\ UNCHANGED <<v, d, net>> /\ r.pc = "read" /\ Asked(id) /\ ~Replays(id)
        /\ Joins(id) \/ Raises(id)
    BY <1>18, AcceptFields DEF ResumeInv
  <2>2. CASE Joins(id)
    BY <2>1, <2>2 DEF Joins, Takes, ResumeInv, RaisedForIt
  <2>3. CASE Raises(id)
    BY <2>1, <2>3 DEF Raises, Takes, RaisedForIt
  <2> QED BY <2>1, <2>2, <2>3
<1>19. CASE HoldStream
  BY <1>19 DEF HoldStream, ResumeInv, RaisedForIt, Busy
<1>20. CASE CloseForResume
  BY <1>20 DEF CloseForResume, Close, ResumeInv, RaisedForIt, Busy
<1>21. CASE AnswerServed
  BY <1>21 DEF AnswerServed, Reading, RaisedForIt
<1>22. CASE AnswerLate
  BY <1>22 DEF AnswerLate, Reading, ResumeInv, RaisedForIt
<1>23. CASE ProbeDecided
  BY <1>23 DEF ProbeDecided, ResumeInv, RaisedForIt, Busy
<1>24. CASE LosePeer
  BY <1>24 DEF LosePeer, Close, ResumeInv, RaisedForIt, Busy
<1>25. CASE Wake
  BY <1>25 DEF Wake, ResumeInv, RaisedForIt, Busy
<1>26. CASE TakeEpoch
  BY <1>26 DEF TakeEpoch, ResumeInv, RaisedForIt, Busy
<1>27. CASE Turn
  BY <1>27 DEF Turn, Turned, ResumeInv, RaisedForIt, Busy
<1>28. CASE Publish
  BY <1>28 DEF Publish, ResumeInv, RaisedForIt, Busy
<1>29. CASE EnterServe
  BY <1>29 DEF EnterServe, ResumeInv, RaisedForIt, Busy
<1>30. CASE LeaveServe
  BY <1>30 DEF LeaveServe, ResumeInv, RaisedForIt, Busy
<1>31. CASE Left
  BY <1>31 DEF Left, ResumeInv, RaisedForIt, Busy
<1>32. CASE UNCHANGED vars
  BY <1>32 DEF vars, ResumeInv, RaisedForIt, Busy
<1> QED
  BY <1>1, <1>2, <1>3, <1>4, <1>5, <1>6, <1>7, <1>8, <1>9, <1>10, <1>11, <1>12, <1>13, <1>14,
     <1>15, <1>16, <1>17, <1>18, <1>19, <1>20, <1>21, <1>22, <1>23, <1>24, <1>25, <1>26, <1>27,
     <1>28, <1>29, <1>30, <1>31, <1>32 DEF Next, Viewer, Reader, ReadAsk, Dispatcher

(* The dispatcher announces a number after it has re-keyed to its id.        *)
LEMMA ServedStep == ~Delayed /\ ResumeInv /\ [Next]_vars => ServedIsTrue'
<1> SUFFICES ASSUME ~Delayed, ResumeInv, [Next]_vars PROVE ServedIsTrue'
  OBVIOUS
<1>1. CASE Hello
  BY <1>1 DEF Hello, ResumeInv, PeerIsThere, ServedIsTrue
<1>2. CASE Connected
  BY <1>2 DEF Connected, ResumeInv, PeerIsThere, ServedIsTrue
<1>3. CASE EndSession
  BY <1>3 DEF EndSession, ResumeInv, ServedIsTrue, Settled, Turning, Busy
<1>4. CASE NextViewer
  BY <1>4 DEF NextViewer, Connecting, ServedIsTrue
<1>5. CASE BeginBreak
  BY <1>5 DEF BeginBreak, ResumeInv, Shapes, IdsDrawn, ServedIsTrue
<1>6. CASE Ask
  BY <1>6 DEF Ask, ResumeInv, ServedIsTrue, Settled, Turning, Busy
<1>7. CASE GiveUp
  BY <1>7 DEF GiveUp, ResumeInv, ServedIsTrue, Settled, Turning, Busy
<1>8. CASE TakeAnswer
  BY <1>8 DEF TakeAnswer, ResumeInv, ServedIsTrue, Settled, Turning, Busy
<1>9. CASE ApplyPendingRekey
  BY <1>9 DEF ApplyPendingRekey, ResumeInv, ServedIsTrue, Settled, Turning, Busy
<1>10. CASE Proved
  BY <1>10 DEF Proved, ResumeInv, ServedIsTrue, Settled, Turning, Busy
<1>11. CASE NotProved
  BY <1>11 DEF NotProved, ResumeInv, Shapes, IdsDrawn, ServedIsTrue, Settled, Turning, Busy
<1>12. CASE ReadHello
  <2>1. /\ UNCHANGED <<v, d, hellos, asks, answers>> /\ r.pc = "read"
        /\ Repeats \/ \E n \in hellos : Admits(n)
    BY <1>12, HelloFields DEF ResumeInv
  <2>2. CASE Repeats
    BY <2>1, <2>2 DEF Repeats, ResumeInv, ServedIsTrue, Settled, Turning, Busy
  <2>3. ASSUME NEW n \in hellos, Admits(n) PROVE ServedIsTrue'
    BY <2>1, <2>3 DEF Admits, ResumeInv, Shapes, PeerIsThere, ServedIsTrue
  <2> QED BY <2>1, <2>2, <2>3
<1>13. CASE AnswerHello
  BY <1>13 DEF AnswerHello, Reading, ResumeInv, ServedIsTrue, Settled, Turning
<1>14. ASSUME NEW id \in 1 .. MaxIds, ReplayAck(id) PROVE ServedIsTrue'
  BY <1>14 DEF ReplayAck, ResumeInv, ServedIsTrue, Settled, Turning, Busy
<1>15. ASSUME NEW id \in 1 .. MaxIds, Throttled(id) PROVE ServedIsTrue'
  BY <1>15 DEF Throttled, ResumeInv, ServedIsTrue, Settled, Turning, Busy
<1>16. ASSUME NEW id \in 1 .. MaxIds, Refuse(id) PROVE ServedIsTrue'
  BY <1>16 DEF Refuse, Noted, ResumeInv, ServedIsTrue, Settled, Turning, Busy
<1>17. ASSUME NEW id \in 1 .. MaxIds, Probe(id) PROVE ServedIsTrue'
  BY <1>17 DEF Probe, Noted, ResumeInv, ServedIsTrue, Settled, Turning, Busy
<1>18. ASSUME NEW id \in 1 .. MaxIds, Accept(id) PROVE ServedIsTrue'
  <2>1. /\ UNCHANGED <<v, d, net>> /\ r.pc = "read" /\ Asked(id) /\ ~Replays(id)
        /\ Joins(id) \/ Raises(id)
    BY <1>18, AcceptFields DEF ResumeInv
  <2>2. CASE Joins(id)
    BY <2>1, <2>2 DEF Joins, Takes, SameHost, ResumeInv, ServedIsTrue, Settled, Turning
  <2>3. CASE Raises(id)
    BY <2>1, <2>3 DEF Raises, Takes, SameHost, ResumeInv, Shapes, TurnsToIt, ServedIsTrue
  <2> QED BY <2>1, <2>2, <2>3
<1>19. CASE HoldStream
  BY <1>19 DEF HoldStream, ResumeInv, ServedIsTrue, Settled, Turning, Busy
<1>20. CASE CloseForResume
  BY <1>20 DEF CloseForResume, Close, ResumeInv, ServedIsTrue, Settled, Turning, Busy
<1>21. CASE AnswerServed
  BY <1>21 DEF AnswerServed, Reading, ResumeInv, ServedIsTrue, Settled, Turning
<1>22. CASE AnswerLate
  BY <1>22 DEF AnswerLate, Reading, ResumeInv, ServedIsTrue, Settled, Turning
<1>23. CASE ProbeDecided
  BY <1>23 DEF ProbeDecided, ResumeInv, ServedIsTrue, Settled, Turning, Busy
<1>24. CASE LosePeer
  BY <1>24 DEF LosePeer, Close, ResumeInv, ServedIsTrue, Settled, Turning, Busy
<1>25. CASE Wake
  BY <1>25 DEF Wake, ResumeInv, Shapes, ServedIsTrue, Settled, Busy
<1>26. CASE TakeEpoch
  BY <1>26 DEF TakeEpoch, ResumeInv, ServedIsTrue, Settled, Turning, Busy
<1>27. CASE Turn
  BY <1>27 DEF Turn, Turned, ResumeInv, ServedIsTrue, Settled, Turning, Busy
<1>28. CASE Publish
  BY <1>28 DEF Publish, ResumeInv, Shapes, TurnsToIt, RaisedForIt, ServedIsTrue, Settled, Turning,
     Busy
<1>29. CASE EnterServe
  BY <1>29 DEF EnterServe, ResumeInv, ServedIsTrue, Settled, Turning, Busy
<1>30. CASE LeaveServe
  BY <1>30 DEF LeaveServe, ResumeInv, ServedIsTrue, Settled, Turning, Busy
<1>31. CASE Left
  BY <1>31 DEF Left, ResumeInv, ServedIsTrue, Settled, Turning, Busy
<1>32. CASE UNCHANGED vars
  BY <1>32 DEF vars, ResumeInv, ServedIsTrue, Settled, Turning, Busy
<1> QED
  BY <1>1, <1>2, <1>3, <1>4, <1>5, <1>6, <1>7, <1>8, <1>9, <1>10, <1>11, <1>12, <1>13, <1>14,
     <1>15, <1>16, <1>17, <1>18, <1>19, <1>20, <1>21, <1>22, <1>23, <1>24, <1>25, <1>26, <1>27,
     <1>28, <1>29, <1>30, <1>31, <1>32 DEF Next, Viewer, Reader, ReadAsk, Dispatcher

(* The reader answers after the announcement, and then finds its answer again. *)
LEMMA StandsStep == ~Delayed /\ ResumeInv /\ [Next]_vars => AnswerStands'
<1> SUFFICES ASSUME ~Delayed, ResumeInv, [Next]_vars PROVE AnswerStands'
  OBVIOUS
<1>1. CASE Hello
  BY <1>1 DEF Hello, ResumeInv, PeerIsThere, AnswerStands, Answered
<1>2. CASE Connected
  BY <1>2 DEF Connected, ResumeInv, PeerIsThere, AnswerStands, Answered
<1>3. CASE EndSession
  BY <1>3 DEF EndSession, ResumeInv, AnswerStands, Answered, Settled, Turning, net
<1>4. CASE NextViewer
  BY <1>4 DEF NextViewer, Connecting, AnswerStands, Answered
<1>5. CASE BeginBreak
  BY <1>5 DEF BeginBreak, ResumeInv, Shapes, IdsDrawn, AnswerStands, Answered, net
<1>6. CASE Ask
  BY <1>6 DEF Ask, ResumeInv, AnswerStands, Answered, Settled, Turning
<1>7. CASE GiveUp
  BY <1>7 DEF GiveUp, ResumeInv, AnswerStands, Answered, Settled, Turning, net
<1>8. CASE TakeAnswer
  BY <1>8 DEF TakeAnswer, ResumeInv, AnswerStands, Answered, Settled, Turning, net
<1>9. CASE ApplyPendingRekey
  BY <1>9 DEF ApplyPendingRekey, ResumeInv, AnswerStands, Answered, Settled, Turning, net
<1>10. CASE Proved
  BY <1>10 DEF Proved, ResumeInv, AnswerStands, Answered, Settled, Turning, net
<1>11. CASE NotProved
  BY <1>11 DEF NotProved, ResumeInv, Shapes, IdsDrawn, AnswerStands, Answered, Settled, Turning, net
<1>12. CASE ReadHello
  <2>1. /\ UNCHANGED <<v, d, hellos, asks, answers>> /\ r.pc = "read"
        /\ Repeats \/ \E n \in hellos : Admits(n)
    BY <1>12, HelloFields DEF ResumeInv
  <2>2. CASE Repeats
    BY <2>1, <2>2 DEF Repeats, ResumeInv, AnswerStands, Answered, Settled, Turning
  <2>3. ASSUME NEW n \in hellos, Admits(n) PROVE AnswerStands'
    BY <2>1, <2>3 DEF Admits, ResumeInv, Shapes, PeerIsThere, AnswerStands, Answered, Settled
  <2> QED BY <2>1, <2>2, <2>3
<1>13. CASE AnswerHello
  BY <1>13 DEF AnswerHello, Reading, ResumeInv, AnswerStands, Answered
<1>14. ASSUME NEW id \in 1 .. MaxIds, ReplayAck(id) PROVE AnswerStands'
  BY <1>14 DEF ReplayAck, Replays, Answer, ResumeInv, AnswerStands, Answered, Settled, Turning
<1>15. ASSUME NEW id \in 1 .. MaxIds, Throttled(id) PROVE AnswerStands'
  BY <1>15 DEF Throttled, Remembered, Asked, Replays, NoAnswer, ResumeInv, AnswerStands, Answered,
     net
<1>16. ASSUME NEW id \in 1 .. MaxIds, Refuse(id) PROVE AnswerStands'
  BY <1>16 DEF Refuse, Considers, Asked, Replays, Noted, Remembered, NoAnswer, ResumeInv,
     AnswerStands, Answered, net
<1>17. ASSUME NEW id \in 1 .. MaxIds, Probe(id) PROVE AnswerStands'
  BY <1>17 DEF Probe, Considers, Asked, Noted, Remembered, NoAnswer, ResumeInv, AnswerStands,
     Answered, net
<1>18. ASSUME NEW id \in 1 .. MaxIds, Accept(id) PROVE AnswerStands'
  <2>1. /\ UNCHANGED <<v, d, net>> /\ r.pc = "read" /\ Asked(id) /\ ~Replays(id)
        /\ Joins(id) \/ Raises(id)
    BY <1>18, AcceptFields DEF ResumeInv
  <2>2. CASE Joins(id)
    BY <2>1, <2>2 DEF Joins, Takes, Asked, Replays, NoAnswer, Remembered, ResumeInv, AnswerStands,
       Answered, net
  <2>3. CASE Raises(id)
    BY <2>1, <2>3 DEF Raises, Takes, Asked, Replays, NoAnswer, Remembered, ResumeInv,
       AnswerStands, Answered, net
  <2> QED BY <2>1, <2>2, <2>3
<1>19. CASE HoldStream
  BY <1>19 DEF HoldStream, ResumeInv, AnswerStands, Answered, net
<1>20. CASE CloseForResume
  BY <1>20 DEF CloseForResume, ResumeInv, AnswerStands, Answered, net
<1>21. CASE AnswerServed
  BY <1>21 DEF AnswerServed, Reading, Answer, ResumeInv, Shapes, PeerIsThere, RaisedForIt,
     ServedIsTrue, AnswerStands, TurnsToIt, Answered, Settled, Turning, Busy
<1>22. CASE AnswerLate
  BY <1>22 DEF AnswerLate, Reading, ResumeInv, AnswerStands, Answered, net
<1>23. CASE ProbeDecided
  BY <1>23 DEF ProbeDecided, ResumeInv, AnswerStands, Answered, Settled, Turning, net
<1>24. CASE LosePeer
  BY <1>24 DEF LosePeer, Close, ResumeInv, AnswerStands, Answered, Settled, Turning, net
<1>25. CASE Wake
  BY <1>25 DEF Wake, ResumeInv, Shapes, AnswerStands, Answered, Settled, net
<1>26. CASE TakeEpoch
  BY <1>26 DEF TakeEpoch, ResumeInv, AnswerStands, Answered, Settled, Turning, net
<1>27. CASE Turn
  BY <1>27 DEF Turn, ResumeInv, AnswerStands, Answered, Settled, Turning, net
<1>28. CASE Publish
  BY <1>28 DEF Publish, ResumeInv, AnswerStands, Answered, Settled, Turning, net
<1>29. CASE EnterServe
  BY <1>29 DEF EnterServe, ResumeInv, AnswerStands, Answered, Settled, Turning, net
<1>30. CASE LeaveServe
  BY <1>30 DEF LeaveServe, ResumeInv, AnswerStands, Answered, Settled, Turning, net
<1>31. CASE Left
  BY <1>31 DEF Left, ResumeInv, AnswerStands, Answered, Settled, Turning, net
<1>32. CASE UNCHANGED vars
  BY <1>32 DEF vars, net, ResumeInv, AnswerStands, Answered, Settled, Turning
<1> QED
  BY <1>1, <1>2, <1>3, <1>4, <1>5, <1>6, <1>7, <1>8, <1>9, <1>10, <1>11, <1>12, <1>13, <1>14,
     <1>15, <1>16, <1>17, <1>18, <1>19, <1>20, <1>21, <1>22, <1>23, <1>24, <1>25, <1>26, <1>27,
     <1>28, <1>29, <1>30, <1>31, <1>32 DEF Next, Viewer, Reader, ReadAsk, Dispatcher
-----------------------------------------------------------------------------

(* The invariant holds at first,                                             *)
LEMMA ResumeInit == Init => ResumeInv
<1> SUFFICES ASSUME Init PROVE ResumeInv
  OBVIOUS
<1>1. Shapes /\ IdsDrawn /\ PeerIsThere
  BY DEF Init, Connecting, NoAnswer, Shapes, IdsDrawn, PeerIsThere
<1>2. NothingLeft /\ TurnsToIt /\ RaisedForIt
  BY DEF Init, NothingLeft, TurnsToIt, RaisedForIt
<1>3. ServedIsTrue /\ AnswerStands
  BY DEF Init, Connecting, ServedIsTrue, AnswerStands, Answered
<1> QED BY <1>1, <1>2, <1>3 DEF ResumeInv

(* every step keeps it,                                                      *)
LEMMA ResumeStep == ~Delayed /\ ResumeInv /\ [Next]_vars => ResumeInv'
<1> SUFFICES ASSUME ~Delayed, ResumeInv, [Next]_vars PROVE ResumeInv'
  OBVIOUS
<1>1. Shapes' /\ IdsDrawn' /\ PeerIsThere' /\ NothingLeft'
  BY ShapesStep, IdsStep, PeerStep, NothingStep DEF ResumeInv
<1>2. TurnsToIt' /\ RaisedForIt' /\ ServedIsTrue' /\ AnswerStands'
  BY TurnsStep, RaisedStep, ServedStep, StandsStep
<1> QED BY <1>1, <1>2 DEF ResumeInv

(* and so it holds throughout, as long as no ask outlives its recovery.      *)
LEMMA ResumeInvariant == ~Delayed /\ Spec => []ResumeInv
<1>1. CASE ~Delayed
  <2>1. ResumeInv /\ [Next]_vars => ResumeInv'
    BY <1>1, ResumeStep
  <2> QED BY <2>1, ResumeInit, PTL DEF Spec
<1>2. CASE Delayed
  BY <1>2
<1> QED BY <1>1, <1>2

(* A viewer that proves its new channel finds the host on the stream ids of  *)
(* its own ask: the dispatcher has re-keyed to them before the reader        *)
(* answered, and neither turns to anything else while the viewer has that    *)
(* id.  With asks that arrive after their viewer has gone on this is false.  *)
THEOREM AnswersHold == ~Delayed /\ Spec => []AnswersAreHonest
<1>1. ResumeInv => AnswersAreHonest
  <2> SUFFICES ASSUME ResumeInv, v.worker = "proving" PROVE h.key = v.id
    BY DEF AnswersAreHonest
  <2>1. Answered
    BY DEF ResumeInv, PeerIsThere
  <2> QED BY <2>1 DEF ResumeInv, AnswerStands
<1> QED BY <1>1, ResumeInvariant, PTL

(* Nothing that is still under way closes a channel its viewer works on:     *)

(* after a break the reader has only the answer to repeat, before the first  *)
(* break it is not busy with an ask, the probe of the channel finds it       *)
(* alive, and only a hello of a new viewer may take the host over.           *)
LEMMA WorkingStays ==
  ResumeInv /\ [Next]_vars =>
    [Works => (h'.open /\ h'.key = h.key) \/ h'.epoch > h.epoch]_vars
<1> SUFFICES ASSUME ResumeInv, Next, Works
             PROVE  (h'.open /\ h'.key = h.key) \/ h'.epoch > h.epoch
  OBVIOUS
<1>1. /\ v.gen = h.peer /\ h.open /\ d.pc = "serve" /\ v.worker = "running" /\ Together
      /\ r.pc \in {"read", "epoch"} /\ Shapes
  <2>1. v.gen = h.peer /\ h.open /\ d.pc = "serve" /\ v.worker = "running" /\ Together /\ Shapes
    BY DEF Works, Together, ResumeInv
  <2>2. CASE v.id = 0
    BY <2>1, <2>2 DEF ResumeInv, NothingLeft
  <2>3. CASE v.id # 0
    BY <2>1, <2>3 DEF ResumeInv, PeerIsThere, AnswerStands
  <2> QED BY <2>1, <2>2, <2>3
<1>2. CASE Viewer
  BY <1>1, <1>2 DEF Viewer, Hello, Connected, EndSession, NextViewer, BeginBreak, Ask, GiveUp,
     TakeAnswer, ApplyPendingRekey, Proved, NotProved
<1>3. CASE ReadHello
  BY <1>1, <1>3, HelloFields DEF Repeats, Admits, Shapes
<1>4. CASE AnswerHello
  BY <1>1, <1>4 DEF AnswerHello
<1>5. ASSUME NEW id \in 1 .. MaxIds, Accept(id)
      PROVE  h'.open /\ h'.key = h.key
  BY <1>1, <1>5, AcceptFields DEF Joins, Raises, Takes, SameHost
<1>6. ASSUME NEW id \in 1 .. MaxIds, ReplayAck(id) \/ Throttled(id) \/ Refuse(id) \/ Probe(id)
      PROVE  h'.open /\ h'.key = h.key
  BY <1>1, <1>6 DEF ReplayAck, Throttled, Refuse, Probe, Shapes
<1>7. CASE HoldStream \/ CloseForResume \/ AnswerServed \/ AnswerLate
  BY <1>1, <1>7 DEF HoldStream, CloseForResume, AnswerServed, AnswerLate
<1>8. CASE ProbeDecided
  BY <1>1, <1>8 DEF ProbeDecided
<1>9. CASE LosePeer
  BY <1>1, <1>9 DEF LosePeer
<1>10. CASE Dispatcher
  BY <1>1, <1>10 DEF Dispatcher, Wake, TakeEpoch, Turn, Publish, EnterServe, LeaveServe, Left
<1> QED
  BY <1>2, <1>3, <1>4, <1>5, <1>6, <1>7, <1>8, <1>9, <1>10 DEF Next, Reader, ReadAsk

(* A channel that works is not closed or re-keyed under the viewer that uses *)
(* it, unless a new viewer takes the host over.                              *)
THEOREM WorkingChannelsStay == ~Delayed /\ Spec => WorkingChannelStays
<1>1. ResumeInv /\ [Next]_vars => [Works => (h'.open /\ h'.key = h.key) \/ h'.epoch > h.epoch]_vars
  BY WorkingStays
<1> QED BY <1>1, ResumeInvariant, PTL DEF WorkingChannelStays, Spec
===============================================================================
