----------------------------- MODULE VideoStream -----------------------------
(***************************************************************************)
(* The pictures of a session over UDP, from the host's encoder to the      *)
(* viewer's decoder, and the keyframes the viewer asks for on the way back *)
(* (host_stage_encode_send_h264*.cpp, host_encoded_sender.cpp,             *)
(* viewer_video_receiver*.cpp, viewer_frame_gate.cpp).                     *)
(*                                                                         *)
(* A picture that is no keyframe can be decoded only after the one before  *)
(* it, so whatever is dropped on the way, at either end, has to be         *)
(* followed by a keyframe.                                                 *)
(*                                                                         *)
(* Threads that interleave: the host's main loop (it encodes, judges what  *)
(* comes out and queues it), its sender thread, and the viewer's receiver  *)
(* (it assembles, orders, gates and decodes).  `pipe' holds every picture  *)
(* that is under way, in the order they were encoded, with where it is and *)
(* what the viewer will lack when it comes to it.                          *)
(***************************************************************************)
EXTENDS Naturals, SequencesExt, FiniteSetsExt

CONSTANTS
  EncoderHolds,   \* pictures the encoder may keep back from one call to the next
  QueueMax,       \* kSenderQueueMaxFrames
  HeldMax,        \* kHoldMaxConcurrentAssemblies
  PipeMax,        \* bound: pictures under way
  Faults,         \* what may go wrong, by name
  MaxFaults       \* bound: how often

ASSUME StreamConstants ==
  /\ {QueueMax, HeldMax, PipeMax} \subseteq Nat \ {0} /\ {EncoderHolds, MaxFaults} \subseteq Nat
  /\ Faults \subseteq {"refused", "ignored", "output", "unknown", "rebuilt", "flush", "viewer", "stall", "send",
                       "lost", "overflow", "part", "stale", "lag", "decode"}

VARIABLES
  pipe,      \* the pictures under way, oldest first
  next,      \* what the next picture will miss, and whether its number shows it
  h,         \* the host's main loop: encoder, epoch gate, barrier, key state, mailbox
  s,         \* the sender thread
  v,         \* the viewer
  faults     \* bound

vars == <<pipe, next, h, s, v, faults>>

Places == {"held", "wire", "hand", "queue", "batch", "encoder"}
(* Whether all its chunks arrived; if not, how long it has been waited for: *)
(* within the hold, past it, or past every attempt at repair.               *)
Parts == {"whole", "fresh", "over", "spent"}
(* What a picture lacks: nothing, one the host dropped, one of a batch it  *)
(* threw away with no number and its way open, one lost later.             *)
Misses == {"none", "host", "batch", "later"}
KeyIds == 1 .. 5
NoKey == [id |-> 0, now |-> FALSE]

At(place) == {i \in DOMAIN pipe : pipe[i].at = place}
First(place) == Min(At(place))

Fault(f) == f \in Faults /\ faults < MaxFaults /\ faults' = faults + 1
NoFault == UNCHANGED faults

Worse(m, o) == m = o \/ m = "host" \/ (m = "later" /\ o # "host") \/ o = "none"

(* The pictures at positions S are dropped by `who'; `numbered' says whether *)
(* they had their sequence numbers.  The one behind them misses them.        *)
Gone(p, n, S, who, numbered) ==
  IF S = {} THEN [pipe |-> p, next |-> n] ELSE
  LET Left == DOMAIN p \ S
      (* the k-th of those that are left *)
      Kept(k) == CHOOSE i \in Left : Cardinality({j \in Left : j <= i}) = k
      (* those dropped between the one kept before i and i itself *)
      Before(i) == {j \in S : j < i /\ \A k \in j .. i - 1 : k \in S}
      Missing(x, i) ==
        IF Before(i) = {} THEN x
        ELSE [x EXCEPT !.miss = CHOOSE m \in {@, who} : \A o \in {@, who} : Worse(m, o),
                       !.gap = @ \/ numbered \/ \E j \in Before(i) : p[j].gap]
  IN [pipe |-> [k \in 1 .. Cardinality(Left) |-> Missing(p[Kept(k)], Kept(k))], next |-> Missing(n, Len(p) + 1)]

Drop(S, who, numbered) ==
  LET g == Gone(pipe, next, S, who, numbered) IN pipe' = g.pipe /\ next' = g.next

-----------------------------------------------------------------------------
(* The key state under keyStateMu *)

(* A bug: a key that is dropped stays marked. *)
ClearNever(k, id) == k

ClearIfSeq(k, id) == IF k.id = id THEN NoKey ELSE k
KeyInFlight == (h.queuedKey # NoKey /\ h.queuedKey.now) \/ (h.wireKey # NoKey /\ h.wireKey.now)

(* A number no key under way and no mark has. *)
FreeId == Min(KeyIds \ ({pipe[i].id : i \in DOMAIN pipe} \cup {h.queuedKey.id, h.wireKey.id}))

-----------------------------------------------------------------------------
(* The host's main loop *)

RequestKey(x) == [x EXCEPT !.want = TRUE]

(* A bug: the gate stays open over a flush. *)
NewEpochOpen(x) == [x EXCEPT !.retry = FALSE, !.queuedKey.now = FALSE, !.wireKey.now = FALSE]

(* A new input epoch: the gate waits for its key, and nothing older is sent. *)
NewEpoch(x) ==
  [x EXCEPT !.awaiting = TRUE, !.retry = FALSE, !.queuedKey.now = FALSE, !.wireKey.now = FALSE]
Older(p) == [i \in DOMAIN p |-> [p[i] EXCEPT !.old = @ \/ p[i].at \in {"encoder", "queue", "hand"}]]

(* The loop is at its top when what the last encode call released is dealt with. *)
AtTop == h.checked /\ At("batch") = {}

(* stage_time_limit: every reason is taken before the frame wait, and arms *)
(* the kick, so that a picture is encoded on a still screen as well.       *)
TakeReasons ==
  /\ AtTop /\ h.mail /\ h' = [RequestKey(h) EXCEPT !.mail = FALSE]
  /\ UNCHANGED <<pipe, next, s, v, faults>>

(* What the loop encodes is a new frame, or on a still screen the last one   *)
(* again (stage_pop_frame): such a kick asks for a key if the barrier is     *)
(* closed, and will have nothing but a key from this call of the encoder.    *)
Inputs ==
  {[h EXCEPT !.kick = FALSE]} \cup (IF h.waiting THEN {[RequestKey(h) EXCEPT !.kick = TRUE]} ELSE {})

ForceKey(x) == x.want /\ ~x.latch /\ ~KeyInFlight /\ ~x.retry

Encoded(key) ==
  [at |-> "encoder", key |-> key, id |-> 0, miss |-> next.miss, gap |-> next.gap, old |-> FALSE, part |-> "whole"]

(* The encoder takes one in, and gives out any number of the oldest as a batch. *)
Releases(p) ==
  LET E == {i \in DOMAIN p : p[i].at = "encoder"}
      Out(n) == {i \in E : Cardinality({j \in E : j <= i}) <= n}
  IN {[i \in DOMAIN p |-> IF i \in Out(n) THEN [p[i] EXCEPT !.at = "batch"] ELSE p[i]] :
        n \in {n \in 0 .. Cardinality(E) : Cardinality(E) - n <= EncoderHolds}}

(* The input of this tick is handed to the encoder.  The setter of a forced *)
(* key may fail, and a key that was accepted may not come.                  *)
Encode ==
  /\ AtTop /\ Len(pipe) < PipeMax
  /\ \E x \in Inputs :
       \/ NoFault /\ pipe' \in Releases(Append(pipe, Encoded(ForceKey(x))))
          /\ h' = [x EXCEPT !.checked = FALSE, !.latch = @ \/ ForceKey(x)]
       \/ ForceKey(x) /\ Fault("refused") /\ pipe' \in Releases(Append(pipe, Encoded(FALSE)))
          /\ h' = [x EXCEPT !.checked = FALSE, !.retry = TRUE]
       \/ ForceKey(x) /\ Fault("ignored") /\ pipe' \in Releases(Append(pipe, Encoded(FALSE)))
          /\ h' = [x EXCEPT !.checked = FALSE, !.latch = TRUE]
  /\ next' = [miss |-> "none", gap |-> FALSE]
  /\ UNCHANGED <<s, v>>

(* The call fails after it gave something out, and that is lost. *)
EncodeFails ==
  /\ AtTop /\ At("encoder") # {} /\ Fault("output")
  /\ \E i \in At("encoder") :
       LET g == Gone(pipe, next, First("encoder") .. i, "host", FALSE)
       IN  pipe' = Older(g.pipe) /\ next' = g.next
  /\ h' = RequestKey(NewEpoch(h)) /\ UNCHANGED <<s, v>>

(* A send that failed before this is noticed, unless nothing came out: the *)
(* batch is thrown away.                                                   *)
CheckSend ==
  /\ ~h.checked /\ h' = [h EXCEPT !.checked = TRUE, !.failed = @ /\ At("batch") = {}]
  /\ IF h.failed THEN Drop(At("batch"), "batch", FALSE) ELSE UNCHANGED <<pipe, next>>
  /\ UNCHANGED <<s, v, faults>>

(* 300 ms passed *)
LatchExpires ==
  /\ h.latch /\ h' = [h EXCEPT !.latch = FALSE]
  /\ UNCHANGED <<pipe, next, s, v, faults>>

RetryExpires ==
  /\ h.retry /\ h' = [h EXCEPT !.retry = FALSE]
  /\ UNCHANGED <<pipe, next, s, v, faults>>

(* ResetTimelineAnchors, by a flush, a restart or another geometry.  Most of *)
(* those who call it ask for a key; if not, the gate does.                   *)
Flush ==
  /\ AtTop /\ Fault("flush") /\ \E x \in {h, RequestKey(h)} : h' = NewEpoch(x)
  /\ pipe' = Older(pipe) /\ UNCHANGED <<next, s, v>>

(* What the gate says of the oldest output: epoch_gate_judge *)
Output == First("batch")
Judges == h.checked /\ At("batch") # {}
DropOldEpoch ==
  /\ Judges /\ pipe[Output].old
  /\ Drop({Output}, "host", FALSE) /\ UNCHANGED <<h, s, v, faults>>

DropAwaitingKey ==
  /\ Judges /\ ~pipe[Output].old /\ h.awaiting /\ ~pipe[Output].key
  /\ Drop({Output}, "host", FALSE) /\ h' = RequestKey(h)
  /\ UNCHANGED <<s, v, faults>>

(* Nobody can say which input it came from: the chain is closed again. *)
DropUnknownEpoch ==
  /\ Judges /\ Fault("unknown")
  /\ Drop({Output}, "host", FALSE) /\ h' = [RequestKey(h) EXCEPT !.awaiting = TRUE]
  /\ UNCHANGED <<s, v>>

(* The wait for the key ran out: a new encoder, in a new epoch. *)
ResetEncoder ==
  /\ Judges /\ h.awaiting /\ (pipe[Output].old \/ ~pipe[Output].key) /\ Fault("rebuilt")
  /\ LET g == Gone(pipe, next, At("batch") \cup At("encoder"), "host", FALSE)
     IN  pipe' = Older(g.pipe) /\ next' = g.next
  /\ h' = [RequestKey(NewEpoch(h)) EXCEPT !.latch = FALSE]
  /\ UNCHANGED <<s, v>>

Passes == Judges /\ ~pipe[Output].old /\ (h.awaiting => pipe[Output].key)

(* What a kick brought out for a closed barrier is dropped unless it is a key, *)
(* though a key of the same batch may have opened the barrier; it has no number.  *)
DropKick ==
  /\ Passes /\ h.kick /\ ~pipe[Output].key
  /\ Drop({Output}, IF h.waiting THEN "host" ELSE "batch", FALSE)
  /\ UNCHANGED <<h, s, v, faults>>

(* Otherwise it gets its number and goes to the sender: *)
(* decide_sender_queue_action, under the sender's mutex.  *)
Emits == Passes /\ (h.kick => pipe[Output].key)

EnqueueKey ==
  /\ Emits /\ pipe[Output].key
  /\ LET id == FreeId
         p == [pipe EXCEPT ![Output].at = "queue", ![Output].id = id]
         g == Gone(p, next, At("queue"), "host", TRUE)
     IN  /\ pipe' = g.pipe /\ next' = g.next
         /\ h' = [h EXCEPT !.awaiting = FALSE, !.waiting = FALSE, !.queuedKey = [id |-> id, now |-> TRUE],
                           !.want = FALSE, !.latch = FALSE, !.retry = FALSE]
  /\ UNCHANGED <<s, v, faults>>

HoldForKey ==
  /\ Emits /\ ~pipe[Output].key /\ h.waiting
  /\ Drop({Output}, "host", TRUE) /\ h' = [h EXCEPT !.mail = TRUE]
  /\ UNCHANGED <<s, v, faults>>

QueueFull == Cardinality(At("queue")) >= QueueMax

(* The queue stayed full for the whole of the staging wait. *)
DropAndResync ==
  /\ Emits /\ ~pipe[Output].key /\ ~h.waiting /\ QueueFull /\ Fault("stall")
  /\ Drop(At("queue") \cup {Output}, "host", TRUE)
  /\ h' = [h EXCEPT !.queuedKey = NoKey, !.waiting = TRUE, !.mail = TRUE]
  /\ UNCHANGED <<s, v>>

Enqueue ==
  /\ Emits /\ ~pipe[Output].key /\ ~h.waiting /\ ~QueueFull
  /\ pipe' = [pipe EXCEPT ![Output].at = "queue"]
  /\ UNCHANGED <<next, h, s, v, faults>>

(* PumpUdpHello: another viewer.  The pictures that left are for the old one, *)
(* and the one in the sender's hands is fenced by the media epoch.            *)
Newcomer == [wait |-> TRUE, cong |-> FALSE, dec |-> "lost", handled |-> FALSE, repeated |-> FALSE,
             asked |-> FALSE, overflow |-> FALSE, stage |-> "first"]

Rollover ==
  /\ AtTop /\ Fault("viewer")
  /\ LET gone == At("queue") \cup At("wire") \cup At("held")
         g == Gone(pipe, next, gone \cup At("hand"), "host", FALSE)
         Fresh(x) == [x EXCEPT !.gap = FALSE]
     IN  /\ pipe' = [i \in 1 .. Cardinality(At("hand")) |-> pipe[First("hand")]]
                      \o [i \in DOMAIN g.pipe |-> Fresh(g.pipe[i])]
         /\ next' = Fresh(g.next)
  /\ h' = [RequestKey(h) EXCEPT !.waiting = TRUE, !.queuedKey = NoKey, !.wireKey = NoKey]
  /\ s' = [s EXCEPT !.left = (s.pc # "idle")]
  /\ v' = Newcomer

Host ==
  \/ TakeReasons \/ Encode \/ EncodeFails \/ CheckSend \/ LatchExpires \/ RetryExpires \/ Flush
  \/ DropOldEpoch \/ DropAwaitingKey \/ DropUnknownEpoch \/ ResetEncoder
  \/ DropKick \/ EnqueueKey \/ HoldForKey \/ DropAndResync \/ Enqueue \/ Rollover

-----------------------------------------------------------------------------
(* The sender thread *)

Hand == First("hand")
Idle == [pc |-> "idle", left |-> FALSE]

Dequeue ==
  /\ s.pc = "idle" /\ At("queue") # {}
  /\ pipe' = [pipe EXCEPT ![First("queue")].at = "hand"] /\ s' = [s EXCEPT !.pc = "dequeued"]
  /\ UNCHANGED <<next, h, v, faults>>

(* What was in hand when another viewer came has been counted as missed. *)
DropHand == IF s.left THEN pipe' = RemoveAt(pipe, Hand) /\ UNCHANGED next ELSE Drop({Hand}, "host", TRUE)

(* The media fence and the early pass of the epoch fence *)
Fenced ==
  /\ s.pc = "dequeued" /\ (s.left \/ pipe[Hand].old)
  /\ DropHand /\ s' = Idle
  /\ h' = IF pipe[Hand].key THEN [h EXCEPT !.queuedKey = ClearIfSeq(@, pipe[Hand].id)] ELSE h
  /\ UNCHANGED <<v, faults>>

PassFence ==
  /\ s.pc = "dequeued" /\ ~s.left /\ ~pipe[Hand].old /\ s' = [s EXCEPT !.pc = "starting"]
  /\ h' = IF pipe[Hand].key
          THEN [h EXCEPT !.wireKey = [id |-> pipe[Hand].id, now |-> TRUE],
                         !.queuedKey = ClearIfSeq(@, pipe[Hand].id)]
          ELSE h
  /\ UNCHANGED <<pipe, next, v, faults>>

SendOver(x) == IF pipe[Hand].key THEN [x EXCEPT !.wireKey = ClearIfSeq(@, pipe[Hand].id)] ELSE x

(* send_udp_chunks_timed: the epochs are read again before the first datagram, *)
(* and the media epoch before each of them.                                    *)
FirstDatagram ==
  /\ s.pc = "starting" /\ ~s.left /\ ~pipe[Hand].old /\ s' = [s EXCEPT !.pc = "sending"]
  /\ UNCHANGED <<pipe, next, h, v, faults>>

EpochChanged ==
  /\ \/ s.pc = "starting" /\ (s.left \/ pipe[Hand].old)
     \/ s.pc = "sending" /\ s.left
  /\ DropHand /\ h' = SendOver(h) /\ s' = Idle
  /\ UNCHANGED <<v, faults>>

OnWire(part) == [pipe EXCEPT ![Hand].at = "wire", ![Hand].id = 0, ![Hand].old = FALSE, ![Hand].part = part]

Sent ==
  /\ s.pc = "sending" /\ ~s.left
  /\ pipe' = OnWire("whole") /\ h' = SendOver(h) /\ s' = Idle
  /\ UNCHANGED <<next, v, faults>>

(* A datagram could not be sent: none of the picture left, or a part of it. *)
SendError ==
  /\ s.pc = "sending" /\ ~s.left /\ Fault("send")
  /\ \/ Drop({Hand}, "host", TRUE)
     \/ pipe' = OnWire("fresh") /\ UNCHANGED next
  /\ h' = [SendOver(h) EXCEPT !.failed = TRUE] /\ s' = [s EXCEPT !.pc = "failed"]
  /\ UNCHANGED v

Rearm ==
  /\ s.pc = "failed"
  /\ IF s.left THEN s' = Idle /\ UNCHANGED <<pipe, next, h>>
     ELSE /\ Drop(At("queue"), "host", TRUE)
          /\ h' = [h EXCEPT !.queuedKey = NoKey, !.waiting = TRUE]
          /\ s' = [s EXCEPT !.pc = "posting"]
  /\ UNCHANGED <<v, faults>>

Post ==
  /\ s.pc = "posting" /\ h' = [h EXCEPT !.mail = TRUE] /\ s' = Idle
  /\ UNCHANGED <<pipe, next, v, faults>>

Sender ==
  \/ Dequeue \/ Fenced \/ PassFence \/ FirstDatagram \/ EpochChanged \/ Sent \/ SendError \/ Rearm \/ Post

-----------------------------------------------------------------------------
(* The network and the viewer's ingress queue *)

(* A picture is lost altogether; in the ingress queue the receiver hears of it. *)
Lose ==
  /\ At("wire") # {} /\ Drop({First("wire")}, "later", TRUE)
  /\ \/ Fault("lost") /\ UNCHANGED v
     \/ Fault("overflow") /\ v' = [v EXCEPT !.overflow = TRUE]
  /\ UNCHANGED <<h, s>>

(* A request for a keyframe reaches the host, unless a limiter refuses it. *)
RequestPasses ==
  /\ v.asked /\ v' = [v EXCEPT !.asked = FALSE] /\ h' = [h EXCEPT !.mail = TRUE]
  /\ UNCHANGED <<pipe, next, s, faults>>

RequestRefused ==
  /\ v.asked /\ v' = [v EXCEPT !.asked = FALSE]
  /\ UNCHANGED <<pipe, next, h, s, faults>>

(* Time passes for a picture whose chunks are missing. *)
Waits ==
  /\ \E i \in At("held") :
       /\ pipe[i].part \in {"fresh", "over"}
       /\ pipe' = [pipe EXCEPT ![i].part = IF @ = "fresh" THEN "over" ELSE "spent"]
  /\ UNCHANGED <<next, h, s, v, faults>>

Outside == Lose \/ RequestPasses \/ RequestRefused \/ Waits

-----------------------------------------------------------------------------
(* The viewer's receiver.  A pass: the overflow is noticed, maintenance hands *)
(* out what is ready and gives up what is stuck, a datagram is taken, and     *)
(* what is ready then is handed out.                                          *)

(* What opens the wait for a keyframe: the decoder starts anew, and one is asked for. *)
Recover(x) == [x EXCEPT !.wait = TRUE, !.dec = "lost", !.asked = TRUE]

(* handle_udp_discontinuity, once in a pass *)
HandleDiscontinuity(x) ==
  IF x.handled THEN [x EXCEPT !.repeated = @ \/ ~x.wait]
  ELSE IF x.wait THEN [x EXCEPT !.handled = TRUE]
  ELSE Recover([x EXCEPT !.handled = TRUE])

(* The next pass begins; its maintenance may be skipped, it has its own clock. *)
BeginPass(x) ==
  LET y == [x EXCEPT !.handled = FALSE, !.overflow = FALSE]
      z == IF x.overflow THEN HandleDiscontinuity(y) ELSE y
  IN {[z EXCEPT !.stage = stage] : stage \in {"first", "pop"}}

NoteSequenceGap(x, a) ==
  IF ~a.gap THEN x ELSE IF a.key THEN [x EXCEPT !.wait = TRUE] ELSE HandleDiscontinuity(x)

(* PopDelivery, while the oldest is not complete: all before the newest complete *)
(* key is given up, or the oldest, when its hold is over or nobody wants it.     *)
Whole == {i \in At("held") : pipe[i].part = "whole"}
WholeKeys == {i \in Whole : pipe[i].key}
Hands == v.stage # "pop"
HeadWhole == 1 \in Whole
WorthHolding == (~v.wait \/ pipe[1].key) /\ pipe[1].part = "fresh"
CanShed == ~HeadWhole /\ Whole # {} /\ (WholeKeys # {} \/ ~WorthHolding)

Shed ==
  /\ Hands /\ CanShed
  /\ Drop(IF WholeKeys # {} THEN 1 .. Max(WholeKeys) - 1 ELSE {1}, "later", TRUE)
  /\ UNCHANGED <<h, s, v, faults>>

(* What a decoder makes of it. *)
Decoded(x, a) ==
  IF a.key THEN [x EXCEPT !.wait = FALSE, !.dec = "synced", !.repeated = FALSE]
  ELSE [x EXCEPT !.wait = FALSE,
                !.dec = IF @ = "synced" /\ a.miss \in {"none", "batch"} THEN @ ELSE "broken"]

Congested(x) == [Recover(x) EXCEPT !.cong = TRUE]

(* The frame gate, and the decoder behind it.  A frame that is refused is a    *)
(* missing one for what comes after it.                                        *)
Skipped(x) == [x EXCEPT !.dec = IF @ = "broken" THEN @ ELSE "lost"]

(* A bug: a stale frame is dropped and no more. *)
StaleQuietly(x) == Skipped(x)

Stale(x) == IF x.wait THEN Skipped(x) ELSE Recover(x)

Refuses(x, a) == ~a.key /\ (x.cong \/ x.wait)
Refused(x) == {[Skipped(x) EXCEPT !.asked = b] : b \in {x.asked, x.asked \/ (x.wait /\ ~x.cong)}}
Admitted(x) == [x EXCEPT !.cong = FALSE]

Gated(x, a) == IF Refuses(x, a) THEN Refused(x) ELSE {Decoded(Admitted(x), a)}

(* Frames lag for too long, or the time to recover runs out: the latter also *)
(* while a key is waited for, and after a key has been let through.          *)
Lagging(x, a) ==
  IF x.cong THEN {} ELSE Gated(Congested(x), a) \cup (IF a.key THEN {Decoded(Congested(x), a)} ELSE {})

(* A picture that is ready is handed out and passes the gate or not. *)
Deliver ==
  /\ Hands /\ HeadWhole /\ pipe' = Tail(pipe)
  /\ LET a == pipe[1]
         x == NoteSequenceGap(v, a)
     IN \/ v' \in Gated(x, a) /\ NoFault
        \/ v' = Stale(x) /\ Fault("stale")
        \/ v' \in Lagging(x, a) /\ Fault("lag")
        \/ ~Refuses(x, a) /\ v' = Congested(Admitted(x)) /\ Fault("decode")
  /\ UNCHANGED <<next, h, s>>

(* The head of nothing but incomplete ones is given up in the end. *)
Stuck ==
  /\ At("held") # {} /\ Whole = {}
  /\ pipe[1].part = "spent" \/ (pipe[1].part = "over" /\ v.wait /\ ~pipe[1].key)

(* A bug: the clock of the wait does not run. *)
TickedNever(x) == {x}

(* The clock of the wait asks again. *)
Ticked(x) == {[x EXCEPT !.asked = b] : b \in {x.asked, x.asked \/ x.wait \/ x.cong}}

Maintain ==
  /\ v.stage \in {"first", "forced"} /\ ~HeadWhole /\ ~CanShed
  /\ IF Stuck THEN Drop({1}, "later", TRUE) ELSE UNCHANGED <<pipe, next>>
  /\ \E x \in Ticked(IF Stuck THEN HandleDiscontinuity(v) ELSE v) :
       IF v.stage = "first" THEN v' = [x EXCEPT !.stage = "pop"] ELSE v' \in BeginPass(x)
  /\ UNCHANGED <<h, s, faults>>

(* A new picture begins to arrive.  With no room left the oldest goes. *)
Arrive ==
  /\ v.stage = "pop" /\ At("wire") # {} /\ v' = [v EXCEPT !.stage = "pushed"]
  /\ LET i == First("wire")
         Held(p, j) == [p EXCEPT ![j].at = "held"]
         Cut(p, j) == [Held(p, j) EXCEPT ![j].part = "fresh"]
         evicts == Cardinality(At("held")) >= HeldMax
         g == Gone(pipe, next, IF evicts THEN {1} ELSE {}, "later", TRUE)
         j == IF evicts THEN i - 1 ELSE i
     IN /\ next' = g.next
        /\ \/ pipe' = Held(g.pipe, j) /\ NoFault
           \/ pipe' = Cut(g.pipe, j) /\ Fault("part")
  /\ UNCHANGED <<h, s>>

(* The missing chunks of one come after all: late, repeated, or recovered. *)
Complete ==
  /\ v.stage = "pop" /\ v' = [v EXCEPT !.stage = "pushed"]
  /\ \E i \in At("held") \ Whole : pipe' = [pipe EXCEPT ![i].part = "whole"]
  /\ UNCHANGED <<next, h, s, faults>>

(* Nothing comes: the maintenance is forced. *)
Timeout ==
  /\ v.stage = "pop" /\ At("wire") = {} /\ v' = [v EXCEPT !.stage = "forced"]
  /\ UNCHANGED <<pipe, next, h, s, faults>>

EndPass ==
  /\ v.stage = "pushed" /\ ~HeadWhole /\ ~CanShed /\ v' \in BeginPass(v)
  /\ UNCHANGED <<pipe, next, h, s, faults>>

Receiver == Shed \/ Deliver \/ Maintain \/ Arrive \/ Complete \/ Timeout \/ EndPass

Ask == ~v.asked /\ (Maintain \/ Deliver) /\ v'.asked
MaintenanceDue == (EndPass \/ Maintain) /\ v'.stage = "first"

-----------------------------------------------------------------------------
Init ==
  /\ pipe = <<>> /\ next = [miss |-> "host", gap |-> FALSE]
  /\ h = [want |-> TRUE, latch |-> FALSE, retry |-> FALSE, awaiting |-> TRUE, waiting |-> TRUE,
          queuedKey |-> NoKey, wireKey |-> NoKey, mail |-> FALSE, kick |-> FALSE, checked |-> TRUE,
          failed |-> FALSE]
  /\ s = Idle /\ v = Newcomer /\ faults = 0

Next == Host \/ Sender \/ Outside \/ Receiver
Spec == Init /\ [][Next]_vars

(* The threads go on and time passes.  The main loop takes the reasons in     *)
(* every round.  The receiver's maintenance is put off for 5 ms at most, the   *)
(* clock of the wait asks anew within 2 s, and the limiters refuse for a time. *)
Emit == DropOldEpoch \/ DropAwaitingKey \/ DropKick \/ EnqueueKey \/ HoldForKey \/ Enqueue
Fairness ==
  /\ SF_vars(TakeReasons) /\ WF_vars(Encode) /\ WF_vars(CheckSend \/ Emit)
  /\ WF_vars(LatchExpires \/ RetryExpires)
  /\ WF_vars(Sender) /\ WF_vars(Receiver) /\ WF_vars(Waits)
  /\ SF_vars(Ask) /\ SF_vars(MaintenanceDue) /\ SF_vars(RequestPasses)
FairSpec == Spec /\ Fairness

-----------------------------------------------------------------------------
TypeOK ==
  /\ pipe \in Seq([at : Places, key : BOOLEAN, id : KeyIds \cup {0}, miss : Misses, gap : BOOLEAN,
                   old : BOOLEAN, part : Parts])
  /\ next \in [miss : Misses, gap : BOOLEAN]
  /\ h \in [want : BOOLEAN, latch : BOOLEAN, retry : BOOLEAN, awaiting : BOOLEAN, waiting : BOOLEAN,
            queuedKey : [id : KeyIds \cup {0}, now : BOOLEAN], wireKey : [id : KeyIds \cup {0}, now : BOOLEAN],
            mail : BOOLEAN, kick : BOOLEAN, checked : BOOLEAN, failed : BOOLEAN]
  /\ s \in [pc : {"idle", "dequeued", "starting", "sending", "failed", "posting"}, left : BOOLEAN]
  /\ v \in [wait : BOOLEAN, cong : BOOLEAN, dec : {"synced", "lost", "broken"}, handled : BOOLEAN,
            repeated : BOOLEAN, asked : BOOLEAN, overflow : BOOLEAN,
            stage : {"first", "pop", "pushed", "forced"}]
  /\ faults \in 0 .. MaxFaults

(* No picture that lacks the one before it is decoded: what the viewer would see is garbage    *)
(* ("corrupted text/scroll seen in the field", viewer_frame_gate.cpp:269).  Every loss, in *)
(* the network, the ingress queue, the assembler or the frame gate, closes the gate first.     *)
(* Except that handle_udp_discontinuity passes over a second gap in one pass of the loop also   *)
(* when a keyframe between the two opened the gate again; and what the host threw away          *)
(* unnumbered with its way open nobody can notice: the batch of CheckSend, and what a kick      *)
(* brought out behind the key that opened the barrier (DropKick).                               *)
OnlyARepeatedGapShows == v.dec = "broken" => v.repeated

(* Whatever the host drops itself, at the epoch gate, at a full queue, at the fences of the     *)
(* sender, after a failed send or for a new viewer, the next picture it sends is a keyframe     *)
(* ("Any H264 frame -- key OR delta -- that failed to reach the wire breaks the client's        *)
(* reference chain", host_encoded_sender.cpp:583).  But for two that ask for no key.  The batch *)
(* of CheckSend: what comes out of the encoder while a failed send waits to be noticed is       *)
(* thrown away, and if a keyframe was queued after the barrier was re-armed, the next pictures  *)
(* are sent without it.  And DropKick with the barrier open: what a kick brings out is judged   *)
(* by the barrier as it was before the call ("An ordinary trailing-edge kick on an OPEN stream, *)
(* however, ... let it through", host_stage_encode_send_h264_au.cpp:296), so the picture behind *)
(* the key that opened it is thrown away, and the next one stands on it.                        *)
HostSendsWholeChains ==
  \A i \in At("held") \cup At("wire") : pipe[i].key \/ pipe[i].miss # "host"

(* While a key of the present session and epoch is said to be queued or on the wire, and        *)
(* requests are put off for it, there is one (keyQueued_ and keyOnWire_): none was dropped by   *)
(* a queue that was cleared, a fence, or a failed send, or else the recovery would be put off   *)
(* for the whole of kKeyInFlightSafetyUs.                                                       *)
KeyMark(k) == k # NoKey /\ k.now
KeyStateIsTrue ==
  \A k \in {h.queuedKey, h.wireKey} :
    KeyMark(k) => \E i \in DOMAIN pipe : pipe[i].key /\ pipe[i].id = k.id /\ ~pipe[i].old

(* A viewer that waits for a keyframe, or is congested, comes to show pictures again: its        *)
(* clock asks again (FrameGate::tick) whatever became of the first request, the host's marks and *)
(* latches do not hold the key back for ever, and the key passes all gates.                      *)
PictureComesBack == (v.wait \/ v.cong) ~> ~(v.wait \/ v.cong)
=============================================================================
