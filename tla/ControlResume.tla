---------------------------- MODULE ControlResume ----------------------------
(***************************************************************************)
(* Repairing the control channel of a session whose video still runs       *)
(* (control_resume.hpp, viewer_control_resume.hpp), between the viewer's   *)
(* control worker, the host's reader thread (which answers hellos and asks *)
(* to resume) and the host's dispatcher (which serves the channel and is   *)
(* the only one to reset or re-key it), host_startup_control.cpp.          *)
(*                                                                         *)
(* Here a channel (ControlChannel) is the key its stream ids are derived   *)
(* from, 0 being the base ids, and whether it is open.  A step of the      *)
(* reader or the dispatcher ends where the other can come in between.      *)
(* Datagrams are lost, repeated and delayed; waits may run out.            *)
(***************************************************************************)
EXTENDS Naturals

CONSTANTS
  MaxViewers,   \* bound: viewers that connect, one after the other
  MaxIds,       \* bound: resumeIds drawn
  MaxBreaks,    \* bound: times control is declared dead
  MaxLate,      \* bound: waits of the reader that run out
  LateWaits,    \* which of them may: the one for a "hello", the one for an "ask"
  MaxRaised,    \* bound: resumes the reader raises
  Delayed       \* whether an ask may arrive after its viewer has gone on to another id

ASSUME Bounds == {MaxViewers, MaxIds, MaxBreaks, MaxLate, MaxRaised} \subseteq Nat
                 /\ LateWaits \subseteq {"hello", "ask"} /\ Delayed \in BOOLEAN

VARIABLES
  v,       \* the viewer: its worker, its channel, the recovery under way
  h,       \* what the threads of the host share, and the host's channel
  r,       \* the reader thread
  d,       \* the dispatcher thread
  hellos, acked,   \* connections: hellos sent, hellos answered
  asks, answers,   \* ControlResume, and ControlResumeAck that accept (a refusal is only counted)
  breaks, late     \* counters for the bounds

net == <<hellos, acked, asks, answers>>
bounds == <<breaks, late>>
vars == <<v, h, r, d, net, bounds>>

Base == 0
NoAnswer == [id |-> 0, epoch |-> 0, key |-> 0]

Connecting(n, ids) ==
  [gen |-> n, worker |-> "connecting", key |-> Base, open |-> TRUE, id |-> 0, served |-> 0, ids |-> ids]

(* The host waits for its first viewer: the dispatcher has published the    *)
(* first epoch and given up serving it.                                     *)
Init ==
  /\ v = Connecting(1, 0)
  /\ h = [peer |-> 0, epoch |-> 1, ready |-> 1, seq |-> 0, rid |-> 0, served |-> 0,
          serving |-> FALSE, pending |-> FALSE, 
          key |-> Base, open |-> TRUE, reason |-> "none", probe |-> "idle"]
  /\ r = [pc |-> "read", ask |-> 0, at |-> 0, for |-> 0, cache |-> NoAnswer,
          probeId |-> 0, probeEpoch |-> 0, wakeId |-> 0, wakeFor |-> 0]
  /\ d = [pc |-> "wait", resuming |-> FALSE, epoch |-> 1, seq |-> 0]
  /\ hellos = {} /\ acked = {} /\ asks = {} /\ answers = {}
  /\ breaks = 0 /\ late = 0

(* The two channels carry messages. *)
Together ==
  v.gen = h.peer /\ v.key = h.key /\ v.open /\ h.open

Close(why) == [h EXCEPT !.open = FALSE, !.reason = IF @ = "none" THEN why ELSE @]

(* A request, a ping or a recovery takes seconds to fail; the dispatcher, once *)
(* awake, takes a few instructions to get to Serve, and out of it to its wait. *)
Prompt == d.pc \in {"wait", "serve"}

-----------------------------------------------------------------------------
(* The viewer *)

Hello ==
  /\ v.worker = "connecting" /\ hellos' = hellos \cup {v.gen}
  /\ UNCHANGED <<v, h, r, d, acked, asks, answers, bounds>>

Connected ==
  /\ v.worker = "connecting" /\ v.gen \in acked
  /\ v' = [v EXCEPT !.worker = "running"]
  /\ UNCHANGED <<h, r, d, net, bounds>>

(* The viewer is closed, or its session ends under the recovery (EndSession), *)
(* and the next one connects.                                                 *)
EndSession ==
  /\ v.worker \notin {"connecting", "closed"}
  /\ v' = [v EXCEPT !.worker = "closed", !.open = FALSE]
  /\ UNCHANGED <<h, r, d, net, bounds>>

NextViewer ==
  /\ v.worker = "closed" /\ v.gen < MaxViewers
  /\ v' = Connecting(v.gen + 1, v.ids)
  /\ UNCHANGED <<h, r, d, net, bounds>>

(* A request failed: its channel gave the host up, or the answer is late and *)
(* the channel works (BeginBreakIfPossible, with the video alive).           *)
BeginBreak ==
  /\ v.worker = "running" /\ Prompt /\ breaks < MaxBreaks /\ v.ids < MaxIds
  /\ \E open \in {v.open, FALSE} :
       v' = [v EXCEPT !.worker = "resuming", !.open = open, !.id = v.ids + 1, !.ids = @ + 1]
  /\ breaks' = breaks + 1
  /\ UNCHANGED <<h, r, d, net, late>>

(* Poll: the ask is repeated while the recovery runs, and asks nothing new. *)
Ask ==
  /\ v.worker = "resuming" /\ asks' = asks \cup {[gen |-> v.gen, id |-> v.id]}
  /\ UNCHANGED <<v, h, r, d, hellos, acked, answers, bounds>>

(* The ceiling passed. *)
GiveUp ==
  /\ v.worker = "resuming" /\ Prompt
  /\ v' = [v EXCEPT !.worker = "closed", !.open = FALSE]
  /\ UNCHANGED <<h, r, d, net, bounds>>

(* OnDatagram, on the receiving thread: only the answer to this ask counts. *)
TakeAnswer ==
  /\ v.worker = "resuming"
  /\ [gen |-> v.gen, id |-> v.id] \in answers
  /\ v' = [v EXCEPT !.served = v.id]
  /\ UNCHANGED <<h, r, d, net, bounds>>

ApplyPendingRekey ==
  /\ v.worker = "resuming" /\ v.served = v.id
  /\ v' = [v EXCEPT !.worker = "proving", !.key = v.id, !.open = TRUE, !.served = 0]
  /\ UNCHANGED <<h, r, d, net, bounds>>

(* The ping of the recovery came back. *)
Proved ==
  /\ v.worker = "proving" /\ Together /\ d.pc = "serve"
  /\ v' = [v EXCEPT !.worker = "running"]
  /\ UNCHANGED <<h, r, d, net, bounds>>

(* It did not: a ping nobody acknowledges closes the channel; the answer to  *)
(* one that was acknowledged may just not come.  The same recovery goes on   *)
(* under a new id (RetryWithNewId); without ids the model gives up.          *)
NotProved ==
  /\ v.worker = "proving" /\ Prompt
  /\ \E open \in {FALSE, v.open /\ ~Together} :
       v' = IF v.ids < MaxIds
            THEN [v EXCEPT !.worker = "resuming", !.open = open, !.id = v.ids + 1, !.ids = @ + 1,
                           !.served = 0]
            ELSE [v EXCEPT !.worker = "closed", !.open = FALSE]
  /\ UNCHANGED <<h, r, d, net, bounds>>

Viewer ==
  \/ Hello \/ Connected \/ EndSession \/ NextViewer \/ BeginBreak \/ Ask \/ GiveUp
  \/ TakeAnswer \/ ApplyPendingRekey \/ Proved \/ NotProved

-----------------------------------------------------------------------------
(* The reader: hellos *)

RunsOut(wait) == wait \in LateWaits /\ late < MaxLate /\ late' = late + 1
Reading == [r EXCEPT !.pc = "read", !.ask = 0, !.at = 0, !.for = 0]

(* A hello of a new viewer begins an epoch (AdmitHello, BeginEpoch), closes   *)
(* the channel to get the dispatcher out of Serve and waits for the epoch to  *)
(* be served; a repeated one is answered at once.                             *)
ReadHello ==
  /\ r.pc = "read"
  /\ \E n \in hellos :
       \/ /\ n = h.peer /\ acked' = acked \cup {n} /\ UNCHANGED <<h, r>>
       \/ /\ n > h.peer
          /\ h' = [Close("session-rollover") EXCEPT !.peer = n, !.epoch = @ + 1]
          /\ r' = [r EXCEPT !.pc = "epoch", !.for = h.epoch + 1]
          /\ UNCHANGED acked
  /\ UNCHANGED <<v, d, hellos, asks, answers, bounds>>

(* AwaitControlReady: answered in any case. *)
AnswerHello ==
  /\ r.pc = "epoch"
  /\ \/ h.ready >= r.for /\ UNCHANGED late
     \/ h.ready < r.for /\ RunsOut("hello")
  /\ acked' = acked \cup {h.peer}
  /\ r' = Reading
  /\ UNCHANGED <<v, h, d, hellos, asks, answers, breaks>>

-----------------------------------------------------------------------------
(* The reader: asks to resume *)

Answer(id) == answers' = answers \cup {[gen |-> h.peer, id |-> id]}
Asked(id) == [gen |-> h.peer, id |-> id] \in asks /\ (Delayed \/ id = v.id)

(* An answer given is repeated while the re-key it described still stands. *)
Replays(id) == r.cache.id = id /\ r.cache.epoch = h.ready /\ r.cache.key = h.key
ReplayAck(id) ==
  /\ r.pc = "read" /\ Asked(id) /\ Replays(id) /\ Answer(id)
  /\ UNCHANGED <<v, h, r, d, hellos, acked, asks, bounds>>

Remembered(id) == IF r.cache.id = id THEN r.cache ELSE NoAnswer

(* The global budget of answers is spent. *)
Throttled(id) ==
  /\ r.pc = "read" /\ Asked(id) /\ ~Replays(id)
  /\ r' = [r EXCEPT !.cache = Remembered(id)]
  /\ UNCHANGED <<v, h, d, net, bounds>>

(* The verdict of a probe counts for the ask it was made for; that the peer  *)
(* is alive counts for a while (resume_probe_action); a closed channel has   *)
(* none (ProbeStatus).                                                       *)
Verdicts(id) ==
  IF ~h.open \/ r.probeId # id \/ r.probeEpoch # h.ready THEN {"idle"}
  ELSE IF h.probe = "alive" THEN {"alive", "idle"} ELSE {h.probe}

PeerLost == ~h.open /\ h.reason = "peer-lost"

(* What is known of an ask when it is decided on (host_resume_verdict). *)
Noted(id) ==
  [r EXCEPT !.cache = Remembered(id), !.probeId = id, !.probeEpoch = h.ready]
Considers(id) == r.pc = "read" /\ Asked(id) /\ ~Replays(id)

MayServe(id, probe) ==
  \/ ~h.serving
  \/ r.cache.id # id /\ (PeerLost \/ probe = "dead")

(* Serving, and the channel has answered, or is the one of this very ask. *)
Refuse(id) ==
  /\ Considers(id)
  /\ \E probe \in Verdicts(id) :
       /\ ~MayServe(id, probe) /\ (r.cache.id = id \/ probe = "alive")
       /\ h' = [h EXCEPT !.probe = probe]
  /\ r' = Noted(id)
  /\ UNCHANGED <<v, d, net, bounds>>

(* Serving and nothing known: ask the channel. *)
Probe(id) ==
  /\ Considers(id) /\ r.cache.id # id
  /\ \E probe \in Verdicts(id) \cap {"idle", "pending"} :
       /\ ~MayServe(id, probe)
       /\ h' = [h EXCEPT !.probe = IF h.open THEN "pending" ELSE @]
  /\ r' = Noted(id)
  /\ UNCHANGED <<v, d, net, bounds>>

(* Accepted: the dispatcher is to be woken, unless it already is for this    *)
(* ask.  Inside Serve it has to be closed out, in two more steps.            *)
Accept(id) ==
  /\ Considers(id)
  /\ \E probe \in Verdicts(id) :
       /\ MayServe(id, probe)
       /\ IF h.pending /\ r.wakeId = id
          THEN /\ h' = [h EXCEPT !.probe = probe]
               /\ r' = [Noted(id) EXCEPT !.pc = "answer", !.ask = id, !.at = h.ready, !.for = r.wakeFor]
          ELSE /\ h.seq < MaxRaised
               /\ h' = [h EXCEPT !.probe = probe, !.rid = id, !.seq = @ + 1]
               /\ r' = [Noted(id) EXCEPT !.pc = IF h.serving THEN "hold" ELSE "answer",
                                         !.ask = id, !.at = h.ready, !.for = h.seq + 1,
                                         !.wakeId = id, !.wakeFor = h.seq + 1]
  /\ UNCHANGED <<v, d, net, bounds>>

HoldStream ==
  /\ r.pc = "hold" /\ h' = [h EXCEPT !.pending = TRUE] /\ r' = [r EXCEPT !.pc = "close"]
  /\ UNCHANGED <<v, d, net, bounds>>

CloseForResume ==
  /\ r.pc = "close" /\ h' = Close("peer-lost") /\ r' = [r EXCEPT !.pc = "answer"]
  /\ UNCHANGED <<v, d, net, bounds>>

(* The dispatcher has nothing to do: what the reader waits for does not come, *)
(* and the bound on late waits is not charged with it.                        *)
Idle == d.pc = "wait" /\ h.epoch <= d.epoch /\ h.seq <= d.seq

(* A bug: answered as soon as the dispatcher was woken. *)
AnswerUnserved ==
  /\ r.pc = "answer"
  /\ h' = [h EXCEPT !.pending = FALSE]
  /\ r' = [Reading EXCEPT !.wakeId = 0, !.wakeFor = 0,
                    !.cache = [id |-> r.ask, epoch |-> r.at, key |-> h.key]]
  /\ Answer(r.ask)
  /\ UNCHANGED <<v, d, hellos, acked, asks, bounds>>

(* A bug: the answer is not remembered. *)
AnswerForgotten ==
  /\ r.pc = "answer" /\ h.served >= r.for
  /\ h' = [h EXCEPT !.pending = FALSE]
  /\ r' = [Reading EXCEPT !.wakeId = 0, !.wakeFor = 0]
  /\ Answer(r.ask)
  /\ UNCHANGED <<v, d, hellos, acked, asks, bounds>>

(* The answer, once the dispatcher has re-keyed. *)
AnswerServed ==
  /\ r.pc = "answer" /\ h.served >= r.for
  /\ h' = [h EXCEPT !.pending = FALSE]
  /\ r' = [Reading EXCEPT !.wakeId = 0, !.wakeFor = 0,
                    !.cache = [id |-> r.ask, epoch |-> r.at, key |-> h.key]]
  /\ Answer(r.ask)
  /\ UNCHANGED <<v, d, hellos, acked, asks, bounds>>

(* ... or the wait ran out: no answer. *)
AnswerLate ==
  /\ r.pc = "answer" /\ h.served < r.for /\ r' = Reading
  /\ UNCHANGED <<v, h, d, net, breaks>>
  /\ \/ RunsOut("ask")
     \/ Idle /\ UNCHANGED late

ReadAsk ==
  \E id \in 1 .. MaxIds :
    ReplayAck(id) \/ Throttled(id) \/ Refuse(id) \/ Probe(id) \/ Accept(id)

Reader ==
  \/ ReadHello \/ AnswerHello \/ ReadAsk \/ HoldStream \/ CloseForResume
  \/ AnswerServed \/ AnswerLate

-----------------------------------------------------------------------------
(* The channel of the host, while nobody touches it *)

(* A probe gets its answer from the viewer's channel alone; that its six     *)
(* attempts are all lost is not modelled.                                    *)
ProbeDecided ==
  /\ h.open /\ h.probe = "pending"
  /\ h' = [h EXCEPT !.probe = IF Together THEN "alive" ELSE "dead"]
  /\ UNCHANGED <<v, r, d, net, bounds>>

(* Retransmissions to a viewer that does not answer run out. *)
LosePeer ==
  /\ d.pc = "serve" /\ h.open /\ ~Together /\ h' = Close("peer-lost")
  /\ UNCHANGED <<v, r, d, net, bounds>>

-----------------------------------------------------------------------------
(* The dispatcher *)

(* Woken for an epoch or for a resume (control_dispatch_decide). *)
Wake ==
  /\ d.pc = "wait" /\ (h.epoch > d.epoch \/ h.seq > d.seq)
  /\ d' = [d EXCEPT !.pc = "woken", !.resuming = h.epoch <= d.epoch]
  /\ UNCHANGED <<v, h, r, net, bounds>>

TakeEpoch ==
  /\ d.pc = "woken" /\ d' = [d EXCEPT !.pc = "turn", !.epoch = h.epoch]
  /\ UNCHANGED <<v, h, r, net, bounds>>

(* ResumeWith, or Reset, which leaves the stream ids as they are.            *)
Turned == [h EXCEPT !.open = TRUE, !.reason = "none", !.probe = "idle"]
Turn ==
  /\ d.pc = "turn"
  /\ h' = IF d.resuming THEN [Turned EXCEPT !.key = h.rid] ELSE Turned
  /\ d' = [d EXCEPT !.pc = "publish"]
  /\ UNCHANGED <<v, r, net, bounds>>

(* A bug: a resume that was served is not announced. *)
PublishUnannounced ==
  /\ d.pc = "publish"
  /\ h' = IF d.resuming THEN h ELSE [h EXCEPT !.ready = d.epoch, !.pending = FALSE]
  /\ d' = [d EXCEPT !.pc = "enter", !.seq = h.seq]
  /\ UNCHANGED <<v, r, net, bounds>>

Publish ==
  /\ d.pc = "publish"
  /\ h' = IF d.resuming THEN [h EXCEPT !.served = h.seq, !.pending = FALSE]
                        ELSE [h EXCEPT !.ready = d.epoch, !.pending = FALSE]
  /\ d' = [d EXCEPT !.pc = "enter", !.seq = h.seq]
  /\ UNCHANGED <<v, r, net, bounds>>

EnterServe ==
  /\ d.pc = "enter"
  /\ h' = [h EXCEPT !.serving = TRUE]
  /\ d' = [d EXCEPT !.pc = "serve"]
  /\ UNCHANGED <<v, r, net, bounds>>

(* Serve ends with its channel, or after ten silent seconds; whether it     *)
(* turns the video off then is left out.                                    *)
LeaveServe ==
  /\ d.pc = "serve" /\ (~h.open \/ ~Together \/ v.worker # "running")
  /\ d' = [d EXCEPT !.pc = "left"]
  /\ UNCHANGED <<v, h, r, net, bounds>>

Left ==
  /\ d.pc = "left" /\ h' = [h EXCEPT !.serving = FALSE] /\ d' = [d EXCEPT !.pc = "wait"]
  /\ UNCHANGED <<v, r, net, bounds>>

Dispatcher ==
  \/ Wake \/ TakeEpoch \/ Turn \/ Publish \/ EnterServe \/ LeaveServe \/ Left

-----------------------------------------------------------------------------
Next == Viewer \/ Reader \/ ProbeDecided \/ LosePeer \/ Dispatcher

Spec == Init /\ [][Next]_vars

(* The threads run; the viewer asks again and again and reads its answers.   *)
(* A datagram that is sent again and again arrives in the end.               *)
Fairness ==
  /\ WF_vars(Dispatcher) /\ WF_vars(ProbeDecided)
  /\ WF_vars(HoldStream) /\ WF_vars(CloseForResume) /\ WF_vars(AnswerServed) /\ WF_vars(AnswerHello)
  /\ WF_vars(Idle /\ AnswerLate) /\ WF_vars(Ask) /\ WF_vars(TakeAnswer) /\ WF_vars(ApplyPendingRekey)
  /\ WF_vars(Proved \/ NotProved)
  /\ SF_vars(v.worker = "resuming" /\ (ReplayAck(v.id) \/ Probe(v.id) \/ Accept(v.id)))
FairSpec == Spec /\ Fairness

-----------------------------------------------------------------------------

(* A channel that works is not closed under the viewer that uses it, unless  *)
(* a new viewer takes the host over: not by an ask that came late or twice,  *)
(* not by an old verdict of the probe.                                       *)
Works == Together /\ d.pc = "serve" /\ v.worker = "running"
WorkingChannelStays == [][Works => (h'.open /\ h'.key = h.key) \/ h'.epoch > h.epoch]_vars

(* A viewer whose channel is gone does not ask for ever: its recovery ends.  *)
Repaired == (v.worker = "resuming" /\ ~v.open) ~> (v.worker \in {"running", "closed"})

(* The viewer that was told the host has accepted its ask finds the host on  *)
(* the stream ids of that ask or past them.                                  *)
AnswersAreHonest ==
  (v.worker = "proving" /\ h.peer = v.gen) => h.key = v.id

(* A viewer the host has told to be ready is heard. *)
NewViewerIsHeard ==
  (d.pc = "serve" /\ v.gen = h.peer /\ h.ready = h.epoch /\ v.worker = "running" /\ v.id = 0)
    => h.key = v.key

=============================================================================
