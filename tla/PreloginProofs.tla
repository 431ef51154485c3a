--------------------------- MODULE PreloginProofs ----------------------------
(***************************************************************************)
(* That the pre-login service keeps one server at a time and leaves users' *)
(* Hosts alone, for any number of Windows sessions and of events.          *)
(***************************************************************************)
EXTENDS Prelogin, TLAPS

Observation ==
  [read : {TRUE}, on : BOOLEAN, console : Sessions \cup {None}, changed : BOOLEAN,
   user : {"nobody", "admin", "plain", "unsure"}, ready : BOOLEAN]

(* A tick that has not read, or is about to launch a Host in some session. *)
Unreads == [read : {FALSE}, launch : Sessions \cup {None}]

(* What a tick has read is of its kind, and with no session at the console *)
(* it is not sure of any user.                                             *)
SeenOK ==
  /\ seen \in Unreads \cup Observation
  /\ seen.read /\ seen.console = None => seen.user = "unsure"

(* The policy remembers a logon, by its session. *)
PolicyOK == policy.logon \in Sessions \cup {None} /\ policy.closed \in BOOLEAN

Types == TypeOK /\ SeenOK /\ PolicyOK

(* A session is that of one logon: a Host runs only where somebody has logged *)
(* on, and is watched only there.                                             *)
HostsOfLogons ==
  /\ \A s \in Sessions : user[s] # "nobody" => s \in used
  /\ host \subseteq used
  /\ watch.session \in used \cup {None}

(* If somebody logged on where the tick saw nobody, the service watches no *)
(* Host there: that logon is the first of its session.                     *)
SeenStillHolds ==
  seen.read /\ seen.user = "nobody" =>
    user[seen.console] = "nobody" \/ watch.session # seen.console

PreloginInv == Types /\ SingleServer /\ HostsOfLogons /\ SeenStillHolds

-----------------------------------------------------------------------------
(* What the service starts with is of its kind, and watches and serves nothing. *)
LEMMA ServiceStartsWell ==
  /\ Idle \in [owner : {None, "worker", "user"}, pending : {None, "current", "stale"}, tries : 0..MaxTries]
  /\ NoWatch.session = None /\ NoWatch.ended = "no" /\ ~Unread.read /\ Unread \in Unreads
BY PreloginConstants DEF Idle, NoWatch, Unread, Unreads

(* So is a tick that is about to launch a Host. *)
LEMMA LaunchingFacts ==
  ASSUME NEW c \in Sessions
  PROVE  Launching(c) \in Unreads /\ ~Launching(c).read
BY DEF Launching, Unreads

(* A tick that has read has read an observation, and the others have not. *)
LEMMA SeenFacts ==
  ASSUME SeenOK
  PROVE  /\ seen.read => seen \in Observation
         /\ ~seen.read => seen \in Unreads
BY DEF SeenOK, Observation, Unreads

LEMMA PreloginInit == Init => PreloginInv
<1> SUFFICES ASSUME Init PROVE PreloginInv
  OBVIOUS
<1> USE PreloginConstants, ServiceStartsWell DEF Init, ServiceStarts
<1>1. TypeOK
  <2>1. moved \in BOOLEAN /\ on \in BOOLEAN
    OBVIOUS
  <2>2. left \in 0..MaxEvents
    OBVIOUS
  <2>3. user \in [Sessions -> {"nobody", "admin", "plain"}]
    OBVIOUS
  <2>4. watch = NoWatch /\ host \subseteq Sessions /\ said \in host \cup {None}
    OBVIOUS
  <2> QED BY <2>1, <2>2, <2>3, <2>4 DEF TypeOK
<1>2. SeenOK /\ SeenStillHolds
  BY DEF SeenOK, SeenStillHolds
<1>3. policy.logon = None /\ policy.closed = FALSE
  OBVIOUS
<1>4. PolicyOK /\ SingleServer /\ HostsOfLogons
  BY <1>3 DEF PolicyOK, SingleServer, HostsOfLogons
<1> QED BY <1>1, <1>2, <1>4 DEF PreloginInv, Types

(* Users, Windows and the clock. *)
LEMMA PeopleStep ==
  ASSUME PreloginInv,
         \/ \E s \in Sessions, kind \in {"admin", "plain"} : Logon(s, kind)
         \/ \E s \in Sessions : Logoff(s) \/ UserStartsHost(s) \/ HostSaysReady(s)
         \/ Lock \/ Toggle
         \/ \E c \in Sessions \cup {None} : Switch(c)
         \/ \E c \in {"worker", "host"} : BackoffPasses(c)
         \/ WorkerEnds \/ ThirtySeconds
  PROVE  PreloginInv'
<1> USE PreloginConstants
    DEF PreloginInv, Types, TypeOK, SeenOK, PolicyOK, HostsOfLogons, SeenStillHolds, SingleServer, people, service
<1>1. ASSUME NEW s \in Sessions, NEW kind \in {"admin", "plain"}, Logon(s, kind) PROVE PreloginInv'
  BY <1>1 DEF Logon, Event, Changes
<1>2. ASSUME NEW s \in Sessions, Logoff(s) PROVE PreloginInv'
  BY <1>2 DEF Logoff, Event, Changes
<1>3. ASSUME NEW s \in Sessions, UserStartsHost(s) PROVE PreloginInv'
  BY <1>3 DEF UserStartsHost, Event
<1>4. ASSUME NEW s \in Sessions, HostSaysReady(s) PROVE PreloginInv'
  BY <1>4 DEF HostSaysReady
<1>5. CASE Lock
  BY <1>5 DEF Lock, Event, Changes
<1>10. CASE Toggle
  BY <1>10 DEF Toggle, Event
<1>6. ASSUME NEW c \in Sessions \cup {None}, Switch(c) PROVE PreloginInv'
  BY <1>6 DEF Switch, Event, Changes
<1>7. ASSUME NEW c \in {"worker", "host"}, BackoffPasses(c) PROVE PreloginInv'
  BY <1>7 DEF BackoffPasses
<1>8. CASE WorkerEnds
  BY <1>8 DEF WorkerEnds, Event
<1>9. CASE ThirtySeconds
  BY <1>9 DEF ThirtySeconds
<1> QED BY <1>1, <1>2, <1>3, <1>4, <1>5, <1>6, <1>7, <1>8, <1>9, <1>10

(* A tick reads the console as it is. *)
LEMMA ObserveStep == ASSUME PreloginInv, Observe PROVE PreloginInv'
<1> USE PreloginConstants DEF Observe, PreloginInv, Types, people, service
<1>1. TypeOK'
  <2>1. moved' \in BOOLEAN
    OBVIOUS
  <2>2. left' \in 0..MaxEvents
    BY DEF TypeOK
  <2> QED BY <2>1, <2>2 DEF TypeOK
<1>2. seen' \in Observation /\ (seen'.console = None => seen'.user = "unsure")
  <2>1. PICK sure \in BOOLEAN :
          seen' = [read |-> TRUE, on |-> on, console |-> console, changed |-> moved,
                   user |-> IF console = None \/ ~sure THEN "unsure" ELSE user[console],
                   ready |-> console # None /\ IsReady(console)]
    OBVIOUS
  <2>2. (console # None /\ IsReady(console)) \in BOOLEAN
    BY DEF IsReady
  <2>3. (IF console = None \/ ~sure THEN "unsure" ELSE user[console]) \in {"nobody", "admin", "plain", "unsure"}
    BY DEF TypeOK
  <2> QED BY <2>1, <2>2, <2>3 DEF TypeOK, Observation
<1>3. seen'.user = "nobody" => user[seen'.console] = "nobody"
  OBVIOUS
<1>4. SeenOK' /\ SeenStillHolds'
  BY <1>2, <1>3 DEF SeenOK, SeenStillHolds
<1>5. PolicyOK' /\ SingleServer' /\ HostsOfLogons'
  BY DEF PolicyOK, SingleServer, HostsOfLogons
<1> QED BY <1>1, <1>4, <1>5

(* A Host ends, and the service sees it if it watched it. *)
LEMMA HostEndsStep ==
  ASSUME PreloginInv, NEW s \in Sessions, NEW how \in {"closed", "crashed"}, HostEnds(s, how)
  PROVE  PreloginInv'
<1> USE PreloginConstants, ServiceStartsWell DEF HostEnds, PreloginInv, Types, people, service
<1>1. watch'.session = watch.session /\ (watch' # watch => watch.session = s /\ watch'.ended # "no")
  BY DEF TypeOK
<1>2. TypeOK'
  BY <1>1 DEF TypeOK, Event
<1>3. SeenOK' /\ SeenStillHolds'
  BY <1>1 DEF SeenOK, SeenStillHolds
<1>4. PolicyOK' /\ SingleServer' /\ HostsOfLogons'
  BY <1>1 DEF PolicyOK, SingleServer, HostsOfLogons
<1> QED BY <1>2, <1>3, <1>4

(* A service that starts again has let go of everything. *)
LEMMA RestartStep == ASSUME PreloginInv, Restart PROVE PreloginInv'
<1> USE PreloginConstants, ServiceStartsWell DEF Restart, PreloginInv, Types, people
<1>1. TypeOK'
  <2>1. left' \in 0..MaxEvents
    BY DEF TypeOK, Event
  <2>3. moved' \in BOOLEAN
    OBVIOUS
  <2>2. watch' = NoWatch /\ said' \in host' \cup {None}
    OBVIOUS
  <2> QED BY <2>1, <2>2, <2>3 DEF TypeOK, Event
<1>2. SeenOK' /\ SeenStillHolds'
  BY DEF SeenOK, SeenStillHolds
<1>3. policy'.logon = None /\ policy'.closed = FALSE
  OBVIOUS
<1>4. PolicyOK' /\ SingleServer' /\ HostsOfLogons'
  BY <1>3 DEF PolicyOK, SingleServer, HostsOfLogons
<1> QED BY <1>1, <1>2, <1>4

-----------------------------------------------------------------------------
(* The supervisor and what a tick does *)

(* What a tick may decide, and from what (DecideSupervisor). *)
LEMMA DecisionFacts ==
  ASSUME NEW o \in Observation, NEW d \in Decisions(o)
  PROVE  /\ d \in {"stop", "retry", "prelogin", "start", "active"}
         /\ d = "prelogin" => o.user = "nobody" /\ o.console # None
         /\ d = "start" => o.user = "admin" /\ o.console # None
BY DEF Decisions, Observation

(* The lease moves to the worker on the logon desktop, to the user when the *)
(* handoff completes, and to nobody when serving stops (Reconcile).         *)
LEMMA ReconcileFacts ==
  ASSUME TypeOK, NEW o \in Observation, NEW d \in {"stop", "retry", "prelogin", "start", "active"}
  PROVE  /\ Reconcile(d, o) \in
              [owner : {None, "worker", "user"}, pending : {None, "current", "stale"}, tries : 0..MaxTries]
         /\ d = "prelogin" => Reconcile(d, o).owner = "worker"
         /\ d \in {"start", "retry"} => Reconcile(d, o).owner = sup.owner
         /\ d = "active" => Reconcile(d, o).owner = sup.owner \/ CompletesHandoff(d, o)
<1> DEFINE Record ==
      [owner : {None, "worker", "user"}, pending : {None, "current", "stale"}, tries : 0..MaxTries]
           h == IF o.changed THEN OnConsoleChanged(sup) ELSE sup
<1>1. h \in Record /\ h.owner = sup.owner
  BY DEF TypeOK, OnConsoleChanged
<1>2. (IF d # "retry" THEN 0 ELSE IF h.tries = MaxTries THEN MaxTries ELSE h.tries + 1) \in 0..MaxTries
  BY <1>1, PreloginConstants
<1>3. OnUserHostReady(h) \in Record /\ OnUserHostReady(h).owner \in {sup.owner, "user"}
  BY <1>1 DEF OnUserHostReady
<1> QED BY <1>1, <1>2, <1>3, ServiceStartsWell DEF Reconcile, CompletesHandoff

(* A pre-login tick serves the logon desktop, and stops a Host only where nobody is logged on. *)
LEMMA PreloginTick ==
  ASSUME PreloginInv, Act, NEW d \in Decisions(seen), d = "prelogin", Do(d)
  PROVE  PreloginInv' /\ \A s \in host \ host' : user[s] = "nobody"
<1>0. /\ sup' = Reconcile(d, seen) /\ since' = "no" /\ EnsureWorker(seen.console) /\ watch' = Settled(d, seen)
      /\ host' = IF StopsHost(d, seen) THEN host \ {watch.session} ELSE host
      /\ said' = IF StopsHost(d, seen) /\ said = watch.session THEN None ELSE said
      /\ seen' = Unread /\ UNCHANGED <<policy, shut>>
  BY DEF Do
<1>1. seen \in Observation /\ seen.console \in Sessions /\ seen.user = "nobody"
  BY DecisionFacts, SeenFacts DEF Act, PreloginInv, Types, SeenOK, Observation
<1>2. sup' \in [owner : {None, "worker", "user"}, pending : {None, "current", "stale"}, tries : 0..MaxTries]
      /\ sup'.owner = "worker"
  BY <1>0, <1>1, ReconcileFacts DEF PreloginInv, Types
<1>3. worker' \in {None, worker, seen.console} /\ waiting' \subseteq {"worker", "host"}
      /\ left' \in 0..MaxEvents
  <2>1. worker \in Sessions \cup {None} /\ waiting \subseteq {"worker", "host"} /\ left \in 0..MaxEvents
    BY DEF PreloginInv, Types, TypeOK
  <2>2. CASE worker = seen.console
    BY <1>0, <2>1, <2>2 DEF EnsureWorker
  <2>3. CASE worker # seen.console /\ "worker" \in waiting
    BY <1>0, <2>1, <2>3 DEF EnsureWorker
  <2>4. CASE worker # seen.console /\ "worker" \notin waiting
    <3>1. \/ worker' = seen.console /\ UNCHANGED <<waiting, left>>
          \/ left > 0 /\ left' = left - 1 /\ worker' = None /\ waiting' = waiting \cup {"worker"}
      BY <1>0, <2>4 DEF EnsureWorker, Event
    <3>2. left' \in 0..MaxEvents
      BY <2>1, <3>1, PreloginConstants
    <3> QED BY <2>1, <3>1, <3>2
  <2> QED BY <2>2, <2>3, <2>4
<1>4. watch' \in {watch, NoWatch} /\ (StopsHost(d, seen) => watch' = NoWatch /\ watch.session = seen.console)
  BY <1>0 DEF Settled, StopsHost
<1>5. TypeOK'
  BY <1>0, <1>1, <1>2, <1>3, <1>4 DEF Act, people, PreloginInv, Types, TypeOK
<1>6. SeenOK' /\ SeenStillHolds' /\ PolicyOK'
  BY <1>0, ServiceStartsWell DEF SeenOK, SeenStillHolds, PolicyOK, PreloginInv, Types
<1>7. SingleServer'
  BY <1>0, <1>2 DEF SingleServer
<1>8. HostsOfLogons'
  BY <1>0, <1>4, ServiceStartsWell DEF Act, people, PreloginInv, HostsOfLogons
<1>9. \A s \in host \ host' : user[s] = "nobody"
  BY <1>0, <1>1, <1>4 DEF Act, PreloginInv, SeenStillHolds
<1> QED BY <1>5, <1>6, <1>7, <1>8, <1>9 DEF PreloginInv, Types

(* The worker stays or goes, the clock of the logon runs. *)
LEMMA AfterLogonFacts ==
  ASSUME TypeOK, AfterLogon
  PROVE  worker' \in {worker, None} /\ since' \in {"no", "yes", "long"}
BY DEF TypeOK, AfterLogon

Watched == [how : {"started", "adopted"}, session : Sessions, ended : {"no", "closed", "crashed"}]

(* A Host that is watched from now on: started or adopted, in c. *)
LEMMA WatchFacts ==
  ASSUME NEW c \in Sessions
  PROVE  \A x \in {Started(c), Adopted(c)} :
           /\ x \in Watched /\ x.session = c
           /\ LET y == [x EXCEPT !.ended = "closed"] IN y \in Watched /\ y.session = c /\ y.ended = "closed"
BY DEF Started, Adopted, Watched

(* A tick with an administrator at the console watches their Host, or goes on to launch one. *)
LEMMA StartTick ==
  ASSUME PreloginInv, Act, NEW d \in Decisions(seen), d = "start", Do(d)
  PROVE  PreloginInv' /\ host \subseteq host'
<1> DEFINE c == seen.console
           w == Settled(d, seen)
<1>0. sup' = Reconcile(d, seen) /\ ReconcileHost(w, c)
  BY DEF Do
<1>1. seen \in Observation /\ c \in Sessions
  BY DecisionFacts, SeenFacts DEF Act, PreloginInv, Types, SeenOK, Observation
<1>2. sup' \in [owner : {None, "worker", "user"}, pending : {None, "current", "stale"}, tries : 0..MaxTries]
      /\ sup'.owner = sup.owner
  BY <1>0, <1>1, ReconcileFacts DEF PreloginInv, Types
<1>3. w \in {watch, NoWatch}
  BY <1>0 DEF Settled
<1>4. policy'.logon = c /\ policy'.closed = ClosedBy(w, c) /\ ClosedBy(w, c) \in BOOLEAN
  BY <1>0 DEF ReconcileHost, ClosedBy
<1>5. waiting' \subseteq {"worker", "host"}
  BY <1>0 DEF ReconcileHost, Backoff, PreloginInv, Types, TypeOK
<1>6. left' \in 0..MaxEvents
  BY <1>0, PreloginConstants DEF ReconcileHost, Adopts, Event, PreloginInv, Types, TypeOK
<1>7. /\ host' = host /\ said' = said
      /\ \/ watch' \in {watch, NoWatch}
         \/ c \in host /\ watch' \in {Adopted(c), [Adopted(c) EXCEPT !.ended = "closed"]}
  BY <1>0, <1>3 DEF ReconcileHost, Adopts, Yields
<1>8. /\ watch' \in {NoWatch} \cup Watched
      /\ watch' # NoWatch /\ watch'.ended = "no" => watch'.session \in host'
      /\ watch'.session \in {watch.session, None} \cup (host \cap {c})
  <2>1. CASE watch' \in {watch, NoWatch}
    BY <1>7, <2>1, ServiceStartsWell DEF PreloginInv, Types, TypeOK, Watched
  <2>2. CASE c \in host /\ watch' = Adopted(c)
    <3>1. watch' \in Watched /\ watch'.session = c
      BY <1>1, <2>2, WatchFacts
    <3> QED BY <1>7, <2>2, <3>1
  <2>3. CASE c \in host /\ watch' = [Adopted(c) EXCEPT !.ended = "closed"]
    <3>1. watch' \in Watched /\ watch'.session = c
      BY <1>1, <2>3, WatchFacts
    <3> QED BY <1>7, <2>3, <3>1
  <2> QED BY <1>7, <2>1, <2>2, <2>3
<1>9. worker' \in {worker, None} /\ since' \in {"no", "yes", "long"}
  BY <1>0, AfterLogonFacts DEF ReconcileHost, PreloginInv, Types, TypeOK
<1>10. TypeOK'
  BY <1>2, <1>5, <1>6, <1>7, <1>8, <1>9 DEF Act, PreloginInv, Types, TypeOK, Watched
<1>11. SeenOK' /\ SeenStillHolds'
  <2>1. seen' \in Unreads /\ ~seen'.read
    BY <1>0, <1>1, LaunchingFacts, ServiceStartsWell DEF ReconcileHost
  <2> QED BY <2>1 DEF SeenOK, SeenStillHolds
<1>12. PolicyOK'
  BY <1>1, <1>4 DEF PolicyOK
<1>13. SingleServer'
  BY <1>2, <1>9 DEF SingleServer, PreloginInv
<1>14. HostsOfLogons'
  BY <1>7, <1>8 DEF Act, PreloginInv, HostsOfLogons
<1> QED BY <1>7, <1>10, <1>11, <1>12, <1>13, <1>14 DEF PreloginInv, Types

(* The launch ends the tick: the Host runs, or has yielded, or there is none. *)
LEMMA LaunchStep ==
  ASSUME PreloginInv, LaunchHost
  PROVE  PreloginInv' /\ host \subseteq host'
<1> DEFINE c == seen.launch
<1>1. c \in Sessions
  BY SeenFacts DEF LaunchHost, PreloginInv, Types, Unreads
<1>2. \/ /\ user[c] = "admin" /\ host' = host \cup {c} /\ watch' = Started(c)
         /\ UNCHANGED <<waiting, left>>
      \/ /\ c \in host /\ host' = host /\ watch' = [Started(c) EXCEPT !.ended = "closed"]
         /\ UNCHANGED <<waiting, left>>
      \/ /\ host' = host /\ watch' = NoWatch /\ waiting' = waiting \cup {"host"}
         /\ UNCHANGED left \/ Event
  BY DEF LaunchHost, Yields
<1>3. left' \in 0..MaxEvents /\ waiting' \subseteq {"worker", "host"}
  BY <1>2, PreloginConstants DEF Event, PreloginInv, Types, TypeOK
<1>4. /\ watch' \in {NoWatch} \cup Watched
      /\ watch' # NoWatch /\ watch'.ended = "no" => watch'.session \in host'
      /\ watch'.session \in {c, None} /\ (watch'.session = c => c \in host \/ user[c] = "admin")
      /\ host' \in {host, host \cup {c}} /\ (host' # host => user[c] = "admin")
  <2>1. CASE user[c] = "admin" /\ host' = host \cup {c} /\ watch' = Started(c)
    <3>1. watch' \in Watched /\ watch'.session = c
      BY <1>1, <2>1, WatchFacts
    <3> QED BY <2>1, <3>1
  <2>2. CASE c \in host /\ host' = host /\ watch' = [Started(c) EXCEPT !.ended = "closed"]
    <3>1. watch' \in Watched /\ watch'.session = c /\ watch'.ended = "closed"
      BY <1>1, <2>2, WatchFacts
    <3> QED BY <2>2, <3>1
  <2>3. CASE host' = host /\ watch' = NoWatch
    BY <1>1, <2>3, ServiceStartsWell, PreloginConstants
  <2> QED BY <1>2, <2>1, <2>2, <2>3
<1>5. worker' \in {worker, None} /\ since' \in {"no", "yes", "long"}
  BY AfterLogonFacts DEF LaunchHost, PreloginInv, Types
<1>6. said' = None /\ seen' = Unread /\ UNCHANGED <<console, user, used, on, moved, sup, policy>>
  BY DEF LaunchHost
<1>7. TypeOK'
  BY <1>1, <1>3, <1>4, <1>5, <1>6 DEF PreloginInv, Types, TypeOK, Watched
<1>8. SeenOK' /\ SeenStillHolds' /\ PolicyOK'
  BY <1>6, ServiceStartsWell DEF SeenOK, SeenStillHolds, PolicyOK, PreloginInv, Types
<1>9. SingleServer'
  BY <1>5, <1>6 DEF SingleServer, PreloginInv
<1>10. HostsOfLogons'
  <2>1. c \in host \/ user[c] = "admin" => c \in used
    BY <1>1 DEF PreloginInv, HostsOfLogons
  <2> QED BY <1>1, <1>4, <1>6, <2>1 DEF PreloginInv, HostsOfLogons
<1> QED BY <1>4, <1>7, <1>8, <1>9, <1>10 DEF PreloginInv, Types

(* Any other tick moves the lease or gives it up, and the worker goes with it. *)
LEMMA OtherTick ==
  ASSUME PreloginInv, Act, NEW d \in Decisions(seen), d \in {"active", "stop", "retry"}, Do(d)
  PROVE  PreloginInv' /\ host' = host
<1>0. /\ sup' = Reconcile(d, seen) /\ watch' = Settled(d, seen)
      /\ worker' = IF d = "stop" \/ CompletesHandoff(d, seen) THEN None ELSE worker
      /\ seen' = Unread /\ UNCHANGED <<host, said, policy, since, waiting, shut, left>>
  BY DEF Do
<1>1. seen \in Observation
  BY SeenFacts DEF Act, PreloginInv, Types
<1>2. sup' \in [owner : {None, "worker", "user"}, pending : {None, "current", "stale"}, tries : 0..MaxTries]
      /\ (worker' # None => sup'.owner = sup.owner /\ worker' = worker)
  BY <1>0, <1>1, ReconcileFacts DEF PreloginInv, Types
<1>3. watch' \in {watch, NoWatch}
  BY <1>0 DEF Settled
<1>4. TypeOK'
  BY <1>0, <1>2, <1>3 DEF Act, people, PreloginInv, Types, TypeOK
<1>5. SeenOK' /\ SeenStillHolds' /\ PolicyOK'
  BY <1>0, ServiceStartsWell DEF SeenOK, SeenStillHolds, PolicyOK, PreloginInv, Types
<1>6. SingleServer' /\ HostsOfLogons'
  BY <1>0, <1>2, <1>3, ServiceStartsWell DEF Act, people, SingleServer, HostsOfLogons, PreloginInv
<1> QED BY <1>0, <1>4, <1>5, <1>6 DEF PreloginInv, Types

LEMMA ActStep ==
  ASSUME PreloginInv, Act
  PROVE  PreloginInv' /\ \A s \in host \ host' : user[s] = "nobody"
<1>1. seen \in Observation
  BY SeenFacts DEF Act, PreloginInv, Types
<1>2. PICK d \in Decisions(seen) : Do(d)
  BY DEF Act
<1> QED BY <1>1, <1>2, DecisionFacts, PreloginTick, StartTick, OtherTick

LEMMA PreloginStep == PreloginInv /\ [Next]_vars => PreloginInv'
<1>1. PreloginInv /\ Next => PreloginInv'
  <2> SUFFICES ASSUME PreloginInv, Next PROVE PreloginInv'
    OBVIOUS
  <2>1. CASE \E s \in Sessions, how \in {"closed", "crashed"} : HostEnds(s, how)
    BY <2>1, HostEndsStep
  <2>2. CASE Observe \/ Act \/ LaunchHost \/ Restart
    BY <2>2, ObserveStep, RestartStep, ActStep, LaunchStep
  <2> QED BY <2>1, <2>2, PeopleStep DEF Next
<1>2. PreloginInv /\ UNCHANGED vars => PreloginInv'
  BY DEF vars, people, service, PreloginInv, Types, TypeOK, SeenOK, PolicyOK, SingleServer,
         HostsOfLogons, SeenStillHolds
<1> QED BY <1>1, <1>2

LEMMA PreloginInvariant == Spec => []PreloginInv
BY PreloginInit, PreloginStep, PTL DEF Spec

(* Every variable of the service always holds a value of its kind, and a Host *)
(* that is watched as running does run.                                       *)
THEOREM PreloginTypes == Spec => []TypeOK
BY PreloginInvariant, PTL DEF PreloginInv, Types

(* While the SYSTEM worker runs the lease is its own: whatever moves or ends *)
(* the lease stops the process in the same tick (prelogin_reconcile_loop).   *)
THEOREM OneServerAtATime == Spec => []SingleServer
<1>1. PreloginInv => SingleServer
  BY DEF PreloginInv
<1> QED BY <1>1, PreloginInvariant, PTL

(* No tick ends the Host of a user who is logged on, though users may log on *)
(* and off between what it read and what it does (WatchedHostOnTick).        *)
THEOREM TicksLeaveUsersHosts == Spec => UsersHostIsLeft
<1>1. PreloginInv /\ [Next]_vars => [seen' # seen => \A s \in host \ host' : user[s] = "nobody"]_vars
  <2> SUFFICES ASSUME PreloginInv, Next, seen' # seen, NEW s \in host \ host'
               PROVE  user[s] = "nobody"
    OBVIOUS
  <2>1. Observe \/ Act \/ LaunchHost \/ Restart
    BY DEF Next, Logon, Logoff, UserStartsHost, HostSaysReady, Switch, HostEnds, BackoffPasses, Lock, Toggle,
           WorkerEnds, ThirtySeconds, Changes
  <2>2. host \subseteq host' \/ Act
    BY <2>1, LaunchStep DEF Observe, Restart, people
  <2> QED BY <2>2, ActStep
<1> QED BY <1>1, PreloginInvariant, PTL DEF Spec, UsersHostIsLeft
=============================================================================
