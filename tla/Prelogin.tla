------------------------------ MODULE Prelogin ------------------------------
(***************************************************************************)
(* The pre-login supervisor of the Windows service                         *)
(* (secure_input_service_main.cpp, prelogin_*.hpp): with nobody logged on  *)
(* at the console a SYSTEM worker serves the logon desktop; when an        *)
(* administrator logs on, that user's Host is adopted or started, and the  *)
(* worker is stopped once the Host has said that it is ready.              *)
(*                                                                         *)
(* One thread reconciles about once a second.  A tick reads the console    *)
(* and acts on what it read (Observe, Act), and a Host that it found none  *)
(* of is launched last (LaunchHost); users log on and off, switch, and     *)
(* start, close or crash their Host in between.  Of the console's          *)
(* generation only its comparison with that of the pending handoff is      *)
(* kept, of the clock only whether a span has passed.                      *)
(***************************************************************************)
EXTENDS Naturals, FiniteSets

CONSTANTS
  Sessions,    \* Windows sessions
  MaxEvents,   \* bound: what users, the network and Windows do
  MaxTries     \* maxTransientRetries

None == "none"   \* no session: Windows has a number of its own for it

ASSUME PreloginConstants == {MaxEvents, MaxTries} \subseteq Nat /\ None \notin Sessions

VARIABLES
  console, user, used,    \* the session at the console; who is logged on in each; those logged on to so far
  on,                     \* prelogin_feature_enabled
  host,                   \* sessions a GNLinkHost of this install runs in
  said,                   \* gUserHostReady: the session of the Host that spoke last
  moved,                  \* gSessionTopologyGeneration has moved since the last tick
  seen,                   \* what this tick has observed, or the session it is about to launch a Host in
  sup,                    \* PreloginSupervisor: the lease, the pending handoff, the retries
  watch,                  \* gUserHostProcess or gAdoptedHost
  policy,                 \* UserHostLaunchPolicy: the logon it is about, and whether its Host was closed
  worker,                 \* gPreloginWorker: the session its process runs in
  since,                  \* gLogonSeenMs: "no", "yes", or "long" ago (kWorkerAfterLogonMs)
  waiting,                \* children whose restart backoff has not passed
  shut,                   \* history: sessions where a Host was closed, or one that was watched yielded to another
  left                    \* events the bound leaves

people == <<console, user, used, on, shut>>
service == <<sup, watch, policy, worker, since>>
vars == <<people, host, said, moved, seen, service, waiting, left>>

Started(s) == [how |-> "started", session |-> s, ended |-> "no"]
Adopted(s) == [how |-> "adopted", session |-> s, ended |-> "no"]
NoWatch == [how |-> None, session |-> None, ended |-> "no"]
Idle == [owner |-> None, pending |-> None, tries |-> 0]
Unread == [read |-> FALSE, launch |-> None]
Launching(s) == [read |-> FALSE, launch |-> s]

ServiceStarts ==
  /\ sup = Idle /\ watch = NoWatch /\ policy = [logon |-> None, closed |-> FALSE]
  /\ worker = None /\ since = "no" /\ waiting = {}
  /\ said = None /\ moved = FALSE /\ seen = Unread

Init ==
  /\ console \in Sessions /\ user = [s \in Sessions |-> "nobody"]
  /\ used = {} /\ on \in BOOLEAN
  /\ host = {} /\ shut = {} /\ left = MaxEvents
  /\ ServiceStarts

-----------------------------------------------------------------------------
(* Users and Windows.  Windows makes a new session after each logoff, so that a session names its    *)
(* logon (console_logon_key).  A session change of any kind, a lock included, moves the generation.  *)

Event == left > 0 /\ left' = left - 1

Changes == moved' = TRUE /\ UNCHANGED <<on, shut, host, said, seen, service, waiting>>

Logon(s, kind) ==
  /\ Event /\ console = s /\ s \notin used
  /\ user' = [user EXCEPT ![s] = kind] /\ used' = used \cup {s}
  /\ Changes /\ UNCHANGED console

Logoff(s) ==
  /\ Event /\ user[s] # "nobody" /\ user' = [user EXCEPT ![s] = "nobody"]
  /\ Changes /\ UNCHANGED <<console, used>>

Switch(s) == Event /\ console # s /\ console' = s /\ Changes /\ UNCHANGED <<user, used>>

Lock == Event /\ ~moved /\ Changes /\ UNCHANGED <<console, user, used>>

(* Enable and the revoke of the machine record: the next tick reads it. *)
Toggle ==
  /\ Event /\ on' = ~on
  /\ UNCHANGED <<console, user, used, shut, host, said, moved, seen, service, waiting>>

UserStartsHost(s) ==
  /\ Event /\ user[s] # "nobody" /\ s \notin host /\ host' = host \cup {s}
  /\ UNCHANGED <<people, said, moved, seen, service, waiting>>

(* The Host in s ends, closed by its user or with its session, or by a crash. *)
HostEnds(s, how) ==
  /\ s \in host /\ host' = host \ {s} /\ said' = IF said = s THEN None ELSE said
  /\ IF user[s] = "nobody" THEN how = "closed" /\ UNCHANGED left ELSE Event
  /\ watch' = IF watch.session = s /\ watch.ended = "no" THEN [watch EXCEPT !.ended = how] ELSE watch
  /\ shut' = IF how = "closed" THEN shut \cup {s} ELSE shut
  /\ UNCHANGED <<console, user, used, on, moved, seen, sup, policy, worker, since, waiting>>

(* noteUserHostReady: every Host the directory accepts says so again and again, into one slot. *)
HostSaysReady(s) ==
  /\ s \in host /\ said # s /\ said' = s
  /\ UNCHANGED <<people, host, moved, seen, service, waiting, left>>

(* The worker crashes, or its desktop guard sees the desktop of a user: it ends by itself. *)
WorkerEnds ==
  /\ worker # None /\ worker' = None /\ waiting' = waiting \cup {"worker"}
  /\ IF user[worker] = "nobody" THEN Event ELSE UNCHANGED left
  /\ UNCHANGED <<people, host, said, moved, seen, sup, watch, policy, since>>

BackoffPasses(c) ==
  /\ c \in waiting /\ waiting' = waiting \ {c}
  /\ UNCHANGED <<people, host, said, moved, seen, service, left>>

ThirtySeconds ==
  /\ since = "yes" /\ since' = "long"
  /\ UNCHANGED <<people, host, said, moved, seen, sup, watch, policy, worker, waiting, left>>

-----------------------------------------------------------------------------
(* The tick: observe_console, then Reconcile and what it decides. *)

IsReady(c) == watch.session = c /\ watch.ended = "no" /\ said = c

(* A query of the token or of its privilege may fail for no lasting reason. *)
Observe ==
  /\ seen = Unread /\ moved' = FALSE
  /\ \E sure \in BOOLEAN :
       /\ sure \/ (console # None /\ on /\ left > 0)
       /\ left' = IF sure THEN left ELSE left - 1
       /\ seen' = [read |-> TRUE, on |-> on, console |-> console, changed |-> moved,
                   user |-> IF console = None \/ ~sure THEN "unsure" ELSE user[console],
                   ready |-> console # None /\ IsReady(console)]
  /\ UNCHANGED <<people, host, said, service, waiting>>

(* DecideSupervisor; the budget of retries is also a span of time, which may not have passed. *)
Decisions(o) ==
  IF ~o.on THEN {"stop"}
  ELSE IF o.console = None THEN {"stop"}
  ELSE CASE o.user = "unsure" -> IF sup.tries = MaxTries THEN {"stop", "retry"} ELSE {"retry"}
         [] o.user = "nobody" -> {"prelogin"}
         [] o.user = "plain"  -> {"stop"}
         [] o.user = "admin"  -> IF o.ready THEN {"active"} ELSE {"start"}

OnConsoleChanged(h) == [h EXCEPT !.pending = IF @ = "current" THEN "stale" ELSE @]

OnUserHostReady(h) ==
  IF h.pending = "current" THEN [h EXCEPT !.owner = "user", !.pending = None] ELSE h

(* Reconcile, after the decision d on what o observed. *)
Reconcile(d, o) ==
  LET h == IF o.changed THEN OnConsoleChanged(sup) ELSE sup
      tries == IF d # "retry" THEN 0 ELSE IF h.tries = MaxTries THEN MaxTries ELSE h.tries + 1
  IN [CASE d = "prelogin" -> IF h.owner = "worker" THEN h ELSE [h EXCEPT !.owner = "worker", !.pending = None]
        [] d = "start"    -> [h EXCEPT !.pending = "current"]
        [] d = "active"   -> IF h.owner = "user" THEN h ELSE OnUserHostReady(h)
        [] d = "stop"     -> Idle
        [] d = "retry"    -> h
      EXCEPT !.tries = tries]

(* A bug: the lease moves, and the worker that held it is not stopped. *)
CompletesHandoffAlone(d, o) == FALSE

CompletesHandoff(d, o) == d = "active" /\ sup.owner # "user" /\ Reconcile(d, o).owner = "user"

(* A bug: the worker has no bound after a logon. *)
OverdueNever == FALSE

Overdue == since = "long"

(* WatchedHostOnTick: a Host of another session is let go; here, with nobody logged on, one we started is stopped. *)
LetsGo(d, o) ==
  watch # NoWatch /\ o.console # None /\ (watch.session # o.console \/ d = "prelogin")

(* A bug: a Host the service started is stopped on any pre-login tick, in whichever session it runs. *)
StopsHostAnywhere(d, o) ==
  LetsGo(d, o) /\ d = "prelogin" /\ watch.how = "started" /\ watch.ended = "no"

StopsHost(d, o) ==
  LetsGo(d, o) /\ watch.session = o.console /\ watch.how = "started" /\ watch.ended = "no"

Settled(d, o) == IF LetsGo(d, o) THEN NoWatch ELSE watch

(* A bug: a worker that lives is kept, in whichever session it was started. *)
EnsureAnyWorker(c) ==
  /\ UNCHANGED <<waiting, left>>
  /\ worker' = IF worker = None /\ "worker" \notin waiting THEN c ELSE worker

(* ensure_prelogin_worker: only a worker of this very session is kept; a start may fail. *)
EnsureWorker(c) ==
  IF worker = c THEN UNCHANGED <<worker, waiting, left>>
  ELSE IF "worker" \in waiting THEN worker' = None /\ UNCHANGED <<waiting, left>>
  ELSE \/ worker' = c /\ UNCHANGED <<waiting, left>>
       \/ Event /\ worker' = None /\ waiting' = waiting \cup {"worker"}

(* UserHostLaunchPolicy::Decide about w, the Host that was watched: everything starts over for a new logon. *)
SameLogon(c) == policy.logon = c

(* A bug: an end is an end, and a Host that crashed counts as closed. *)
ClosedByAnyEnd(w, c) == (SameLogon(c) /\ policy.closed) \/ w.ended # "no"

ClosedBy(w, c) == (SameLogon(c) /\ policy.closed) \/ w.ended = "closed"

Backoff(w, c) ==
  (IF SameLogon(c) THEN waiting ELSE waiting \ {"host"}) \cup (IF w.ended = "crashed" THEN {"host"} ELSE {})

(* One GNLinkHost for a session: a second one leaves at once, with exit code 0, as if it had been closed. *)
Yields(w) == watch' = [w EXCEPT !.ended = "closed"] /\ shut' = shut \cup {w.session}

(* The rest of a tick with a user at the console: the worker may stay for 30 seconds. *)
AfterLogon ==
  /\ since' = IF since = "no" THEN "yes" ELSE since
  /\ worker' = IF Overdue THEN None ELSE worker

(* find_user_host_in_session, with no Host watched: the one it finds is adopted, unless it cannot be opened; *)
(* it may also find a second one the user has started, that is about to leave.                               *)
Adopts(c) ==
  \/ watch' = Adopted(c) /\ UNCHANGED <<shut, left>>
  \/ Event /\ watch' = NoWatch /\ UNCHANGED shut
  \/ Event /\ Yields(Adopted(c))

(* reconcile_user_host in session c: its Host stays watched, is adopted, left alone, or will be launched. *)
ReconcileHost(w, c) ==
  /\ policy' = [logon |-> c, closed |-> ClosedBy(w, c)] /\ waiting' = Backoff(w, c)
  /\ \/ /\ c \in host
        /\ IF w # NoWatch /\ w.ended = "no" THEN watch' = w /\ UNCHANGED <<shut, left>> ELSE Adopts(c)
        /\ AfterLogon /\ seen' = Unread
     \/ /\ c \notin host /\ watch' = NoWatch /\ UNCHANGED <<shut, left>>
        /\ IF policy'.closed \/ "host" \in Backoff(w, c) THEN AfterLogon /\ seen' = Unread
           ELSE UNCHANGED <<since, worker>> /\ seen' = Launching(c)
  /\ UNCHANGED <<host, said>>

(* launch_user_host in session c, which forgets the last report and judges the token afresh.  A Host that *)
(* started there after the search is not seen: the launched one yields to it.                             *)
LaunchHost ==
  LET c == seen.launch IN
  /\ ~seen.read /\ c # None /\ seen' = Unread
  /\ said' = None /\ AfterLogon
  /\ \/ /\ user[c] = "admin" /\ c \notin host
        /\ host' = host \cup {c} /\ watch' = Started(c) /\ UNCHANGED <<shut, waiting, left>>
     \/ /\ user[c] = "admin" /\ c \in host
        /\ Yields(Started(c)) /\ UNCHANGED <<host, waiting, left>>
     \/ /\ IF user[c] = "admin" THEN Event ELSE UNCHANGED left
        /\ waiting' = waiting \cup {"host"} /\ watch' = NoWatch /\ UNCHANGED <<host, shut>>
  /\ UNCHANGED <<console, user, used, on, moved, sup, policy>>

(* What follows from the decision d. *)
Do(d) ==
  /\ sup' = Reconcile(d, seen)
  /\ CASE d = "prelogin" ->
            /\ since' = "no" /\ EnsureWorker(seen.console)
            /\ watch' = Settled(d, seen)
            /\ host' = IF StopsHost(d, seen) THEN host \ {watch.session} ELSE host
            /\ said' = IF StopsHost(d, seen) /\ said = watch.session THEN None ELSE said
            /\ seen' = Unread /\ UNCHANGED <<policy, shut>>
       [] d = "start" ->
            ReconcileHost(Settled(d, seen), seen.console)
       [] d \in {"active", "stop", "retry"} ->
            /\ worker' = IF d = "stop" \/ CompletesHandoff(d, seen) THEN None ELSE worker
            /\ watch' = Settled(d, seen)
            /\ seen' = Unread /\ UNCHANGED <<host, said, policy, since, waiting, shut, left>>

Act ==
  /\ seen.read /\ UNCHANGED <<console, user, used, on, moved>>
  /\ \E d \in Decisions(seen) : Do(d)

(* The service stops, and starts: the worker ends with it, and the Hosts are let go. *)
Restart ==
  /\ Event
  /\ sup' = Idle /\ watch' = NoWatch /\ policy' = [logon |-> None, closed |-> FALSE]
  /\ worker' = None /\ since' = "no" /\ waiting' = {}
  /\ said' = None /\ moved' = FALSE /\ seen' = Unread
  /\ UNCHANGED <<people, host>>

Next ==
  \/ \E s \in Sessions, kind \in {"admin", "plain"} : Logon(s, kind)
  \/ \E s \in Sessions : Logoff(s) \/ UserStartsHost(s) \/ HostSaysReady(s)
  \/ \E s \in Sessions \cup {None} : Switch(s)
  \/ \E s \in Sessions, how \in {"closed", "crashed"} : HostEnds(s, how)
  \/ \E c \in {"worker", "host"} : BackoffPasses(c)
  \/ Lock \/ Toggle \/ WorkerEnds \/ ThirtySeconds \/ Observe \/ Act \/ LaunchHost \/ Restart

Spec == Init /\ [][Next]_vars
FairSpec ==
  /\ Spec /\ WF_vars(Observe) /\ WF_vars(Act) /\ WF_vars(LaunchHost)
  /\ WF_vars(ThirtySeconds)
  /\ \A c \in {"worker", "host"} : WF_vars(BackoffPasses(c))
-----------------------------------------------------------------------------
TypeOK ==
  /\ console \in Sessions \cup {None} /\ user \in [Sessions -> {"nobody", "admin", "plain"}]
  /\ on \in BOOLEAN /\ moved \in BOOLEAN /\ host \subseteq Sessions /\ said \in host \cup {None}
  /\ sup \in [owner : {None, "worker", "user"}, pending : {None, "current", "stale"}, tries : 0..MaxTries]
  /\ watch \in {NoWatch} \cup
       [how : {"started", "adopted"}, session : Sessions, ended : {"no", "closed", "crashed"}]
  /\ (watch # NoWatch /\ watch.ended = "no") => watch.session \in host
  /\ worker \in Sessions \cup {None} /\ since \in {"no", "yes", "long"}
  /\ waiting \subseteq {"worker", "host"} /\ left \in 0..MaxEvents

(* At most one of the two serves: while the SYSTEM worker runs, the lease is the worker's, and no    *)
(* longer a user Host's.  The loop stops the process where the supervisor moves or gives up the lease. *)
SingleServer == worker # None => sup.owner = "worker"

(* A tick never ends the Host of a user who is logged on, at the console or in another session       *)
(* (WatchedHostOnTick: "let go, never stopped").                                                     *)
UsersHostIsLeft ==
  [][seen' # seen => \A s \in host \ host' : user[s] = "nobody"]_vars

Stays(s, kind) == <>[](on /\ console = s /\ user[s] = kind)

(* With nobody logged on, the logon desktop of the console comes to be served, whatever sessions,    *)
(* workers and switches there were before (ensure_prelogin_worker).                                  *)
LogonIsServed == \A s \in Sessions : Stays(s, "nobody") => <>[](worker = s)

(* The administrator at the console comes to be served by their Host, unless they closed it in this  *)
(* logon, and by the Host alone: the worker goes at the handoff or after kWorkerAfterLogonMs         *)
(* (prelogin_reconcile_loop), unless the handoff waits for a generation that is over.  A Host that   *)
(* was launched beside one that had just started yields to it, and that counts as closed             *)
(* (prelogin_user_host_policy.hpp:18, :75): the one that stays is not started again if it crashes    *)
(* later, though nobody closed it.                                                                   *)
UserIsServed ==
  \A s \in Sessions : Stays(s, "admin") =>
    <>[]((s \in host \/ s \in shut) /\ (worker = None \/ sup.pending = "stale"))
=============================================================================
