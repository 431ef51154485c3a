------------------------------- MODULE Update -------------------------------
(***************************************************************************)
(* One machine being updated (src/apps/native_poc/src/update_*.cpp and     *)
(* updater_*.cpp).  A running program of the product, the caller, starts   *)
(* the updater and waits; the updater verifies a release, tells the caller *)
(* to go, stops the product, replaces its files one by one, registers the  *)
(* new version, starts the product and judges its health.  Whatever fails  *)
(* is abandoned (nothing touched) or rolled back.  The updater may be      *)
(* killed between any two steps.                                           *)
(*                                                                         *)
(* The lock keeps a second updater out: it does nothing at all, and is     *)
(* left out.  Children that their supervisor closes (streaming, capture)   *)
(* are left out with it.  A process runs a version of its file.            *)
(***************************************************************************)
EXTENDS Naturals, Sequences

CONSTANTS
  Host, Service, Client,  \* the images that are stopped and brought back
  Payload,                \* config.payloadNames, in their order; the images are among them
  Fresh,                  \* the files that only the new release has
  Faults,                 \* what may fail: see Fails
  SlowClose,              \* whether a program may take longer to close than closingGraceMs
  RetryTorn,              \* whether an attempt may follow one that was killed among its files
  StartsAt,               \* the steps of the updater at which a user may start a program
  MaxAttempts, MaxKilled, MaxStarts  \* bounds: attempts, deaths of the updater, programs a user starts

Images == {Host, Service, Client}
Required == {Host, Service}
Files == {Payload[n] : n \in 1..Len(Payload)}

(* check_payload_names refuses a list that names a file twice; the images   *)
(* are three programs, each with a file of its own.                         *)
ASSUME UpdateConstants ==
  /\ Host # Service /\ Host # Client /\ Service # Client
  /\ Payload \in Seq(Files) /\ \A m, n \in 1..Len(Payload) : Payload[m] = Payload[n] => m = n
  /\ Images \subseteq Files /\ Fresh \subseteq Files \ Images
  /\ RetryTorn \in BOOLEAN /\ {MaxAttempts, MaxKilled, MaxStarts} \subseteq Nat

VARIABLES
  live, back,     \* the version of each file, and of the copy moved aside; Absent
  registered,     \* the version the registry names
  run, closing,   \* the version each image runs, or Absent; those asked to close
  caller,         \* who waits for the updater, and where it is in await_handoff
  ready,          \* the event that releases it; its answer is caller.at = "left"
  pc, u,          \* UpdateState, and what the updater remembers of its attempt
  torn,           \* whether an attempt left a file undone
  attempts, killed, starts   \* counters the bounds are for

disk == <<live, back, registered>>
vars == <<disk, run, closing, caller, ready, pc, u, torn, attempts, killed, starts>>

Absent == 0
Old == 1
New == 2
Nobody == "nobody"

(* stopped, alive: the processes of the capture, and which of them still run. *)
(* saved: captureRegistration.  way: what it is doing.  inner: Swap's own call of Rollback.        *)
(* judged: the version the relaunch effects were built with.                   *)
Attempt(v, running) ==
  [result |-> "none", way |-> "forward", installed |-> v, saved |-> v, expected |-> v, judged |-> Absent,
   before |-> running, stopped |-> {}, alive |-> {}, delivered |-> FALSE, n |-> 1,
   moved |-> {}, placed |-> {}, started |-> {}, owned |-> {}, missing |-> {},
   inner |-> FALSE, ok |-> TRUE, healthy |-> TRUE]

Running == {i \in Images : run[i] # Absent}

Init ==
  /\ live = [f \in Files |-> IF f \in Fresh THEN Absent ELSE Old]
  /\ back = [f \in Files |-> Absent] /\ registered = Old
  /\ run \in [Images -> {Absent, Old}] /\ closing = {}
  /\ caller = [who |-> Nobody, at |-> "none"] /\ ready = FALSE
  /\ pc = "Idle" /\ u = Attempt(Absent, {}) /\ torn = FALSE
  /\ attempts = 0 /\ killed = 0 /\ starts = 0

Fails(step) == step \in Faults

(* Deleting copies moved aside: those that will not be deleted stay. *)
Deleted(names) == {[f \in Files |-> IF f \in names \ stuck THEN Absent ELSE back[f]] :
                      stuck \in IF Fails("delete") THEN {{}} \cup {{f} : f \in names} ELSE {{}}}

Stays == UNCHANGED <<attempts, killed, starts>>
Quiet == UNCHANGED <<run, closing>>
Handed == UNCHANGED <<caller, ready>>

Finish(result) == /\ pc' = "Idle" /\ torn' = (torn \/ result = "RollbackFailed")
                  /\ u' = [u EXCEPT !.result = result]
Enter(state) == pc' = state /\ UNCHANGED torn
Abandon == Enter("RelaunchRequired") /\ u' = [u EXCEPT !.way = "abandon"]

-----------------------------------------------------------------------------
(* The caller *)

(* A program starts the updater, which takes the lock and sweeps.           *)
SweepStaleBackups == back' \in Deleted(Files)

Start(i) ==
  /\ pc = "Idle" /\ attempts < MaxAttempts /\ (torn => RetryTorn)
  /\ i \in Running \ (closing \cup {Service}) /\ caller.at \notin {"waiting", "gaveUp"}
  /\ caller' = [who |-> i, at |-> "waiting"] /\ ready' = FALSE
  /\ SweepStaleBackups
  /\ pc' = "CheckRequested" /\ u' = Attempt(run[i], Running \ closing) /\ attempts' = attempts + 1
  /\ UNCHANGED <<live, registered, torn, killed, starts>> /\ Quiet

(* await_handoff ends: answered, unless the owner changed meanwhile. *)
CallerAnswers ==
  /\ caller.at = "waiting" /\ ready
  /\ \/ caller' = [caller EXCEPT !.at = "left"] /\ closing' = closing \cup {caller.who}
     \/ caller' = [caller EXCEPT !.at = "gaveUp"] /\ UNCHANGED closing
  /\ UNCHANGED <<disk, run, ready, pc, u, torn>> /\ Stays

(* Its patience ran out, or the updater is gone. *)
CallerGivesUp ==
  /\ caller.at = "waiting" /\ ~ready
  /\ caller' = [caller EXCEPT !.at = "gaveUp"]
  /\ UNCHANGED <<disk, ready, pc, u, torn>> /\ Quiet /\ Stays

(* Until it closes the events, the updater still finds them. *)
CallerCloses ==
  /\ caller.at = "gaveUp"
  /\ caller' = [caller EXCEPT !.at = "stays"]
  /\ UNCHANGED <<disk, ready, pc, u, torn>> /\ Quiet /\ Stays

-----------------------------------------------------------------------------
(* Programs *)

(* A program that was asked to close does, or carries on. *)
Closes(i) ==
  /\ i \in closing \cap Running
  /\ run' = [run EXCEPT ![i] = Absent] /\ closing' = closing \ {i}
  /\ u' = [u EXCEPT !.alive = @ \ {i}]
  /\ UNCHANGED <<disk, pc, torn>> /\ Handed /\ Stays

CarriesOn(i) ==
  /\ i \in closing /\ ~(caller.at = "left" /\ caller.who = i)
  /\ closing' = closing \ {i}
  /\ UNCHANGED <<disk, run, pc, u, torn>> /\ Handed /\ Stays

UserStarts(i) ==
  /\ starts < MaxStarts /\ pc \in StartsAt /\ run[i] = Absent /\ live[i] # Absent
  /\ run' = [run EXCEPT ![i] = live[i]] /\ starts' = starts + 1
  /\ UNCHANGED <<disk, closing, pc, u, torn, attempts, killed>> /\ Handed

Killed ==
  /\ pc # "Idle" /\ killed < MaxKilled
  /\ pc' = "Idle" /\ u' = [u EXCEPT !.result = "killed"] /\ killed' = killed + 1
  /\ torn' = (torn \/ u.moved \cup u.placed # {})
  /\ UNCHANGED <<disk, attempts, starts>> /\ Quiet /\ Handed

-----------------------------------------------------------------------------
(* run_update: up to the swap *)

CheckRequested ==
  /\ pc = "CheckRequested"
  /\ \/ (Fails("fetch") \/ u.installed >= New) /\ Finish("NothingToDo")
     \/ u.installed < New /\ Enter("Download") /\ UNCHANGED u
  /\ UNCHANGED disk /\ Quiet /\ Handed /\ Stays

Download ==
  /\ pc = "Download"
  /\ \/ Enter("Verify") /\ UNCHANGED u
     \/ Fails("download") /\ Abandon
  /\ UNCHANGED disk /\ Quiet /\ Handed /\ Stays

(* A bug: what runs is captured without the caller. *)
CapturedOthers == [u EXCEPT !.expected = New, !.stopped = Running \ {caller.who},
                            !.alive = Running, !.delivered = caller.at \in {"waiting", "gaveUp"}]

(* What runs is captured before anyone is told to leave. *)
Captured == [u EXCEPT !.expected = New, !.stopped = Running, !.alive = Running,
                      !.delivered = caller.at \in {"waiting", "gaveUp"}]

Verify ==
  /\ pc = "Verify"
  /\ \/ Enter("Prepare") /\ u' = Captured /\ ready' = Captured.delivered
     \/ Fails("verify") /\ Abandon /\ UNCHANGED ready
  /\ UNCHANGED <<disk, caller>> /\ Quiet /\ Stays

(* A bug: a caller that was told counts as gone. *)
MayStopUnanswered == u.delivered

(* may_stop_the_product *)
MayStop == u.delivered /\ caller.at = "left"

(* The wait for the answer, and then everything is asked to close.  The     *)
(* caller answers within the wait.  A program that cannot be asked and does *)
(* not go ends the attempt after others were asked.                         *)
Prepare ==
  /\ pc = "Prepare" /\ ~(u.delivered /\ caller.at = "waiting")
  /\ \/ ~MayStop /\ Abandon /\ UNCHANGED closing
     \/ /\ MayStop
        /\ \/ Enter("Quiesce") /\ closing' = closing \cup Running /\ u' = [u EXCEPT !.alive = Running]
           \/ /\ Fails("ask") /\ Abandon
              /\ \E some \in SUBSET Running : closing' = closing \cup some
  /\ UNCHANGED <<disk, run>> /\ Handed /\ Stays

(* A bug: the wait for the programs has no end. *)
TimesOutNever == FALSE

(* Waits for exactly those that were asked, until the shared deadline. *)
TimesOut == u.alive # {}

Quiesce ==
  /\ pc = "Quiesce"
  /\ \/ u.alive = {} /\ Enter("MoveAside") /\ u' = [u EXCEPT !.saved = registered]
     \/ TimesOut /\ Abandon
  /\ UNCHANGED disk /\ Quiet /\ Handed /\ Stays

-----------------------------------------------------------------------------
(* Swap and registration *)

File == Payload[u.n]
Past == u.n > Len(Payload)
Next1 == u.n + 1

GoBack == /\ pc' = "Rollback" /\ UNCHANGED torn
          /\ u' = [u EXCEPT !.n = 1, !.ok = TRUE, !.inner = pc \in {"MoveAside", "Place"}]

IsThere(f) == live[f] # Absent

MoveAside ==
  /\ pc = "MoveAside" /\ UNCHANGED registered
  /\ \/ Past /\ Enter("Place") /\ u' = [u EXCEPT !.n = 1] /\ UNCHANGED <<live, back>>
     \/ ~Past /\ ~IsThere(File) /\ u' = [u EXCEPT !.n = Next1] /\ UNCHANGED <<live, back, pc, torn>>
     \/ /\ ~Past /\ IsThere(File)
        /\ live' = [live EXCEPT ![File] = Absent] /\ back' = [back EXCEPT ![File] = live[File]]
        /\ u' = [u EXCEPT !.n = Next1, !.moved = @ \cup {File}] /\ UNCHANGED <<pc, torn>>
     \/ ~Past /\ Fails("move") /\ GoBack /\ UNCHANGED <<live, back>>
  /\ Quiet /\ Handed /\ Stays

Place ==
  /\ pc = "Place" /\ UNCHANGED <<back, registered>>
  /\ \/ Past /\ Enter("Register") /\ UNCHANGED <<live, u>>
     \/ /\ ~Past /\ live' = [live EXCEPT ![File] = New]
        /\ u' = [u EXCEPT !.n = Next1, !.placed = @ \cup {File}] /\ UNCHANGED <<pc, torn>>
     \/ ~Past /\ Fails("place") /\ GoBack /\ UNCHANGED live
  /\ Quiet /\ Handed /\ Stays

Register ==
  /\ pc = "Register"
  /\ \/ registered' = New /\ Enter("RelaunchRequired") /\ UNCHANGED u
     \/ Fails("register") /\ registered' \in {registered, New} /\ GoBack
  /\ UNCHANGED <<live, back>> /\ Quiet /\ Handed /\ Stays

-----------------------------------------------------------------------------
(* Relaunch and health *)

(* One phase of the relaunch: what was captured and is gone is started; the *)
(* host's process handle is kept, the service has none.  A program that is  *)
(* closing is given closingGraceMs before it counts as still running.       *)
Down(phase) == (u.stopped \cap phase) \ u.alive

(* Which of them come up: those that can be started do, unless that fails. *)
Relaunched(phase) ==
  LET startable == {i \in Down(phase) : live[i] # Absent}
  IN  {up \in SUBSET startable : up = startable \/ Fails("relaunch")}

Resumed(up) == [i \in Images |-> IF i \in up /\ run[i] = Absent THEN live[i] ELSE run[i]]

(* The optional phase adds to what the required one found. *)
After(phase, up) ==
  [u EXCEPT !.judged = IF u.judged = Absent THEN u.expected ELSE u.judged,
            !.started = IF phase = Required THEN up ELSE u.started \cup up,
            !.owned = u.owned \cup (({Host} \cap up) \ Running),
            !.missing = IF phase = Required THEN Down(phase) \ up ELSE u.missing \cup (Down(phase) \ up)]

GraceIsOver(phase) == SlowClose \/ u.stopped \cap phase \cap u.alive \cap closing = {}

RelaunchRequired ==
  /\ pc = "RelaunchRequired" /\ GraceIsOver(Required)
  /\ \E up \in Relaunched(Required) :
       LET after == After(Required, up)
       IN  /\ run' = Resumed(up)
           /\ \/ u.way = "abandon" /\ Enter("RelaunchOptional") /\ u' = after
              \/ u.way # "abandon" /\ after.missing = {} /\ Enter("Health") /\ u' = after
              \/ u.way = "forward" /\ after.missing # {} /\ Enter("Rollback") /\ u' = after
              \/ /\ u.way = "back" /\ after.missing # {}
                 /\ pc' = "Idle" /\ UNCHANGED torn /\ u' = [after EXCEPT !.result = "RolledBackNotRelaunched"]
  /\ UNCHANGED <<disk, closing>> /\ Handed /\ Stays

(* The host reports the version it runs; nothing that reports was started: healthy. *)
Healthy == Host \notin u.started \/ run[Host] = u.judged

HealthCheck ==
  /\ pc = "Health"
  /\ \E healthy \in {Healthy} \cup (IF Fails("health") /\ Host \in u.started THEN {FALSE} ELSE {}) :
       IF u.way = "back" THEN Enter("RelaunchOptional") /\ u' = [u EXCEPT !.healthy = healthy]
       ELSE IF healthy THEN Enter("Commit") /\ UNCHANGED u ELSE GoBack
  /\ UNCHANGED disk /\ Quiet /\ Handed /\ Stays

Commit ==
  /\ pc = "Commit"
  /\ back' \in Deleted(u.moved) /\ Enter("RelaunchOptional") /\ u' = [u EXCEPT !.moved = {}, !.placed = {}]
  /\ UNCHANGED <<live, registered>> /\ Quiet /\ Handed /\ Stays

Result(missing) ==
  CASE u.way = "forward" -> IF missing = {} THEN "Updated" ELSE "UpdatedButNotRelaunched"
    [] u.way = "abandon" -> IF missing = {} THEN "AbandonedBeforeSwap" ELSE "AbandonedNotRelaunched"
    [] OTHER -> IF u.healthy THEN "RolledBack" ELSE "RestoredButUnhealthy"

RelaunchOptional ==
  /\ pc = "RelaunchOptional" /\ GraceIsOver({Client})
  /\ \E up \in Relaunched({Client}) :
       LET after == After({Client}, up)
       IN  run' = Resumed(up) /\ u' = [after EXCEPT !.result = Result(after.missing)]
  /\ pc' = "Idle" /\ UNCHANGED <<disk, closing, torn>> /\ Handed /\ Stays

-----------------------------------------------------------------------------
(* Rollback *)

(* Nothing was moved.  Swap's own rollback is followed by the state machine's. *)
Refuse ==
  IF u.inner THEN Enter("Rollback") /\ u' = [u EXCEPT !.inner = FALSE] ELSE Finish("RollbackFailed")

(* What this attempt started and holds a handle of is stopped first. *)
ReleaseBeforeRollback ==
  /\ pc = "Rollback"
  /\ \/ /\ run' = [i \in Images |-> IF i \in u.owned THEN Absent ELSE run[i]]
        /\ Enter("Probe")
        /\ u' = [u EXCEPT !.owned = {}, !.expected = IF u.inner THEN @ ELSE u.installed]
     \/ Fails("stop") /\ u.owned # {} /\ Refuse /\ UNCHANGED run
  /\ UNCHANGED <<disk, closing>> /\ Handed /\ Stays

(* A file whose process runs cannot be removed. *)
InUse(f) == f \in Images /\ live[f] # Absent /\ run[f] = live[f]

(* Nothing is touched until everything can be; the wait for it is bounded. *)
Probe ==
  /\ pc = "Probe"
  /\ \/ (\A f \in u.moved \cup u.placed : ~InUse(f)) /\ Enter("Undo") /\ u' = [u EXCEPT !.n = 1]
     \/ (\E f \in u.moved \cup u.placed : InUse(f)) /\ Refuse
  /\ UNCHANGED disk /\ Quiet /\ Handed /\ Stays

(* A bug: only what was moved aside is undone. *)
UndoneIfMoved(f) == f \in u.moved

Undone(f) == f \in u.moved \cup u.placed

(* A bug: only what was placed gets its copy back. *)
FormerIfPlaced(f) == IF f \in u.placed THEN back[f] ELSE Absent

(* The file's former state: its copy moved aside, or none if the release brought it. *)
Former(f) == IF f \in u.moved THEN back[f] ELSE Absent

Undo ==
  /\ pc = "Undo" /\ ~Past /\ UNCHANGED <<registered, pc, torn>>
  /\ \/ ~Undone(File) /\ UNCHANGED <<live, back>> /\ u' = [u EXCEPT !.n = Next1]
     \/ /\ Undone(File) /\ ~InUse(File)
        /\ live' = [live EXCEPT ![File] = Former(File)]
        /\ back' = [back EXCEPT ![File] = IF File \in u.moved THEN Absent ELSE @]
        /\ u' = [u EXCEPT !.n = Next1]
     \/ /\ Undone(File) /\ (InUse(File) \/ Fails("undo"))
        /\ u' = [u EXCEPT !.n = Next1, !.ok = FALSE] /\ UNCHANGED back
        /\ live' \in {live} \cup (IF InUse(File) \/ File \notin u.moved THEN {} ELSE {[live EXCEPT ![File] = Absent]})
  /\ Quiet /\ Handed /\ Stays

(* Then what was done is forgotten, and the registration put back. *)
UndoEnds ==
  /\ pc = "Undo" /\ Past
  /\ \E restored \in {TRUE} \cup (IF Fails("restore") THEN {FALSE} ELSE {}) :
       LET ok == u.ok /\ restored
       IN /\ registered' = IF restored THEN u.saved ELSE registered
          /\ torn' = (torn \/ ~ok)
          /\ IF u.inner \/ ok
               THEN /\ pc' = IF u.inner THEN "Rollback" ELSE "RelaunchRequired"
                    /\ u' = [u EXCEPT !.inner = FALSE, !.n = 1, !.ok = TRUE, !.moved = {}, !.placed = {},
                                      !.way = IF u.inner THEN @ ELSE "back"]
               ELSE pc' = "Idle" /\ u' = [u EXCEPT !.result = "RollbackFailed"]
  /\ UNCHANGED <<live, back>> /\ Quiet /\ Handed /\ Stays

-----------------------------------------------------------------------------
Updater ==
  \/ CheckRequested \/ Download \/ Verify \/ Prepare \/ Quiesce \/ MoveAside \/ Place \/ Register
  \/ RelaunchRequired \/ HealthCheck \/ Commit \/ RelaunchOptional
  \/ ReleaseBeforeRollback \/ Probe \/ Undo \/ UndoEnds

Next ==
  \/ Updater \/ Killed \/ CallerAnswers \/ CallerGivesUp \/ CallerCloses
  \/ \E i \in Images : Start(i) \/ Closes(i) \/ CarriesOn(i) \/ UserStarts(i)

Spec == Init /\ [][Next]_vars

FairSpec ==
  /\ Spec /\ WF_vars(Updater) /\ WF_vars(CallerAnswers)
  /\ \A i \in Images : WF_vars(Closes(i) \/ CarriesOn(i))

-----------------------------------------------------------------------------
(* Properties *)

Results == {"none", "killed", "NothingToDo", "Updated", "UpdatedButNotRelaunched", "AbandonedBeforeSwap",
            "AbandonedNotRelaunched", "RolledBack", "RestoredButUnhealthy", "RolledBackNotRelaunched",
            "RollbackFailed"}

Steps == {"Idle", "CheckRequested", "Download", "Verify", "Prepare", "Quiesce", "MoveAside", "Place", "Register",
          "RelaunchRequired", "Health", "Commit", "RelaunchOptional", "Rollback", "Probe", "Undo"}
Versions == {Absent, Old, New}

Remembered == {"result", "way", "installed", "saved", "expected", "judged", "before", "stopped", "alive", "delivered",
               "n", "moved", "placed", "started", "owned", "missing", "inner", "ok", "healthy"}

(* What the updater remembers of an attempt. *)
AttemptOK(a) ==
  /\ DOMAIN a = Remembered
  /\ a.result \in Results /\ a.way \in {"forward", "abandon", "back"}
  /\ {a.installed, a.saved, a.expected, a.judged} \subseteq Versions
  /\ a.before \subseteq Images /\ a.stopped \subseteq Images /\ a.alive \subseteq Images
  /\ a.moved \subseteq Files /\ a.placed \subseteq Files
  /\ a.started \subseteq Images /\ a.owned \subseteq Images /\ a.missing \subseteq Images
  /\ a.n \in Nat \ {0} /\ {a.delivered, a.inner, a.ok, a.healthy} \subseteq BOOLEAN

(* Types (UpdateState, UpdateResult, UpdateProcess).                        *)
TypeOK ==
  /\ live \in [Files -> Versions] /\ back \in [Files -> Versions] /\ registered \in Versions
  /\ run \in [Images -> Versions] /\ closing \subseteq Images
  /\ caller \in [who : Images \cup {Nobody}, at : {"none", "waiting", "gaveUp", "left", "stays"}]
  /\ caller.at # "none" => caller.who \in Images
  /\ ready \in BOOLEAN /\ torn \in BOOLEAN /\ pc \in Steps /\ AttemptOK(u)
  /\ attempts \in Nat /\ killed \in Nat /\ starts \in Nat

(* A caller that gave up, or goes on running, is not stopped on account of  *)
(* the update it started, and no file is touched under it.                  *)
GivingUpIsHeard ==
  caller.at \in {"gaveUp", "stays"} /\ u.delivered =>
    caller.who \notin closing /\ u.moved \cup u.placed = {}

(* Every file the product had is there, or its copy is.                     *)
NothingIsLost == \A f \in Files \ Fresh : live[f] # Absent \/ back[f] # Absent

Whole(v) ==
  /\ registered = v
  /\ \A f \in Files : live[f] = IF v = Old /\ f \in Fresh THEN Absent ELSE v

(* An attempt leaves one version, file for file and in the registry, the    *)
(* one its result names, unless it died or failed to undo a file.           *)
EndsWhole ==
  pc = "Idle" /\ u.result \notin {"none", "killed"} /\ ~torn =>
    CASE u.result \in {"Updated", "UpdatedButNotRelaunched"} -> Whole(New)
      [] u.result = "NothingToDo" -> Whole(registered)
      [] OTHER -> Whole(u.installed)

(* When an attempt says that all of it came back, what ran when it started  *)
(* runs again, at the version on the disk; after a rollback, what the       *)
(* machine needs does.                                                      *)
ComesBack ==
  pc = "Idle" =>
    /\ u.result \in {"Updated", "AbandonedBeforeSwap"} => \A i \in u.before : run[i] = live[i]
    /\ u.result = "RolledBack" => \A i \in u.before \cap Required : run[i] = live[i]

(* Every attempt ends. *)
AttemptEnds == pc # "Idle" ~> pc = "Idle"
=============================================================================
