------------------------------ MODULE LoginFlow ------------------------------
(***************************************************************************)
(* How a Windows client stays signed in (apps/native_poc/src:              *)
(* login_credential_store.cpp, login_flow.cpp, and the four operations of  *)
(* client_shell_main.cpp that use them).                                   *)
(*                                                                         *)
(* Several windows, each a process of its own, share three files: the      *)
(* device credential, the list of sign-outs owed, and a counter.  A file   *)
(* opened without sharing is the lock.  A window runs each operation on a  *)
(* worker; workers of one window and of another interleave in the same     *)
(* way, and what tells them apart is the window's epoch.                   *)
(*                                                                         *)
(* An action is what a worker does between two things another worker, the  *)
(* directory or a crash could tell apart: at most one write of a file, one *)
(* request with its answer, or one look at the window.  Every write, read  *)
(* and answer may fail; failures are counted, and an instance says which   *)
(* kinds it has and how many.                                              *)
(*                                                                         *)
(* There is one server (serverOrigin) and the directory's side of a device *)
(* is DeviceCredentials.  A device stands for its revoke token, which is   *)
(* stored wherever the device is named.                                    *)
(***************************************************************************)
EXTENDS DeviceCredentials

CONSTANTS
  Window,     \* client windows
  Slot,       \* workers, of whatever window
  MaxOwed,    \* kMaxPendingRevokes
  MaxTries,   \* how often an automatic sign-in is tried again (3)
  Faults,     \* the kinds of failure of this instance
  MaxFaults,  \* bound of this model on failures
  MaxAsked,   \* bound of this model on sign-ins and sign-outs asked for
  MaxCred,    \* bound of this model on the rotations of one family
  MaxTime     \* bound of this model on the clock

FaultKind ==
  {"write",    \* a file could not be written, moved or deleted
   "read",     \* the credential or the owed list could not be read
   "counter",  \* the counter could not be read
   "lost",     \* the directory did it and the answer did not arrive
   "late",     \* a request was given up and reached the directory afterwards
   "older",    \* a server from before device credentials answered
   "crash",    \* a window's process died
   "ended",    \* a device was ended by somebody else
   "disable"}  \* an account was disabled

ASSUME LoginFlowAssumption ==
  /\ None \notin Window \cup Slot /\ Faults \subseteq FaultKind
  /\ MaxOwed \in Nat /\ MaxTries \in Nat /\ MaxFaults \in Nat
  /\ MaxAsked \in Nat /\ MaxCred \in Nat /\ MaxTime \in Nat

VARIABLES
  now,       \* the directory's clock
  devices,   \* its store of families
  minted,    \* the device ids it has given out
  active,    \* the accounts that may be used
  late,      \* refreshes given up that may still arrive
  cred,      \* login.cred
  owed,      \* login.cred.revoke
  aside,     \* what was in lists moved to login.cred.revoke.unreadable-N
  gen,       \* login.cred.gen
  holder,    \* the worker that has login.cred.lock open
  win,       \* the session of each window: gAccountId, and the device of it
  work,      \* what each worker is at
  faults,    \* failures so far
  asked,     \* sign-ins and sign-outs asked for so far
  last,      \* history: the device of the last sign-in kept, until signed out
  disowned   \* history: devices nobody could have or keep the token of

directory == <<now, devices, minted, active, late>>
files     == <<cred, owed, aside, gen>>
history   == <<last, disowned>>
user      == <<win, asked>>
vars == <<directory, files, holder, user, work, faults, history>>

NoCred == [dev |-> None, n |-> 0, account |-> None]
SignedOff == [account |-> None, dev |-> None]

(* A worker: what it was launched for, where it is, whether the window's     *)
(* epoch is still the one it was launched under, and its local variables.   *)
(* `overtaken' is history: the user has asked for something else since.     *)
Idle == [op |-> "none", at |-> "idle", win |-> None, mine |-> FALSE, gen |-> 0,
         account |-> None, dev |-> None, n |-> 0, other |-> None, ended |-> None,
         queue |-> {}, tries |-> 0, overtaken |-> FALSE]

At(s, place) == work[s].at = place
Becomes(s, worker) == work' = [work EXCEPT ![s] = worker]
GoesTo(s, place) == Becomes(s, [work[s] EXCEPT !.at = place])
Done(s) == Becomes(s, Idle)

NoFault == UNCHANGED faults
Fault(kind) == kind \in Faults /\ faults < MaxFaults /\ faults' = faults + 1

-----------------------------------------------------------------------------
(* The store *)

(* Acquire waits 8 seconds at most: longer than that, and it gives up.  The *)
(* handle is the lock, and goes with the process.                           *)
Free == holder = None
Busy == holder # None
Takes(s) == Free /\ holder' = s
Holds(s) == holder = s
LetsGo == holder' = None

(* BumpGeneration returns v, 0 if it could not be written.  A counter that  *)
(* cannot be read counts as 0, and 1 is what is written over it.            *)
BumpGeneration(v) ==
  /\ \/ v = gen + 1 /\ NoFault
     \/ v = 1 /\ Fault("counter")
     \/ v = 0 /\ Fault("write")
  /\ gen' = IF v = 0 THEN gen ELSE v

Save(next, ok) ==
  IF ok THEN cred' = next /\ NoFault ELSE UNCHANGED cred /\ Fault("write")
(* (When only the .tmp beside it cannot be deleted, the file is gone all the same.) *)
Erase(ok) == Save(NoCred, ok)

(* A bug: a full list makes room. *)
AddPendingRevokeMakesRoom(d, ok) ==
  /\ ok /\ NoFault
  /\ \/ Cardinality(owed \ {d}) < MaxOwed /\ owed' = owed \cup {d}
     \/ Cardinality(owed \ {d}) >= MaxOwed /\ \E e \in owed : owed' = (owed \ {e}) \cup {d}

(* Refused when the list is full or cannot be read, and when writing fails. *)
AddPendingRevoke(d, ok) ==
  LET room == Cardinality(owed \ {d}) < MaxOwed
  IN  IF ok THEN room /\ owed' = owed \cup {d} /\ NoFault
      ELSE /\ UNCHANGED owed
           /\ IF room THEN Fault("write") \/ Fault("read") ELSE NoFault

RemovePendingRevoke(d) ==
  \/ owed' = owed \ {d} /\ NoFault
  \/ UNCHANGED owed /\ (Fault("write") \/ Fault("read"))

(* Tells the directory that a device is signed out.  `ended' is what the    *)
(* answer says; no answer, 429, 5xx and 404 all say nothing.                *)
TellDirectory(d, ended) ==
  /\ UNCHANGED <<now, minted, active, late>>
  /\ \/ ended /\ devices' = RevokeAll(devices, {d}, now) /\ NoFault
     \/ ~ended /\ UNCHANGED devices /\ NoFault
     \/ ~ended /\ devices' = RevokeAll(devices, {d}, now) /\ Fault("lost")

-----------------------------------------------------------------------------
(* What a user asks of a window *)

(* ++gOwnerEpoch: no worker of the window acts for it any more. *)
NewEpoch(w) ==
  [s \in Slot |-> [work[s] EXCEPT !.mine = @ /\ work[s].win # w]]

(* begin_sign_in and sign_out move the counter; what was asked before is late. *)
Overtaken(s) ==
  [r \in Slot |-> [work[r] EXCEPT !.overtaken = @ \/ (r # s /\ work[r].gen # 0)]]

Launch(s, w, op, place, account, others) ==
  /\ At(s, "idle")
  /\ work' = [others EXCEPT ![s] = [Idle EXCEPT !.op = op, !.at = place, !.win = w,
                                                !.mine = TRUE, !.account = account]]
  /\ UNCHANGED <<directory, files, holder, faults, history>>

Asks == asked < MaxAsked /\ asked' = asked + 1

BeginLogin(s, w, a) ==
  /\ Asks /\ win' = [win EXCEPT ![w] = SignedOff]
  /\ Launch(s, w, "login", "begin", a, NewEpoch(w))

(* When the page is ready, and when its retry is pressed. *)
BeginAutoLogin(s, w) ==
  /\ win[w].account = None /\ UNCHANGED user
  /\ Launch(s, w, "auto", "settle", None, NewEpoch(w))

(* The list of PCs was answered with 401; any other answer changes nothing. *)
BeginRefreshHosts(s, w) ==
  /\ win[w].account # None /\ UNCHANGED user
  /\ Launch(s, w, "refresh", "come_back", win[w].account, work)

BeginSignOut(s, w) ==
  /\ Asks /\ win' = [win EXCEPT ![w] = SignedOff]
  /\ Launch(s, w, "sign_out", "sign_out", None, NewEpoch(w))

-----------------------------------------------------------------------------
(* Signing in with a password *)

(* 0 means that the sign-in is not made. *)
BeginSignIn(s) ==
  /\ At(s, "begin")
  /\ \/ Busy /\ Done(s) /\ NoFault /\ UNCHANGED gen
     \/ /\ Free
        /\ \E v \in 0 .. gen + 1 :
             /\ BumpGeneration(v)
             /\ IF v = 0 THEN Done(s)
                ELSE work' = [Overtaken(s) EXCEPT ![s].at = "login", ![s].gen = v]
  /\ UNCHANGED <<directory, cred, owed, aside, holder, user, history>>

(* directory_login_with_device: a device is issued, or an older server signs *)
(* in and issues none, or there is no sign-in.                               *)
DirectoryLogin(s) ==
  /\ At(s, "login")
  /\ \/ \E d \in Device \ minted :
          /\ work[s].account \in active
          /\ minted' = minted \cup {d}
          /\ devices' = CreateFamily(devices, work[s].account, d,
                                     1 + Cardinality(minted), now)
          /\ \/ /\ Becomes(s, [work[s] EXCEPT !.at = "listed", !.dev = d, !.n = 1])
                /\ NoFault /\ UNCHANGED disowned
             \/ Done(s) /\ Fault("lost") /\ disowned' = disowned \cup {d}
     \/ GoesTo(s, "listed") /\ Fault("older") /\ UNCHANGED <<minted, devices, disowned>>
     \/ Done(s) /\ NoFault /\ UNCHANGED <<minted, devices, disowned>>
  /\ UNCHANGED <<now, active, late, files, holder, user, last>>

(* Not kept: what was issued is ended, if anything was. *)
NotKept(s) == IF work[s].dev = None THEN Done(s) ELSE GoesTo(s, "unkept")

(* The list of PCs came or not; then the window's own epoch is asked. *)
Listed(s) ==
  /\ At(s, "listed")
  /\ \/ work[s].mine /\ GoesTo(s, "remember")
     \/ NotKept(s)
  /\ UNCHANGED <<directory, files, holder, user, faults, history>>

(* A bug: the counter is not asked. *)
RememberUnasked(s) ==
  /\ At(s, "remember") /\ Takes(s) /\ GoesTo(s, "replace") /\ NoFault
  /\ UNCHANGED <<directory, files, user, history>>

(* remember_sign_in takes the lock and asks the counter.  An owed list that *)
(* cannot be read is moved away, or else the sign-in is not kept.           *)
Remember(s) ==
  /\ At(s, "remember")
  /\ \/ NotKept(s) /\ (IF Free /\ gen = work[s].gen THEN Fault("counter") \/ Fault("read")
                                                    ELSE NoFault)
        /\ UNCHANGED <<owed, aside, holder>>
     \/ /\ gen = work[s].gen /\ Takes(s) /\ GoesTo(s, "replace")
        /\ \/ NoFault /\ UNCHANGED <<owed, aside>>
           \/ Fault("read") /\ aside' = aside \cup owed /\ owed' = {}
  /\ UNCHANGED <<directory, cred, gen, user, history>>

(* The sign-in that was stored before is written down as owed.  Refused      *)
(* once, the lock is let go and the directory told; refused again, or not    *)
(* told, the new sign-in is not kept.                                        *)
Replace(s) ==
  LET stored == IF cred.dev = work[s].dev THEN None ELSE cred.dev
  IN  /\ At(s, "replace") /\ Holds(s)
      /\ \/ /\ stored \in {None, work[s].ended}
            /\ Becomes(s, [work[s] EXCEPT !.at = "bump", !.other = stored])
            /\ NoFault /\ UNCHANGED <<owed, holder>>
         \/ /\ stored # None /\ GoesTo(s, "bump") /\ Fault("read")
            /\ UNCHANGED <<owed, holder>>
         \/ /\ stored \notin {None, work[s].ended}
            /\ \/ /\ AddPendingRevoke(stored, TRUE) /\ UNCHANGED holder
                  /\ Becomes(s, [work[s] EXCEPT !.at = "bump", !.other = stored])
               \/ /\ AddPendingRevoke(stored, FALSE) /\ LetsGo
                  /\ IF work[s].ended # None THEN NotKept(s)
                     ELSE Becomes(s, [work[s] EXCEPT !.at = "tell_previous",
                                                     !.other = stored])
  /\ UNCHANGED <<directory, cred, aside, gen, user, history>>

TellPrevious(s) ==
  /\ At(s, "tell_previous")
  /\ \/ /\ TellDirectory(work[s].other, TRUE)
        /\ Becomes(s, [work[s] EXCEPT !.at = "remember", !.ended = work[s].other,
                                      !.other = None])
     \/ TellDirectory(work[s].other, FALSE) /\ NotKept(s)
  /\ UNCHANGED <<files, holder, user, history>>

(* A bug: the lock is kept when the counter could not be written. *)
BumpBeforeKeepingHeld(s) ==
  /\ At(s, "bump") /\ Holds(s)
  /\ \E v \in 0 .. gen + 1 :
       BumpGeneration(v) /\ (IF v = 0 THEN NotKept(s) ELSE GoesTo(s, "keep"))
  /\ UNCHANGED <<directory, cred, owed, aside, holder, user, history>>

(* The counter moves before anything is stored: it must be writable. *)
BumpBeforeKeeping(s) ==
  /\ At(s, "bump") /\ Holds(s)
  /\ \E v \in 0 .. gen + 1 :
       /\ BumpGeneration(v)
       /\ IF v = 0 THEN NotKept(s) /\ LetsGo ELSE GoesTo(s, "keep") /\ UNCHANGED holder
  /\ UNCHANGED <<directory, cred, owed, aside, user, history>>

(* Stored, or nothing issued and what was stored erased, or NotSaved. *)
Keep(s) ==
  LET w     == work[s]
      fresh == [dev |-> w.dev, n |-> w.n, account |-> w.account]
  IN  /\ At(s, "keep") /\ Holds(s) /\ LetsGo
      /\ \/ /\ IF w.dev = None /\ w.other = None THEN UNCHANGED cred /\ NoFault
                                                 ELSE Save(IF w.dev = None THEN NoCred ELSE fresh, TRUE)
            /\ GoesTo(s, "settle")
            /\ last' = w.dev
            /\ disowned' = disowned \cup ({cred.dev} \ {None, cred'.dev, w.other})
         \/ /\ w.dev # None \/ w.other # None
            /\ Save(fresh, FALSE) /\ NotKept(s) /\ UNCHANGED <<last, disowned>>
  /\ UNCHANGED <<directory, owed, aside, gen, user>>

(* end_unkept_device: told, or written down, or neither. *)
EndUnkeptDevice(s) ==
  /\ At(s, "unkept")
  /\ \/ TellDirectory(work[s].dev, TRUE) /\ Done(s)
     \/ TellDirectory(work[s].dev, FALSE) /\ GoesTo(s, "record_unkept")
  /\ UNCHANGED <<files, holder, user, history>>

RecordUnkeptDevice(s) ==
  /\ At(s, "record_unkept") /\ Done(s)
  /\ \/ Free /\ AddPendingRevoke(work[s].dev, TRUE) /\ UNCHANGED disowned
     \/ /\ \/ Free /\ AddPendingRevoke(work[s].dev, FALSE)
           \/ Busy /\ UNCHANGED owed /\ NoFault
        /\ disowned' = disowned \cup {work[s].dev}
  /\ UNCHANGED <<directory, cred, aside, gen, holder, user, last>>

(* The window is handed the session, if its epoch has not moved. *)
Adopt(s) ==
  /\ At(s, "adopt") /\ Done(s)
  /\ win' = IF work[s].mine
              THEN [win EXCEPT ![work[s].win] = [account |-> work[s].account,
                                                 dev     |-> work[s].dev]]
              ELSE win
  /\ UNCHANGED <<directory, files, holder, asked, faults, history>>

-----------------------------------------------------------------------------
(* Settling the sign-outs owed: after a sign-in, and before coming back *)

(* The list is copied under the lock and gone through without it. *)
SettleOwedSignOuts(s) ==
  LET next == IF work[s].op = "login" THEN "adopt" ELSE "come_back"
  IN  /\ At(s, "settle")
      /\ \/ Free /\ Becomes(s, [work[s] EXCEPT !.at = "settling", !.queue = owed]) /\ NoFault
         \/ GoesTo(s, next) /\ (IF Busy THEN NoFault ELSE Fault("read"))
      /\ UNCHANGED <<directory, files, holder, user, history>>

SettleOne(s) ==
  LET next == IF work[s].op = "login" THEN "adopt" ELSE "come_back"
  IN  /\ At(s, "settling")
      /\ \/ work[s].queue = {} /\ GoesTo(s, next) /\ UNCHANGED <<directory, faults>>
         \/ \E d \in work[s].queue, ended \in BOOLEAN :
              /\ TellDirectory(d, ended)
              /\ IF ended THEN Becomes(s, [work[s] EXCEPT !.at = "settled", !.queue = @ \ {d}, !.other = d])
                       ELSE Becomes(s, [work[s] EXCEPT !.queue = @ \ {d}])
      /\ UNCHANGED <<files, holder, user, history>>

(* A bug: what the directory has ended stays on the list. *)
RemoveSettledNot(s) ==
  /\ At(s, "settled") /\ Becomes(s, [work[s] EXCEPT !.at = "settling", !.other = None])
  /\ UNCHANGED <<directory, files, holder, user, faults, history>>

RemoveSettled(s) ==
  /\ At(s, "settled") /\ Becomes(s, [work[s] EXCEPT !.at = "settling", !.other = None])
  /\ \/ Free /\ RemovePendingRevoke(work[s].other)
     \/ Busy /\ UNCHANGED owed /\ NoFault
  /\ UNCHANGED <<directory, cred, aside, gen, holder, user, history>>

-----------------------------------------------------------------------------
(* Coming back without a password *)

(* No session: a form that asks for the password, or, for a window that was *)
(* signed in, the end of that.                                              *)
ComesToNothing(s) == IF work[s].op = "auto" THEN Done(s) ELSE GoesTo(s, "drop")

(* No answer about the credential, or no lock: tried again at start-up. *)
ComesLater(s) ==
  IF work[s].op = "auto" /\ work[s].mine /\ work[s].tries < MaxTries
    THEN Becomes(s, [work[s] EXCEPT !.at = "come_back", !.tries = @ + 1])
    ELSE Done(s)

(* Under the lock, up to the request, which is sent under it too. *)
ComeBack(s) ==
  LET w == work[s]
      others == w.op = "refresh" /\ cred.account # w.account
  IN  /\ At(s, "come_back")
      /\ \/ Busy /\ ComesLater(s) /\ NoFault /\ UNCHANGED <<cred, gen, holder>>
         \/ /\ Free /\ ComesToNothing(s) /\ UNCHANGED <<cred, gen, holder>>
            /\ IF cred.dev = None \/ others THEN NoFault ELSE Fault("read")
         \/ /\ cred.dev \in owed /\ ~others /\ ComesToNothing(s)
            /\ Free /\ UNCHANGED holder
            /\ \/ BumpGeneration(gen + 1) /\ cred' = NoCred
               \/ BumpGeneration(0) /\ UNCHANGED cred
               \/ Erase(FALSE) /\ gen' = gen + 1
         \/ /\ cred.dev \notin owed \cup {None} /\ ~others
            /\ Takes(s) /\ NoFault /\ UNCHANGED <<cred, gen>>
            /\ Becomes(s, [w EXCEPT !.at = "refresh", !.dev = cred.dev, !.n = cred.n,
                                    !.account = cred.account])
  /\ UNCHANGED <<directory, owed, aside, user, history>>

(* handleSessionRefresh: what the directory does with a credential. *)
Exchanges(d, n) ==
  LET r == devices[d]
      verdict == Classify(r, n, now)
      accepted == verdict \in {"current", "grace"}
  IN  [ok   |-> accepted /\ r.account \in active,
       next |-> IF accepted /\ r.account \in active
                  THEN [devices EXCEPT ![d] = Rotate(r, verdict, now)]
                ELSE IF verdict = "reused" THEN RevokeAll(devices, {d}, now)
                ELSE devices]

Refresh(s) ==
  LET w == work[s]
      exchange == Exchanges(w.dev, w.n)
  IN  /\ At(s, "refresh") /\ Holds(s)
      /\ \/ /\ exchange.ok => devices[w.dev].cred < MaxCred
            /\ devices' = exchange.next /\ UNCHANGED late
            /\ \/ /\ IF exchange.ok
                       THEN Becomes(s, [w EXCEPT !.at = "save", !.n = exchange.next[w.dev].cred])
                       ELSE GoesTo(s, "refused")
                  /\ NoFault /\ UNCHANGED holder
               \/ ComesLater(s) /\ Fault("lost") /\ LetsGo
         \/ ComesLater(s) /\ NoFault /\ LetsGo /\ UNCHANGED <<devices, late>>
         \/ ComesLater(s) /\ Fault("late") /\ LetsGo /\ UNCHANGED devices
            /\ late' = late \cup {<<w.dev, w.n>>}
         \/ ComesToNothing(s) /\ Fault("older") /\ LetsGo /\ UNCHANGED <<devices, late>>
  /\ UNCHANGED <<now, minted, active, files, user, history>>

(* A bug: the session is used and the credential it was had with is kept. *)
SaveNextNot(s) ==
  /\ At(s, "save") /\ Holds(s) /\ LetsGo /\ GoesTo(s, "relist") /\ NoFault
  /\ UNCHANGED <<directory, files, user, history>>

(* The session is used only if the next credential is on disk. *)
SaveNext(s) ==
  LET w == work[s]
      next == [dev |-> w.dev, n |-> w.n, account |-> w.account]
  IN  /\ At(s, "save") /\ Holds(s) /\ LetsGo
      /\ \/ Save(next, TRUE) /\ GoesTo(s, "relist")
         \/ Save(next, FALSE) /\ ComesToNothing(s)
      /\ UNCHANGED <<directory, owed, aside, gen, user, history>>

EraseRefused(s) ==
  /\ At(s, "refused") /\ Holds(s) /\ LetsGo /\ ComesToNothing(s)
  /\ \/ BumpGeneration(gen + 1) /\ cred' = NoCred
     \/ BumpGeneration(0) /\ UNCHANGED cred
     \/ Erase(FALSE) /\ gen' = gen + 1
  /\ UNCHANGED <<directory, owed, aside, user, history>>

Relisted(s) ==
  /\ At(s, "relist")
  /\ GoesTo(s, "adopt") \/ Done(s)
  /\ UNCHANGED <<directory, files, holder, user, faults, history>>

(* A window that was signed in shows that it is not any more. *)
Drop(s) ==
  /\ At(s, "drop")
  /\ IF work[s].mine
       THEN /\ win' = [win EXCEPT ![work[s].win] = SignedOff]
            /\ work' = [NewEpoch(work[s].win) EXCEPT ![s] = Idle]
       ELSE Done(s) /\ UNCHANGED win
  /\ UNCHANGED <<directory, files, holder, asked, faults, history>>

-----------------------------------------------------------------------------
(* Signing out *)

(* The last sign-in is over if it was d's. *)
SignedOutOf(d) == IF last = d THEN None ELSE last

(* The counter first: without it nothing else is done. *)
SignOut(s) ==
  /\ At(s, "sign_out")
  /\ \/ Busy /\ Done(s) /\ NoFault /\ UNCHANGED <<gen, holder>>
     \/ /\ Free
        /\ \E v \in 0 .. gen + 1 :
             /\ BumpGeneration(v)
             /\ IF v = 0 THEN Done(s) /\ UNCHANGED holder
                ELSE holder' = s /\ work' = [Overtaken(s) EXCEPT ![s].at = "retire"]
  /\ UNCHANGED <<directory, cred, owed, aside, user, history>>

(* Written down as owed before it is erased.  If it cannot be, the directory *)
(* is told first.  What cannot be read is erased, and is nobody's.           *)
Retire(s) ==
  /\ At(s, "retire") /\ Holds(s)
  /\ \/ /\ cred.dev = None /\ Done(s) /\ LetsGo /\ last' = None
        /\ NoFault /\ UNCHANGED <<cred, owed, disowned>>
     \/ /\ cred.dev # None /\ Done(s) /\ LetsGo /\ Fault("read")
        /\ \/ cred' = NoCred /\ last' = None /\ disowned' = disowned \cup {cred.dev}
           \/ UNCHANGED <<cred, last, disowned>>
        /\ UNCHANGED <<owed>>
     \/ /\ cred.dev # None /\ AddPendingRevoke(cred.dev, TRUE)
        /\ Becomes(s, [work[s] EXCEPT !.at = "erase", !.dev = cred.dev])
        /\ UNCHANGED <<cred, holder, last, disowned>>
     \/ /\ cred.dev # None /\ AddPendingRevoke(cred.dev, FALSE) /\ LetsGo
        /\ Becomes(s, [work[s] EXCEPT !.at = "tell_unrecorded", !.dev = cred.dev])
        /\ UNCHANGED <<cred, last, disowned>>
  /\ UNCHANGED <<directory, aside, gen, user>>

(* A bug: what could not be erased is told as signed out. *)
EraseRetiredOrNot(s) ==
  /\ At(s, "erase") /\ Holds(s) /\ LetsGo
  /\ Erase(TRUE) \/ Erase(FALSE)
  /\ GoesTo(s, "tell_erased") /\ last' = SignedOutOf(work[s].dev)
  /\ UNCHANGED <<directory, owed, aside, gen, user, disowned>>

EraseRetired(s) ==
  /\ At(s, "erase") /\ Holds(s) /\ LetsGo
  /\ \/ Erase(TRUE) /\ GoesTo(s, "tell_erased") /\ last' = SignedOutOf(work[s].dev)
     \/ Erase(FALSE) /\ GoesTo(s, "tell_kept") /\ UNCHANGED last
  /\ UNCHANGED <<directory, owed, aside, gen, user, disowned>>

(* The record goes if the directory ended the device and the credential is  *)
(* gone; the credential that could not be recorded goes if it was ended.    *)
TellSignOut(s) ==
  /\ \/ At(s, "tell_erased") /\ TellDirectory(work[s].dev, TRUE) /\ GoesTo(s, "clear")
     \/ At(s, "tell_unrecorded") /\ TellDirectory(work[s].dev, TRUE) /\ GoesTo(s, "erase_ended")
     \/ At(s, "tell_kept") /\ TellDirectory(work[s].dev, TRUE) /\ Done(s)
     \/ /\ work[s].at \in {"tell_erased", "tell_unrecorded", "tell_kept"}
        /\ TellDirectory(work[s].dev, FALSE) /\ Done(s)
  /\ UNCHANGED <<files, holder, user, history>>

ClearRecord(s) ==
  /\ At(s, "clear") /\ Done(s)
  /\ \/ Free /\ RemovePendingRevoke(work[s].dev)
     \/ Busy /\ UNCHANGED owed /\ NoFault
  /\ UNCHANGED <<directory, cred, aside, gen, holder, user, history>>

(* Only if what is stored by now is still this device's. *)
EraseEnded(s) ==
  LET d == work[s].dev
  IN  /\ At(s, "erase_ended") /\ Done(s)
      /\ \/ Busy /\ NoFault /\ UNCHANGED <<cred, last>>
         \/ Free /\ cred.dev # d /\ NoFault /\ UNCHANGED cred /\ last' = SignedOutOf(d)
         \/ Free /\ cred.dev # None /\ Fault("read") /\ UNCHANGED <<cred, last>>
         \/ Free /\ cred.dev = d /\ Erase(TRUE) /\ last' = SignedOutOf(d)
         \/ Free /\ cred.dev = d /\ Erase(FALSE) /\ UNCHANGED last
      /\ UNCHANGED <<directory, owed, aside, gen, holder, user, disowned>>

-----------------------------------------------------------------------------
(* What happens around the windows *)

(* A process dies, and with it its workers and what only they knew. *)
Crash(w) ==
  LET its == {s \in Slot : work[s].win = w}
      unkept == {"listed", "remember", "replace", "tell_previous", "bump", "keep",
                 "unkept", "record_unkept"}
  IN  /\ its # {} /\ Fault("crash")
      /\ work' = [s \in Slot |-> IF s \in its THEN Idle ELSE work[s]]
      /\ holder' = IF holder \in its THEN None ELSE holder
      /\ win' = [win EXCEPT ![w] = SignedOff]
      /\ disowned' =
           disowned \cup ({work[s].dev : s \in {r \in its : work[r].at \in unkept}} \ {None})
      /\ UNCHANGED <<directory, files, asked, last>>

CloseWindow(w) ==
  /\ win[w].account # None /\ \A s \in Slot : work[s].win # w
  /\ win' = [win EXCEPT ![w] = SignedOff]
  /\ UNCHANGED <<directory, files, holder, work, asked, faults, history>>

Tick ==
  /\ now < MaxTime /\ now' = now + 1
  /\ UNCHANGED <<devices, minted, active, late, files, holder, user, work, faults, history>>

(* Ended from another device, by an operator, by a change of password. *)
EndElsewhere(d) ==
  /\ IsLive(devices[d], now) /\ Fault("ended")
  /\ devices' = RevokeAll(devices, {d}, now)
  /\ UNCHANGED <<now, minted, active, late, files, holder, user, work, history>>

(* Disabled and enabled: the families of the account are kept. *)
DisableAccount(a) ==
  /\ a \in active /\ Fault("disable") /\ active' = active \ {a}
  /\ UNCHANGED <<now, devices, minted, late, files, holder, user, work, history>>

EnableAccount(a) ==
  /\ a \notin active /\ active' = active \cup {a}
  /\ UNCHANGED <<now, devices, minted, late, files, holder, user, work, faults, history>>

(* Nobody waits for the answer any more. *)
LateRefresh(d, n) ==
  /\ <<d, n>> \in late /\ late' = late \ {<<d, n>>}
  /\ devices' = Exchanges(d, n).next
  /\ UNCHANGED <<now, minted, active, files, holder, user, work, faults, history>>

Init ==
  /\ now = 1
  /\ devices = [d \in Device |-> NoRecord]
  /\ minted = {} /\ active = Account /\ late = {}
  /\ cred = NoCred /\ owed = {} /\ aside = {} /\ gen = 0
  /\ holder = None
  /\ win = [w \in Window |-> SignedOff]
  /\ work = [s \in Slot |-> Idle]
  /\ faults = 0 /\ asked = 0
  /\ last = None /\ disowned = {}

User ==
  \E s \in Slot, w \in Window :
    \/ \E a \in Account : BeginLogin(s, w, a)
    \/ BeginAutoLogin(s, w) \/ BeginRefreshHosts(s, w) \/ BeginSignOut(s, w)

Worker(s) ==
  \/ BeginSignIn(s) \/ DirectoryLogin(s) \/ Listed(s) \/ Remember(s) \/ Replace(s)
  \/ TellPrevious(s) \/ BumpBeforeKeeping(s) \/ Keep(s)
  \/ EndUnkeptDevice(s) \/ RecordUnkeptDevice(s) \/ Adopt(s)
  \/ SettleOwedSignOuts(s) \/ SettleOne(s) \/ RemoveSettled(s)
  \/ ComeBack(s) \/ Refresh(s) \/ SaveNext(s) \/ EraseRefused(s)
  \/ Relisted(s) \/ Drop(s)
  \/ SignOut(s) \/ Retire(s) \/ EraseRetired(s) \/ TellSignOut(s)
  \/ ClearRecord(s) \/ EraseEnded(s)

World ==
  \/ \E w \in Window : Crash(w) \/ CloseWindow(w)
  \/ Tick
  \/ \E d \in Device : EndElsewhere(d) \/ \E n \in 1 .. MaxCred : LateRefresh(d, n)
  \/ \E a \in Account : DisableAccount(a) \/ EnableAccount(a)

Next == User \/ (\E s \in Slot : Worker(s)) \/ World

Spec == Init /\ [][Next]_vars

(* Workers run on; the client is closed and started again and again; and a   *)
(* directory that is asked often enough answers, a lock that is tried for    *)
(* often enough is had.  Nothing is assumed of the user.                     *)
Fairness ==
  /\ \A s \in Slot :
       /\ WF_vars(Worker(s))
       /\ SF_vars(SettleOwedSignOuts(s) /\ At(s, "settle") /\ work'[s].queue # {})
       /\ SF_vars(SettleOne(s) /\ work'[s].at = "settled")
       /\ SF_vars(RemoveSettled(s) /\ owed' # owed)
  /\ \A w \in Window :
       /\ SF_vars(\E s \in Slot : BeginAutoLogin(s, w))
       /\ SF_vars(CloseWindow(w))
FairSpec == Spec /\ Fairness

-----------------------------------------------------------------------------
(* Properties *)

TypeOK ==
  /\ now \in Nat /\ devices \in [Device -> DeviceRecord]
  /\ minted \subseteq Device /\ active \subseteq Account
  /\ late \subseteq Device \X Nat
  /\ cred \in [dev: Device \cup {None}, n: Nat, account: Account \cup {None}]
  /\ owed \subseteq Device /\ aside \subseteq Device /\ gen \in Nat
  /\ Cardinality(owed) <= MaxOwed
  /\ holder \in Slot \cup {None}
  /\ win \in [Window -> [account: Account \cup {None}, dev: Device \cup {None}]]
  /\ last \in Device \cup {None} /\ disowned \subseteq Device
  /\ \A s \in Slot : work[s].at \in {"replace", "bump", "keep", "refresh", "save",
                                    "refused", "retire", "erase"} <=> holder = s

(* A credential is presented only on behalf of the last sign-in that was     *)
(* kept, and no more once the user was told that it is signed out: whatever  *)
(* other windows do, whatever fails on the way, and wherever a process dies  *)
(* (login_flow.hpp, come_back, remember_sign_in and sign_out).               *)
ComesBackAsTheLastSignIn ==
  \A s \in Slot : At(s, "refresh") => work[s].dev = last

(* The answer to a sign-in after which the user asked for something else, in *)
(* whatever window, is late and is not kept (the counter in login.cred.gen). *)
LateAnswerIsNotKept == \A s \in Slot : At(s, "keep") => ~work[s].overtaken

(* A device that is alive at the directory can be ended by this client: its  *)
(* token is stored, owed, set aside, or with a worker about to do one of     *)
(* these, unless the log has said that it could not be kept                  *)
(* (remember_sign_in, end_unkept_device, retire_under_lock), the answer with *)
(* it was lost, the process died with it, or a sign-in was stored over one   *)
(* that could not be read.                                                   *)
HeldByWorkers == {work[s].dev : s \in Slot} \cup {work[s].other : s \in Slot}
LiveDevicesAreHeld ==
  \A d \in Device : IsLive(devices[d], now) =>
    d \in {cred.dev} \cup owed \cup aside \cup HeldByWorkers \cup disowned

(* One answer lost, write failed or process dead in the middle of coming     *)
(* back does not make the directory take this client's next attempt for a    *)
(* copy of its credential, if it comes within the minute of grace; and       *)
(* windows that come back at the same time never do that to one another.     *)
OneInterruptionIsForgiven ==
  faults <= 1 => \A s \in Slot : At(s, "refresh") =>
    LET r == devices[work[s].dev]
    IN  \/ Classify(r, work[s].n, now) # "reused"
        \/ work[s].n = r.prev /\ r.prevUses > 0 /\ now > r.prevUntil

(* A sign-out that could not be told is told in the end: the list of those   *)
(* owed drains, whatever failed before (settle_owed_sign_outs).              *)
OwedIsSettled == \A d \in Device : d \in owed ~> d \notin owed
=============================================================================
