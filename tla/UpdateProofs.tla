----------------------------- MODULE UpdateProofs -----------------------------
(***************************************************************************)
(* Theorems about Update: a caller that gave up is left alone, no file is  *)
(* ever lost, an attempt that ends cleanly leaves one version and brings   *)
(* back what ran.  Proved for every payload, every set of faults and any   *)
(* number of attempts.                                                     *)
(***************************************************************************)
EXTENDS Update, TLAPS

Kept == Files \ Fresh

(* Before anything is stopped or touched. *)
Early == {"CheckRequested", "Download", "Verify", "Prepare", "Quiesce"}

(* The swap, and what it takes to undo it. *)
Undoing == {"Rollback", "Probe", "Undo"}
Ahead == {"RelaunchRequired", "Health"}

(* The attempt has files that are new, and their former ones are aside. *)
Swapped ==
  \/ pc \in {"Register", "Commit"}
  \/ pc \in Ahead /\ u.way = "forward"

-----------------------------------------------------------------------------
(* Where the attempt is, and what its way says of that. *)

WayAndPlace ==
  /\ pc \in Early => u.moved \cup u.placed = {} /\ u.owned = {} /\ ~u.inner /\ u.n = 1
  /\ u.way = "abandon" => u.moved \cup u.placed = {} /\ pc \in {"RelaunchRequired", "RelaunchOptional", "Idle"}
  /\ u.way = "back" => u.moved \cup u.placed = {} /\ pc \in {"RelaunchRequired", "Health", "RelaunchOptional", "Idle"}
  /\ pc = "RelaunchOptional" => u.moved \cup u.placed = {}

(* Nothing is done to files unless the caller answered that it leaves. *)
CallerLeft ==
  /\ u.moved \cup u.placed # {} => u.delivered /\ caller.at = "left"
  /\ pc \notin {"Idle", "CheckRequested", "Download", "Verify", "Prepare"} /\ u.way # "abandon" =>
       u.delivered /\ caller.at = "left"
  /\ caller.at \in {"waiting", "gaveUp", "stays"} => caller.who \notin closing

CallerInv == TypeOK /\ WayAndPlace /\ CallerLeft

-----------------------------------------------------------------------------
(* The files of an attempt, when none follows one that left files undone. *)

TornIsLast ==
  torn => \/ pc = "Idle"
          \/ /\ u.moved \cup u.placed = {}
             /\ \/ pc \in Undoing
                \/ pc \in Ahead \cup {"RelaunchOptional"} /\ u.way = "back"

(* What the attempt did not move aside is there. *)
UnmovedAreThere == ~torn => \A f \in Kept \ u.moved : live[f] # Absent

(* A clean attempt that is over, or has not begun, has nothing moved. *)
NothingUndone ==
  ~torn /\ u.moved \cup u.placed # {} =>
    pc \in {"MoveAside", "Place"} \cup Undoing \/ Swapped

PlacedWereMoved ==
  /\ u.placed \cap Kept \subseteq u.moved
  /\ pc = "MoveAside" => u.placed = {} /\ \A m \in 1..Len(Payload) : m < u.n => live[Payload[m]] = Absent
  /\ pc = "Place" => /\ Kept \subseteq u.moved
                     /\ \A m \in 1..Len(Payload) : m < u.n => live[Payload[m]] = New

CopiesAreThere ==
  /\ pc \in {"MoveAside", "Place", "Rollback", "Probe"} \/ Swapped => \A f \in u.moved : back[f] # Absent
  /\ pc = "Undo" =>
       \A m \in 1..Len(Payload) : Payload[m] \in u.moved =>
         IF m < u.n THEN u.ok => live[Payload[m]] # Absent ELSE back[Payload[m]] # Absent

SwappedAreNew == Swapped => \A f \in Files : live[f] = New

FilesInv ==
  /\ CallerInv /\ TornIsLast /\ UnmovedAreThere /\ NothingUndone
  /\ PlacedWereMoved /\ CopiesAreThere /\ SwappedAreNew /\ NothingIsLost

-----------------------------------------------------------------------------
(* Versions, when no program is started between the wait for those that     *)
(* close and the replacement of its file.                                   *)

(* A program runs the version of its file. *)
RunsItsFile == \A i \in Images : run[i] # Absent => run[i] = live[i]

StoppedAtSwap ==
  /\ pc = "Quiesce" => Running \subseteq u.alive
  /\ pc = "MoveAside" => Running = {}

WholeAtRest ==
  /\ pc # "Idle" => u.installed # Absent
  /\ ~torn => /\ pc = "Idle" => Whole(Old) \/ Whole(New)
              /\ pc \in Early \/ (pc # "Idle" /\ u.way \in {"abandon", "back"}) => Whole(u.installed)
              /\ pc \in Early \ {"CheckRequested"} \/ (pc # "Idle" /\ u.way \in {"abandon", "back"}) => u.installed = Old
              /\ pc = "RelaunchOptional" /\ u.way = "forward" => Whole(New)

(* In the middle: each file is the former one or its copy is; a file that   *)
(* only the release has is there if it was placed.                          *)
FormerOrNew ==
  ~torn /\ (pc \in {"MoveAside", "Place"} \cup Undoing \/ Swapped) =>
    /\ u.installed = Old /\ u.saved = Old /\ u.moved \subseteq Kept
    /\ u.placed # {} \/ registered = Old
    /\ \A f \in Kept \ u.moved : live[f] = Old
    /\ \A f \in Fresh \ u.placed : live[f] = Absent
    /\ pc # "Undo" => \A f \in u.moved : back[f] = Old
    /\ pc \in {"MoveAside", "Place"} => registered = Old
    /\ pc = "MoveAside" => \A f \in u.moved : live[f] = Absent
    /\ pc = "Place" => \A m \in 1..Len(Payload) : IF m < u.n THEN Payload[m] \in u.placed ELSE live[Payload[m]] = Absent
    /\ Swapped => u.placed # {} /\ (pc # "Register" => registered = New)
    /\ pc = "Undo" /\ u.ok =>
         \A m \in 1..Len(Payload) :
           /\ Payload[m] \in u.moved => IF m < u.n THEN live[Payload[m]] = Old ELSE back[Payload[m]] = Old
           /\ Payload[m] \in Fresh /\ m < u.n => live[Payload[m]] = Absent

VersionInv == FilesInv /\ RunsItsFile /\ StoppedAtSwap /\ WholeAtRest /\ FormerOrNew /\ EndsWhole

StartsOutsideSwap == StartsAt \cap {"Quiesce", "MoveAside"} = {}

-----------------------------------------------------------------------------
(* What ran when the attempt started, when nobody starts a program while    *)
(* those that run are asked to close.                                       *)

StartsOutsideStop == StartsAt \cap {"Prepare", "Quiesce", "MoveAside"} = {}

Uncaptured == pc \in {"CheckRequested", "Download", "Verify"} \/ ~(u.before \subseteq u.stopped)
KilledInIt == pc = "Idle" /\ u.result = "killed"
RunsOn(images) == images \subseteq Running \ closing

(* Nobody is asked to close before what runs is captured. *)
CapturedFirst ==
  /\ u.alive \subseteq Running /\ u.owned \cap u.alive = {}
  /\ Uncaptured => RunsOn(u.before) /\ ~ready
  /\ pc \notin {"Idle", "CheckRequested", "Download", "Verify"} /\ u.way # "abandon" => u.before \subseteq u.stopped
  /\ pc = "Prepare" => Running \subseteq u.alive /\ (ready => u.delivered)

(* The one who waits runs, and its answer comes within the wait. *)
AnswersInTime ==
  /\ pc \in Early /\ caller.at = "waiting" => caller.who \in Running
  /\ ready /\ caller.at = "waiting" => pc = "Prepare" \/ KilledInIt

(* Those that were asked and have not closed are known to run. *)
AskedAreAlive == KilledInIt \/ closing \cap u.before \subseteq u.alive

BroughtBack ==
  /\ pc \in {"Health", "Commit"} \/ (pc = "RelaunchOptional" /\ u.way # "abandon") => RunsOn(u.before \cap Required)
  /\ pc = "RelaunchOptional" /\ u.way = "abandon" => RunsOn((u.before \cap Required) \ u.missing)
  /\ pc = "Idle" /\ u.result \in {"Updated", "AbandonedBeforeSwap"} => RunsOn(u.before)
  /\ pc = "Idle" /\ u.result = "RolledBack" => RunsOn(u.before \cap Required)

ProgramsInv == VersionInv /\ CapturedFirst /\ AnswersInTime /\ AskedAreAlive /\ BroughtBack

-----------------------------------------------------------------------------
(* Types *)

LEMMA PayloadFacts ==
  /\ Len(Payload) \in Nat
  /\ \A m \in 1..Len(Payload) : Payload[m] \in Files
  /\ \A f \in Files : \E m \in 1..Len(Payload) : Payload[m] = f
  /\ \A m, n \in 1..Len(Payload) : Payload[m] = Payload[n] => m = n
BY UpdateConstants DEF Files

LEMMA TheNextFile == TypeOK /\ ~Past => File \in Files /\ u.n \in 1..Len(Payload)
<1> SUFFICES ASSUME TypeOK, ~Past PROVE File \in Files /\ u.n \in 1..Len(Payload)
  OBVIOUS
<1>1. u.n \in Nat \ {0}
  BY DEF TypeOK, AttemptOK
<1> QED BY <1>1, PayloadFacts DEF Past, File

LEMMA TypesInit == Init => TypeOK
<1> SUFFICES ASSUME Init PROVE TypeOK
  OBVIOUS
<1>1. AttemptOK(u)
  BY DEF Init, Attempt, AttemptOK, Remembered, Results, Versions
<1>2. run \in [Images -> Versions]
  BY DEF Init, Versions
<1> QED BY <1>1, <1>2 DEF Init, TypeOK, Versions, Steps

LEMMA DeletedTypes == back \in [Files -> Versions] => \A names : Deleted(names) \subseteq [Files -> Versions]
BY DEF Deleted, Versions

LEMMA GoBackTypes == TypeOK /\ GoBack => AttemptOK(u')
<1> SUFFICES ASSUME TypeOK, GoBack PROVE AttemptOK(u')
  OBVIOUS
<1>1. (pc \in {"MoveAside", "Place"}) \in BOOLEAN
  OBVIOUS
<1> QED BY <1>1 DEF TypeOK, GoBack, AttemptOK

LEMMA RefuseTypes == TypeOK /\ Refuse => AttemptOK(u') /\ torn' \in BOOLEAN /\ pc' \in Steps
<1> SUFFICES ASSUME TypeOK, Refuse PROVE AttemptOK(u') /\ torn' \in BOOLEAN /\ pc' \in Steps
  OBVIOUS
<1>1. CASE u.inner
  <2>1. AttemptOK([u EXCEPT !.inner = FALSE])
    BY DEF TypeOK, AttemptOK
  <2> QED BY <1>1, <2>1 DEF TypeOK, Refuse, Enter, Steps
<1>2. CASE ~u.inner
  <2>1. AttemptOK(u')
    BY <1>2 DEF TypeOK, Refuse, Finish, AttemptOK, Remembered, Results
  <2>2. torn' \in BOOLEAN
    BY <1>2 DEF TypeOK, Refuse, Finish
  <2> QED BY <1>2, <2>1, <2>2 DEF Refuse, Finish, Steps
<1> QED BY <1>1, <1>2

(* What a relaunch makes of the programs and of what the updater remembers. *)
LEMMA RelaunchTypes ==
  ASSUME TypeOK, NEW phase, NEW up \in Relaunched(phase)
  PROVE  AttemptOK(After(phase, up)) /\ Resumed(up) \in [Images -> Versions] /\ up \subseteq Down(phase)
<1>1. up \subseteq Down(phase) /\ Down(phase) \subseteq Images
  BY DEF Relaunched, Down, TypeOK, AttemptOK
<1>2. AttemptOK(After(phase, up))
  BY <1>1 DEF After, TypeOK, AttemptOK
<1>3. \A i \in Images : live[i] \in Versions
  BY UpdateConstants DEF TypeOK
<1>4. Resumed(up) \in [Images -> Versions]
  BY <1>3 DEF Resumed, TypeOK
<1> QED BY <1>1, <1>2, <1>4

(* What a step leaves alone keeps its type. *)
LEMMA TypesStep == TypeOK /\ [Next]_vars => TypeOK'
<1> SUFFICES ASSUME TypeOK, [Next]_vars PROVE TypeOK'
  OBVIOUS
<1> USE DEF Stays, Quiet, Handed, disk
<1>1. ASSUME NEW i \in Images, Start(i) PROVE TypeOK'
  <2>1. back' \in [Files -> Versions]
    BY <1>1, DeletedTypes DEF TypeOK, Start, SweepStaleBackups
  <2>2. AttemptOK(u')
    BY <1>1 DEF TypeOK, Start, Attempt, AttemptOK, Remembered, Results, Versions, Running
  <2>3. caller' \in [who : Images \cup {Nobody}, at : {"none", "waiting", "gaveUp", "left", "stays"}]
    BY <1>1 DEF Start
  <2>4. ready' \in BOOLEAN /\ torn' \in BOOLEAN
    BY <1>1 DEF TypeOK, Start
  <2> QED BY <1>1, <2>1, <2>2, <2>3, <2>4 DEF TypeOK, Start, Steps
<1>2. CASE CallerAnswers
  <2>1. caller' \in [who : Images \cup {Nobody}, at : {"none", "waiting", "gaveUp", "left", "stays"}]
    BY <1>2 DEF TypeOK, CallerAnswers
  <2>2. closing' \subseteq Images
    BY <1>2 DEF TypeOK, CallerAnswers
  <2> QED BY <1>2, <2>1, <2>2 DEF TypeOK, CallerAnswers
<1>3. CASE CallerGivesUp
  BY <1>3 DEF TypeOK, CallerGivesUp
<1>4. CASE CallerCloses
  BY <1>4 DEF TypeOK, CallerCloses
<1>5. ASSUME NEW i \in Images, Closes(i) PROVE TypeOK'
  <2>1. AttemptOK(u')
    BY <1>5 DEF TypeOK, Closes, AttemptOK
  <2> QED BY <1>5, <2>1 DEF TypeOK, Closes, Versions
<1>6. ASSUME NEW i \in Images, CarriesOn(i) PROVE TypeOK'
  BY <1>6 DEF TypeOK, CarriesOn
<1>7. ASSUME NEW i \in Images, UserStarts(i) PROVE TypeOK'
  BY <1>7, UpdateConstants DEF TypeOK, UserStarts
<1>8. CASE Killed
  <2>1. AttemptOK(u')
    BY <1>8 DEF TypeOK, Killed, AttemptOK, Results
  <2>2. torn' \in BOOLEAN
    BY <1>8 DEF Killed
  <2> QED BY <1>8, <2>1, <2>2 DEF TypeOK, Killed, Steps
<1>9. CASE CheckRequested
  <2>1. AttemptOK(u') /\ torn' \in BOOLEAN
    BY <1>9 DEF TypeOK, CheckRequested, Finish, Enter, AttemptOK, Remembered, Results
  <2> QED BY <1>9, <2>1 DEF TypeOK, CheckRequested, Finish, Enter, Steps
<1>10. CASE Download
  <2>1. AttemptOK(u')
    BY <1>10 DEF TypeOK, Download, Abandon, Enter, AttemptOK, Remembered
  <2> QED BY <1>10, <2>1 DEF TypeOK, Download, Abandon, Enter, Steps
<1>11. CASE Verify
  <2>1. AttemptOK(Captured)
    BY DEF TypeOK, Captured, AttemptOK, Remembered, Running, Versions
  <2>2. AttemptOK(u') /\ ready' \in BOOLEAN
    BY <1>11, <2>1 DEF TypeOK, Verify, Abandon, Enter, AttemptOK, Remembered
  <2> QED BY <1>11, <2>2 DEF TypeOK, Verify, Abandon, Enter, Steps
<1>12. CASE Prepare
  <2>1. AttemptOK(u')
    BY <1>12 DEF TypeOK, Prepare, Abandon, Enter, AttemptOK, Remembered, Running
  <2>2. closing' \subseteq Images
    BY <1>12 DEF TypeOK, Prepare, Running
  <2> QED BY <1>12, <2>1, <2>2 DEF TypeOK, Prepare, Abandon, Enter, Steps
<1>13. CASE Quiesce
  <2>1. AttemptOK(u')
    BY <1>13 DEF TypeOK, Quiesce, Abandon, Enter, AttemptOK, Remembered
  <2> QED BY <1>13, <2>1 DEF TypeOK, Quiesce, Abandon, Enter, Steps
<1>14. CASE MoveAside
  <2>1. AttemptOK(u')
    <3>1. CASE Past /\ Enter("Place") /\ u' = [u EXCEPT !.n = 1]
      BY <3>1 DEF TypeOK, AttemptOK
    <3>2. CASE ~Past /\ u' = [u EXCEPT !.n = Next1]
      BY <3>2 DEF TypeOK, AttemptOK, Next1
    <3>3. CASE ~Past /\ u' = [u EXCEPT !.n = Next1, !.moved = @ \cup {File}]
      BY <3>3, TheNextFile DEF TypeOK, AttemptOK, Next1
    <3> QED BY <1>14, <3>1, <3>2, <3>3, GoBackTypes DEF MoveAside
  <2>2. live' \in [Files -> Versions] /\ back' \in [Files -> Versions]
    BY <1>14, TheNextFile DEF TypeOK, MoveAside, Versions
  <2> QED BY <1>14, <2>1, <2>2 DEF TypeOK, MoveAside, GoBack, Enter, Steps
<1>15. CASE Place
  <2>1. AttemptOK(u')
    <3>1. CASE ~Past /\ u' = [u EXCEPT !.n = Next1, !.placed = @ \cup {File}]
      BY <3>1, TheNextFile DEF TypeOK, AttemptOK, Next1
    <3> QED BY <1>15, <3>1, GoBackTypes DEF Place, TypeOK
  <2>2. live' \in [Files -> Versions]
    BY <1>15, TheNextFile DEF TypeOK, Place, Versions
  <2> QED BY <1>15, <2>1, <2>2 DEF TypeOK, Place, GoBack, Enter, Steps
<1>16. CASE Register
  <2>1. AttemptOK(u')
    BY <1>16, GoBackTypes DEF TypeOK, Register
  <2> QED BY <1>16, <2>1 DEF TypeOK, Register, GoBack, Enter, Steps, Versions
<1>17. CASE RelaunchRequired
  <2>1. PICK up \in Relaunched(Required) :
          run' = Resumed(up) /\ \/ u' = After(Required, up)
                                \/ u' = [After(Required, up) EXCEPT !.result = "RolledBackNotRelaunched"]
    BY <1>17 DEF RelaunchRequired
  <2>2. AttemptOK(u') /\ run' \in [Images -> Versions]
    BY <2>1, RelaunchTypes DEF AttemptOK, Remembered, Results
  <2> QED BY <1>17, <2>2 DEF TypeOK, RelaunchRequired, Enter, Steps
<1>18. CASE HealthCheck
  <2>1. AttemptOK(u')
    <3>1. PICK healthy \in BOOLEAN :
            IF u.way = "back" THEN u' = [u EXCEPT !.healthy = healthy] ELSE UNCHANGED u \/ GoBack
      BY <1>18 DEF HealthCheck, Healthy
    <3>2. CASE u' = [u EXCEPT !.healthy = healthy]
      BY <3>2 DEF TypeOK, AttemptOK
    <3> QED BY <3>1, <3>2, GoBackTypes DEF TypeOK
  <2> QED BY <1>18, <2>1 DEF TypeOK, HealthCheck, GoBack, Enter, Steps
<1>19. CASE Commit
  <2>1. AttemptOK(u')
    BY <1>19 DEF TypeOK, Commit, AttemptOK
  <2>2. back' \in [Files -> Versions]
    BY <1>19, DeletedTypes DEF TypeOK, Commit
  <2> QED BY <1>19, <2>1, <2>2 DEF TypeOK, Commit, Enter, Steps
<1>20. CASE RelaunchOptional
  <2>1. PICK up \in Relaunched({Client}) :
          /\ run' = Resumed(up)
          /\ u' = [After({Client}, up) EXCEPT !.result = Result(After({Client}, up).missing)]
    BY <1>20 DEF RelaunchOptional
  <2>3. Result(After({Client}, up).missing) \in Results
    BY DEF Result, Results
  <2>2. AttemptOK(u') /\ run' \in [Images -> Versions]
    <3>1. AttemptOK(After({Client}, up)) /\ Resumed(up) \in [Images -> Versions]
      BY RelaunchTypes
    <3> HIDE DEF After
    <3> QED BY <2>1, <2>3, <3>1 DEF AttemptOK, Remembered
  <2> QED BY <1>20, <2>2 DEF TypeOK, RelaunchOptional, Steps
<1>21. CASE ReleaseBeforeRollback
  <2>1. AttemptOK(u')
    <3>1. CASE u' = [u EXCEPT !.owned = {}, !.expected = IF u.inner THEN u.expected ELSE u.installed]
      BY <3>1 DEF TypeOK, AttemptOK
    <3> QED BY <1>21, <3>1, RefuseTypes DEF ReleaseBeforeRollback
  <2>2. run' \in [Images -> Versions]
    BY <1>21 DEF TypeOK, ReleaseBeforeRollback, Versions
  <2> QED BY <1>21, <2>1, <2>2, RefuseTypes DEF TypeOK, ReleaseBeforeRollback, Enter, Steps
<1>22. CASE Probe
  <2>1. AttemptOK(u')
    <3>1. CASE u' = [u EXCEPT !.n = 1]
      BY <3>1 DEF TypeOK, AttemptOK, Remembered
    <3> QED BY <1>22, <3>1, RefuseTypes DEF Probe
  <2> QED BY <1>22, <2>1, RefuseTypes DEF TypeOK, Probe, Enter, Steps
<1>23. CASE Undo
  <2>1. AttemptOK(u')
    <3>1. CASE u' = [u EXCEPT !.n = Next1]
      BY <3>1 DEF TypeOK, AttemptOK, Next1
    <3>2. CASE u' = [u EXCEPT !.n = Next1, !.ok = FALSE]
      BY <3>2 DEF TypeOK, AttemptOK, Next1
    <3> QED BY <1>23, <3>1, <3>2 DEF Undo
  <2>2. live' \in [Files -> Versions] /\ back' \in [Files -> Versions]
    BY <1>23, TheNextFile DEF TypeOK, Undo, Former, Versions
  <2> QED BY <1>23, <2>1, <2>2 DEF TypeOK, Undo
<1>24. CASE UndoEnds
  <2>1. AttemptOK(u')
    <3>1. CASE u' = [u EXCEPT !.inner = FALSE, !.n = 1, !.ok = TRUE, !.moved = {}, !.placed = {},
                              !.way = IF u.inner THEN u.way ELSE "back"]
      BY <3>1 DEF TypeOK, AttemptOK
    <3>2. CASE u' = [u EXCEPT !.result = "RollbackFailed"]
      BY <3>2 DEF TypeOK, AttemptOK, Results
    <3> QED BY <1>24, <3>1, <3>2 DEF UndoEnds
  <2>2. torn' \in BOOLEAN
    BY <1>24 DEF UndoEnds
  <2>3. registered' \in Versions
    BY <1>24 DEF TypeOK, UndoEnds, AttemptOK
  <2> QED BY <1>24, <2>1, <2>2, <2>3 DEF TypeOK, UndoEnds, Steps
<1>25. CASE UNCHANGED vars
  BY <1>25 DEF TypeOK, vars
<1> QED BY <1>1, <1>2, <1>3, <1>4, <1>5, <1>6, <1>7, <1>8, <1>9, <1>10, <1>11, <1>12, <1>13, <1>14, <1>15, <1>16,
           <1>17, <1>18, <1>19, <1>20, <1>21, <1>22, <1>23, <1>24, <1>25 DEF Next, Updater

LEMMA UpdateTypesInvariant == Spec => []TypeOK
BY TypesInit, TypesStep, PTL DEF Spec

-----------------------------------------------------------------------------
(* Where the attempt is, and where its caller *)

(* A relaunch changes what it says of programs, and nothing else. *)
LEMMA AfterKeeps ==
  ASSUME TypeOK, NEW phase, NEW up
  PROVE  LET after == After(phase, up)
         IN  /\ after.way = u.way /\ after.moved = u.moved /\ after.placed = u.placed /\ after.inner = u.inner
             /\ after.delivered = u.delivered /\ after.n = u.n /\ after.ok = u.ok /\ after.healthy = u.healthy
             /\ after.installed = u.installed /\ after.saved = u.saved /\ after.alive = u.alive
             /\ after.before = u.before /\ after.stopped = u.stopped /\ after.result = u.result
             /\ DOMAIN after = Remembered
BY DEF TypeOK, AttemptOK, After

(* What a relaunch and the health check do to the attempt. *)
SameFiles == UNCHANGED <<live, back, registered>> /\ u'.moved = u.moved /\ u'.placed = u.placed
SameBase ==
  /\ u'.delivered = u.delivered /\ u'.way = u.way
  /\ u'.installed = u.installed /\ u'.saved = u.saved /\ u'.before = u.before

LEMMA RequiredKeeps ==
  ASSUME TypeOK, RelaunchRequired
  PROVE  /\ SameFiles /\ SameBase /\ UNCHANGED torn /\ u'.inner = u.inner /\ u'.ok = u.ok
         /\ pc = "RelaunchRequired"
         /\ \/ u.way = "abandon" /\ pc' = "RelaunchOptional"
            \/ u.way # "abandon" /\ pc' = "Health"
            \/ u.way = "forward" /\ pc' = "Rollback"
            \/ u.way = "back" /\ pc' = "Idle" /\ u'.result = "RolledBackNotRelaunched"
<1>1. PICK up \in Relaunched(Required) :
        LET after == After(Required, up)
        IN  \/ u.way = "abandon" /\ Enter("RelaunchOptional") /\ u' = after
            \/ u.way # "abandon" /\ after.missing = {} /\ Enter("Health") /\ u' = after
            \/ u.way = "forward" /\ after.missing # {} /\ Enter("Rollback") /\ u' = after
            \/ /\ u.way = "back" /\ after.missing # {}
               /\ pc' = "Idle" /\ UNCHANGED torn /\ u' = [after EXCEPT !.result = "RolledBackNotRelaunched"]
  BY DEF RelaunchRequired
<1>2. pc = "RelaunchRequired" /\ UNCHANGED <<live, back, registered>>
  BY DEF RelaunchRequired, disk
<1>3. \/ u' = After(Required, up)
      \/ u' = [After(Required, up) EXCEPT !.result = "RolledBackNotRelaunched"]
  BY <1>1
<1>4. u'.moved = u.moved /\ u'.placed = u.placed /\ u'.inner = u.inner /\ u'.ok = u.ok /\ SameBase
  BY <1>3, AfterKeeps DEF Remembered, SameBase
<1>5. pc' = "Idle" => u'.result = "RolledBackNotRelaunched"
  BY <1>1, AfterKeeps DEF Enter, Remembered
<1> QED BY <1>1, <1>2, <1>4, <1>5 DEF Enter, SameFiles

LEMMA OptionalKeeps ==
  ASSUME TypeOK, RelaunchOptional
  PROVE  /\ SameFiles /\ SameBase /\ UNCHANGED torn /\ pc = "RelaunchOptional" /\ pc' = "Idle"
         /\ \E missing : u'.result = Result(missing)
<1>1. PICK up \in Relaunched({Client}) :
        u' = [After({Client}, up) EXCEPT !.result = Result(After({Client}, up).missing)]
  BY DEF RelaunchOptional
<1>2. u'.moved = u.moved /\ u'.placed = u.placed /\ SameBase /\ u'.result = Result(After({Client}, up).missing)
  BY <1>1, AfterKeeps DEF SameBase
<1> QED BY <1>2 DEF RelaunchOptional, SameFiles, disk

LEMMA HealthKeeps ==
  ASSUME TypeOK, HealthCheck
  PROVE  /\ SameFiles /\ SameBase /\ UNCHANGED torn /\ pc = "Health" /\ u'.result = u.result
         /\ \/ u.way = "back" /\ pc' = "RelaunchOptional"
            \/ u.way # "back" /\ pc' = "Commit" /\ UNCHANGED u
            \/ u.way # "back" /\ pc' = "Rollback" /\ u'.n = 1 /\ u'.ok /\ ~u'.inner
<1>1. PICK healthy :
        IF u.way = "back" THEN Enter("RelaunchOptional") /\ u' = [u EXCEPT !.healthy = healthy]
        ELSE IF healthy THEN Enter("Commit") /\ UNCHANGED u ELSE GoBack
  BY DEF HealthCheck
<1>2. pc = "Health" /\ UNCHANGED <<live, back, registered>>
  BY DEF HealthCheck, disk
<1>3. CASE u' = [u EXCEPT !.healthy = healthy]
  BY <1>1, <1>2, <1>3 DEF SameFiles, SameBase, Enter, GoBack, TypeOK, AttemptOK, Remembered
<1>4. CASE GoBack /\ u.way # "back"
  BY <1>2, <1>4 DEF SameFiles, SameBase, GoBack, TypeOK, AttemptOK, Remembered
<1>5. CASE Enter("Commit") /\ UNCHANGED u /\ u.way # "back"
  BY <1>2, <1>5 DEF SameFiles, SameBase, Enter
<1> QED BY <1>1, <1>3, <1>4, <1>5

LEMMA CallerInit == Init => CallerInv
<1> SUFFICES ASSUME Init PROVE WayAndPlace /\ CallerLeft
  BY TypesInit DEF CallerInv
<1> QED BY DEF Init, Attempt, WayAndPlace, CallerLeft

LEMMA WayStep == TypeOK /\ WayAndPlace /\ [Next]_vars => WayAndPlace'
<1> SUFFICES ASSUME TypeOK, WayAndPlace, [Next]_vars PROVE WayAndPlace'
  OBVIOUS
<1> USE DEF Stays, Quiet, Handed, disk
<1>1. ASSUME NEW i \in Images, Start(i) PROVE WayAndPlace'
  BY <1>1 DEF Start, Attempt, WayAndPlace
<1>2. CASE CallerAnswers
  BY <1>2 DEF CallerAnswers, WayAndPlace
<1>3. CASE CallerGivesUp
  BY <1>3 DEF CallerGivesUp, WayAndPlace
<1>4. CASE CallerCloses
  BY <1>4 DEF CallerCloses, WayAndPlace
<1>5. ASSUME NEW i \in Images, Closes(i) PROVE WayAndPlace'
  BY <1>5 DEF Closes, WayAndPlace
<1>6. ASSUME NEW i \in Images, CarriesOn(i) PROVE WayAndPlace'
  BY <1>6 DEF CarriesOn, WayAndPlace
<1>7. ASSUME NEW i \in Images, UserStarts(i) PROVE WayAndPlace'
  BY <1>7 DEF UserStarts, WayAndPlace
<1>8. CASE Killed
  BY <1>8 DEF Killed, WayAndPlace, Early
<1>9. CASE CheckRequested
  BY <1>9 DEF CheckRequested, Finish, Enter, WayAndPlace, Early, TypeOK, AttemptOK, Remembered
<1>10. CASE Download
  BY <1>10 DEF Download, Abandon, Enter, WayAndPlace, Early, TypeOK, AttemptOK, Remembered
<1>11. CASE Verify
  BY ZenonT(30), <1>11 DEF Verify, Captured, Abandon, Enter, WayAndPlace, Early, TypeOK, AttemptOK, Remembered
<1>12. CASE Prepare
  BY <1>12 DEF Prepare, MayStop, Abandon, Enter, WayAndPlace, Early, TypeOK, AttemptOK, Remembered
<1>13. CASE Quiesce
  BY <1>13 DEF Quiesce, Abandon, Enter, WayAndPlace, Early, TypeOK, AttemptOK, Remembered
<1>14. CASE MoveAside
  BY ZenonT(30), <1>14 DEF MoveAside, GoBack, Enter, Next1, WayAndPlace, Early, TypeOK, AttemptOK, Remembered
<1>15. CASE Place
  BY ZenonT(30), <1>15 DEF Place, GoBack, Enter, Next1, WayAndPlace, Early, TypeOK, AttemptOK, Remembered
<1>16. CASE Register
  BY ZenonT(30), <1>16 DEF Register, GoBack, Enter, WayAndPlace, Early, TypeOK, AttemptOK, Remembered
<1>17. CASE RelaunchRequired
  BY <1>17, AfterKeeps DEF RelaunchRequired, Enter, WayAndPlace, Early, TypeOK, Remembered
<1>18. CASE HealthCheck
  BY <1>18, HealthKeeps DEF HealthCheck, SameFiles, SameBase, CallerLeft, WayAndPlace, Early
<1>19. CASE Commit
  BY <1>19 DEF Commit, Enter, WayAndPlace, Early
<1>20. CASE RelaunchOptional
  BY <1>20, AfterKeeps DEF RelaunchOptional, WayAndPlace, Early
<1>21. CASE ReleaseBeforeRollback
  BY ZenonT(30), <1>21 DEF ReleaseBeforeRollback, Refuse, Finish, Enter, WayAndPlace, Early, TypeOK, AttemptOK, Remembered
<1>22. CASE Probe
  BY <1>22 DEF Probe, Refuse, Finish, Enter, WayAndPlace, Early, TypeOK, AttemptOK, Remembered
<1>23. CASE Undo
  BY <1>23 DEF Undo, Next1, WayAndPlace, Early, TypeOK, AttemptOK, Remembered
<1>24. CASE UndoEnds
  BY ZenonT(30), <1>24 DEF UndoEnds, WayAndPlace, Early, TypeOK, AttemptOK, Remembered
<1>25. CASE UNCHANGED vars
  BY <1>25 DEF vars, WayAndPlace
<1> QED BY <1>1, <1>2, <1>3, <1>4, <1>5, <1>6, <1>7, <1>8, <1>9, <1>10, <1>11, <1>12, <1>13, <1>14, <1>15, <1>16, <1>17, <1>18, <1>19, <1>20, <1>21, <1>22, <1>23, <1>24, <1>25 DEF Next, Updater

LEMMA CallerLeftStep == CallerInv /\ [Next]_vars => CallerLeft'
<1> SUFFICES ASSUME TypeOK, WayAndPlace, CallerLeft, [Next]_vars PROVE CallerLeft'
  BY DEF CallerInv
<1> USE DEF Stays, Quiet, Handed, disk
<1>1. ASSUME NEW i \in Images, Start(i) PROVE CallerLeft'
  BY <1>1 DEF Start, Attempt, CallerLeft
<1>2. CASE CallerAnswers
  BY <1>2 DEF CallerAnswers, CallerLeft, WayAndPlace, TypeOK
<1>3. CASE CallerGivesUp
  BY <1>3 DEF CallerGivesUp, CallerLeft
<1>4. CASE CallerCloses
  BY <1>4 DEF CallerCloses, CallerLeft
<1>5. ASSUME NEW i \in Images, Closes(i) PROVE CallerLeft'
  BY <1>5 DEF Closes, CallerLeft
<1>6. ASSUME NEW i \in Images, CarriesOn(i) PROVE CallerLeft'
  BY <1>6 DEF CarriesOn, CallerLeft
<1>7. ASSUME NEW i \in Images, UserStarts(i) PROVE CallerLeft'
  BY <1>7 DEF UserStarts, CallerLeft
<1>8. CASE Killed
  BY <1>8 DEF Killed, CallerLeft
<1>9. CASE CheckRequested
  BY <1>9 DEF CheckRequested, Finish, Enter, CallerLeft, WayAndPlace, Early, TypeOK, AttemptOK, Remembered
<1>10. CASE Download
  BY <1>10 DEF Download, Abandon, Enter, CallerLeft, WayAndPlace, Early, TypeOK, AttemptOK, Remembered
<1>11. CASE Verify
  BY ZenonT(30), <1>11 DEF Verify, Captured, Abandon, Enter, CallerLeft, WayAndPlace, Early, TypeOK, AttemptOK, Remembered
<1>12. CASE Prepare
  BY <1>12 DEF Prepare, MayStop, Abandon, Enter, Running, CallerLeft, WayAndPlace, Early, TypeOK, AttemptOK, Remembered
<1>13. CASE Quiesce
  BY <1>13 DEF Quiesce, Abandon, Enter, CallerLeft, WayAndPlace, Early, TypeOK, AttemptOK, Remembered
<1>14. CASE MoveAside
  BY ZenonT(30), <1>14 DEF MoveAside, GoBack, Enter, Next1, CallerLeft, WayAndPlace, Early, TypeOK, AttemptOK, Remembered
<1>15. CASE Place
  BY <1>15 DEF Place, GoBack, Enter, Next1, CallerLeft, WayAndPlace, Early, TypeOK, AttemptOK, Remembered
<1>16. CASE Register
  BY <1>16 DEF Register, GoBack, Enter, CallerLeft, WayAndPlace, Early, TypeOK, AttemptOK, Remembered
<1>17. CASE RelaunchRequired
  BY <1>17, AfterKeeps DEF RelaunchRequired, Enter, CallerLeft, WayAndPlace, Early, TypeOK, Remembered
<1>18. CASE HealthCheck
  BY <1>18, HealthKeeps DEF HealthCheck, Handed, Quiet, SameFiles, SameBase, CallerLeft
<1>19. CASE Commit
  BY <1>19 DEF Commit, Enter, CallerLeft
<1>20. CASE RelaunchOptional
  BY <1>20, AfterKeeps DEF RelaunchOptional, CallerLeft
<1>21. CASE ReleaseBeforeRollback
  BY ZenonT(30), <1>21 DEF ReleaseBeforeRollback, Refuse, Finish, Enter, CallerLeft, WayAndPlace, Early, TypeOK, AttemptOK, Remembered
<1>22. CASE Probe
  BY <1>22 DEF Probe, Refuse, Finish, Enter, CallerLeft, WayAndPlace, Early, TypeOK, AttemptOK, Remembered
<1>23. CASE Undo
  BY <1>23 DEF Undo, Next1, CallerLeft, WayAndPlace, Early, TypeOK, AttemptOK, Remembered
<1>24. CASE UndoEnds
  <2>1. u.delivered /\ caller.at = "left"
    BY <1>24 DEF UndoEnds, CallerLeft, WayAndPlace
  <2>2. u'.delivered = u.delivered /\ UNCHANGED <<caller, closing>>
    BY ZenonT(30), <1>24 DEF UndoEnds, TypeOK, AttemptOK, Remembered
  <2> QED BY <2>1, <2>2 DEF CallerLeft
<1>25. CASE UNCHANGED vars
  BY <1>25 DEF vars, CallerLeft
<1> QED BY <1>1, <1>2, <1>3, <1>4, <1>5, <1>6, <1>7, <1>8, <1>9, <1>10, <1>11, <1>12, <1>13, <1>14, <1>15, <1>16, <1>17, <1>18, <1>19, <1>20, <1>21, <1>22, <1>23, <1>24, <1>25 DEF Next, Updater

LEMMA CallerInvariant == Spec => []CallerInv
<1>1. CallerInv /\ [Next]_vars => CallerInv'
  BY TypesStep, WayStep, CallerLeftStep DEF CallerInv
<1> QED BY <1>1, CallerInit, PTL DEF Spec

(* A caller that gave up, or goes on running, is not stopped on account of   *)
(* the update it started, and no file is touched under it (await_handoff,    *)
(* may_stop_the_product).                                                    *)
THEOREM TheCallerIsHeard == Spec => []GivingUpIsHeard
<1>1. CallerInv => GivingUpIsHeard
  BY DEF CallerInv, CallerLeft, GivingUpIsHeard
<1> QED BY <1>1, CallerInvariant, PTL
-----------------------------------------------------------------------------
(* The files, when no attempt follows one that left some undone *)

LEMMA DeletedOnly ==
  ASSUME TypeOK, NEW names, NEW left \in Deleted(names)
  PROVE  \A f \in Files : left[f] = back[f] \/ f \in names
BY DEF Deleted

(* The steps of the swap and of the rollback, file by file. *)
FilesStay == UNCHANGED <<live, back>> /\ u'.moved = u.moved /\ u'.placed = u.placed
WentBack == pc' = "Rollback" /\ u'.n = 1 /\ u'.ok /\ UNCHANGED torn

LEMMA MoveAsideSteps ==
  ASSUME TypeOK, MoveAside
  PROVE  /\ pc = "MoveAside" /\ SameBase /\ UNCHANGED <<torn, registered>>
         /\ \/ u.n > Len(Payload) /\ FilesStay /\ pc' = "Place" /\ u'.n = 1
            \/ /\ u.n \in 1..Len(Payload) /\ live[Payload[u.n]] = Absent
               /\ FilesStay /\ UNCHANGED pc /\ u'.n = u.n + 1
            \/ /\ u.n \in 1..Len(Payload) /\ live[Payload[u.n]] # Absent /\ UNCHANGED pc /\ u'.n = u.n + 1
               /\ \A f \in Files : /\ live'[f] = IF f = Payload[u.n] THEN Absent ELSE live[f]
                                   /\ back'[f] = IF f = Payload[u.n] THEN live[f] ELSE back[f]
               /\ u'.moved = u.moved \cup {Payload[u.n]} /\ u'.placed = u.placed
            \/ FilesStay /\ WentBack
<1>1. pc = "MoveAside" /\ UNCHANGED <<torn, registered>> /\ SameBase
  BY ZenonT(30) DEF MoveAside, GoBack, Enter, SameBase, TypeOK, AttemptOK, Remembered
<1>2. CASE Past /\ Enter("Place") /\ u' = [u EXCEPT !.n = 1] /\ UNCHANGED <<live, back>>
  BY <1>1, <1>2 DEF Past, Enter, FilesStay
<1>3. CASE ~Past /\ ~IsThere(File) /\ u' = [u EXCEPT !.n = Next1] /\ UNCHANGED <<live, back, pc, torn>>
  BY <1>1, <1>3, TheNextFile DEF IsThere, File, Next1, FilesStay
<1>4. CASE /\ ~Past /\ IsThere(File)
           /\ live' = [live EXCEPT ![File] = Absent] /\ back' = [back EXCEPT ![File] = live[File]]
           /\ u' = [u EXCEPT !.n = Next1, !.moved = @ \cup {File}] /\ UNCHANGED <<pc, torn>>
  <2>1. u'.n = u.n + 1 /\ u'.moved = u.moved \cup {File} /\ u'.placed = u.placed
    BY <1>4 DEF Next1
  <2>2. \A f \in Files : /\ live'[f] = IF f = File THEN Absent ELSE live[f]
                         /\ back'[f] = IF f = File THEN live[f] ELSE back[f]
    BY <1>4 DEF TypeOK
  <2> QED BY <1>1, <1>4, <2>1, <2>2, TheNextFile DEF IsThere, File
<1>5. CASE GoBack /\ UNCHANGED <<live, back>>
  BY <1>1, <1>5 DEF GoBack, WentBack, FilesStay
<1> QED BY <1>2, <1>3, <1>4, <1>5 DEF MoveAside

LEMMA PlaceSteps ==
  ASSUME TypeOK, Place
  PROVE  /\ pc = "Place" /\ SameBase /\ UNCHANGED <<torn, registered, back>> /\ u'.moved = u.moved
         /\ \/ u.n > Len(Payload) /\ FilesStay /\ pc' = "Register" /\ UNCHANGED u
            \/ /\ u.n \in 1..Len(Payload) /\ UNCHANGED pc /\ u'.n = u.n + 1
               /\ \A f \in Files : live'[f] = IF f = Payload[u.n] THEN New ELSE live[f]
               /\ u'.placed = u.placed \cup {Payload[u.n]}
            \/ FilesStay /\ WentBack
<1>1. pc = "Place" /\ UNCHANGED <<torn, registered, back>> /\ SameBase /\ u'.moved = u.moved
  BY ZenonT(30) DEF Place, GoBack, Enter, SameBase, TypeOK, AttemptOK, Remembered
<1>2. CASE Past /\ Enter("Register") /\ UNCHANGED <<live, u>>
  BY <1>1, <1>2 DEF Past, Enter, FilesStay
<1>3. CASE /\ ~Past /\ live' = [live EXCEPT ![File] = New]
           /\ u' = [u EXCEPT !.n = Next1, !.placed = @ \cup {File}] /\ UNCHANGED <<pc, torn>>
  <2>1. u'.n = u.n + 1 /\ u'.placed = u.placed \cup {File}
    BY <1>3 DEF Next1
  <2>2. \A f \in Files : live'[f] = IF f = File THEN New ELSE live[f]
    BY <1>3 DEF TypeOK
  <2> QED BY <1>1, <1>3, <2>1, <2>2, TheNextFile DEF File
<1>4. CASE GoBack /\ UNCHANGED live
  BY <1>1, <1>4 DEF GoBack, WentBack, FilesStay
<1> QED BY <1>2, <1>3, <1>4 DEF Place

LEMMA UndoSteps ==
  ASSUME TypeOK, Undo
  PROVE  /\ pc = "Undo" /\ SameBase /\ UNCHANGED <<torn, registered, pc>>
         /\ u'.moved = u.moved /\ u'.placed = u.placed /\ u'.inner = u.inner
         /\ u.n \in 1..Len(Payload) /\ u'.n = u.n + 1 /\ Payload[u.n] \in Files
         /\ \A f \in Files : f # Payload[u.n] => live'[f] = live[f] /\ back'[f] = back[f]
         /\ \/ UNCHANGED <<live, back>> /\ u'.ok = u.ok /\ ~Undone(Payload[u.n])
            \/ /\ Undone(Payload[u.n]) /\ ~InUse(Payload[u.n]) /\ u'.ok = u.ok
               /\ live'[Payload[u.n]] = Former(Payload[u.n])
               /\ Payload[u.n] \notin u.moved => UNCHANGED back
            \/ /\ Undone(Payload[u.n]) /\ ~u'.ok /\ UNCHANGED back
               /\ \/ UNCHANGED live
                  \/ ~InUse(Payload[u.n]) /\ Payload[u.n] \in u.moved /\ live'[Payload[u.n]] = Absent
<1>1. ~Past /\ u.n \in 1..Len(Payload) /\ File \in Files /\ File = Payload[u.n]
  BY TheNextFile DEF Undo, File
<1>2. pc = "Undo" /\ UNCHANGED <<torn, registered, pc>>
  BY DEF Undo
<1>3. CASE ~Undone(File) /\ UNCHANGED <<live, back>> /\ u' = [u EXCEPT !.n = Next1]
  BY <1>1, <1>2, <1>3 DEF Next1, SameBase
<1>4. CASE /\ Undone(File) /\ ~InUse(File)
           /\ live' = [live EXCEPT ![File] = Former(File)]
           /\ back' = [back EXCEPT ![File] = IF File \in u.moved THEN Absent ELSE back[File]]
           /\ u' = [u EXCEPT !.n = Next1]
  <2>1. /\ u'.moved = u.moved /\ u'.placed = u.placed /\ u'.inner = u.inner /\ u'.ok = u.ok
        /\ u'.n = u.n + 1 /\ SameBase
    BY <1>4 DEF Next1, SameBase
  <2>2. live'[File] = Former(File) /\ \A f \in Files : f # File => live'[f] = live[f] /\ back'[f] = back[f]
    BY <1>1, <1>4 DEF TypeOK
  <2>3. File \notin u.moved => UNCHANGED back
    BY <1>1, <1>4 DEF TypeOK
  <2> QED BY <1>1, <1>2, <1>4, <2>1, <2>2, <2>3
<1>5. CASE /\ Undone(File)
           /\ u' = [u EXCEPT !.n = Next1, !.ok = FALSE] /\ UNCHANGED back
           /\ live' \in {live} \cup (IF InUse(File) \/ File \notin u.moved THEN {} ELSE {[live EXCEPT ![File] = Absent]})
  <2>1. /\ u'.moved = u.moved /\ u'.placed = u.placed /\ u'.inner = u.inner /\ ~u'.ok
        /\ u'.n = u.n + 1 /\ SameBase
    BY <1>5 DEF Next1, SameBase
  <2>2. UNCHANGED live \/ (~InUse(File) /\ File \in u.moved /\ live' = [live EXCEPT ![File] = Absent])
    BY <1>5
  <2>3. /\ UNCHANGED live \/ (~InUse(File) /\ File \in u.moved /\ live'[File] = Absent)
        /\ \A f \in Files : f # File => live'[f] = live[f]
    BY <1>1, <2>2 DEF TypeOK
  <2> QED BY <1>1, <1>2, <1>5, <2>1, <2>3
<1> QED BY <1>3, <1>4, <1>5 DEF Undo

LEMMA UndoEndSteps ==
  ASSUME TypeOK, UndoEnds
  PROVE  /\ pc = "Undo" /\ u.n > Len(Payload) /\ UNCHANGED <<live, back, run>> /\ (torn => torn')
         /\ u'.installed = u.installed /\ u'.saved = u.saved /\ u'.before = u.before
         /\ \/ /\ u'.moved = {} /\ u'.placed = {} /\ ~u'.inner /\ u'.ok
               /\ ~torn' => u.ok /\ ~torn /\ registered' = u.saved
               /\ \/ u.inner /\ pc' = "Rollback" /\ u'.way = u.way
                  \/ ~u.inner /\ pc' = "RelaunchRequired" /\ u'.way = "back"
            \/ /\ pc' = "Idle" /\ torn' /\ u'.result = "RollbackFailed" /\ u'.way = u.way
               /\ u'.moved = u.moved /\ u'.placed = u.placed
<1>1. PICK restored \in BOOLEAN :
        /\ registered' = IF restored THEN u.saved ELSE registered
        /\ torn' = (torn \/ ~(u.ok /\ restored))
        /\ IF u.inner \/ (u.ok /\ restored)
             THEN /\ pc' = IF u.inner THEN "Rollback" ELSE "RelaunchRequired"
                  /\ u' = [u EXCEPT !.inner = FALSE, !.n = 1, !.ok = TRUE, !.moved = {}, !.placed = {},
                                    !.way = IF u.inner THEN u.way ELSE "back"]
             ELSE pc' = "Idle" /\ u' = [u EXCEPT !.result = "RollbackFailed"]
  BY DEF UndoEnds
<1>2. pc = "Undo" /\ u.n > Len(Payload) /\ UNCHANGED <<live, back, run>>
  BY DEF UndoEnds, Past, Quiet
<1>3. CASE u.inner \/ (u.ok /\ restored)
  <2>1. /\ u'.moved = {} /\ u'.placed = {} /\ ~u'.inner /\ u'.ok /\ u'.way = IF u.inner THEN u.way ELSE "back"
        /\ u'.installed = u.installed /\ u'.saved = u.saved /\ u'.before = u.before
    BY ZenonT(30), <1>1, <1>3 DEF TypeOK, AttemptOK, Remembered
  <2> QED BY <1>1, <1>2, <1>3, <2>1
<1>4. CASE ~(u.inner \/ (u.ok /\ restored))
  <2>1. /\ u'.moved = u.moved /\ u'.placed = u.placed /\ u'.way = u.way /\ u'.result = "RollbackFailed"
        /\ u'.installed = u.installed /\ u'.saved = u.saved /\ u'.before = u.before
    BY <1>1, <1>4 DEF TypeOK, AttemptOK, Remembered
  <2> QED BY <1>1, <1>2, <1>4, <2>1
<1> QED BY <1>3, <1>4

LEMMA FilesInit == Init => FilesInv
<1> SUFFICES ASSUME Init PROVE FilesInv
  OBVIOUS
<1>1. CallerInv
  BY CallerInit
<1>2. \A f \in Kept : live[f] = Old
  BY DEF Init, Kept
<1>3. u.moved = {} /\ u.placed = {} /\ pc = "Idle" /\ ~torn
  BY DEF Init, Attempt
<1> QED BY <1>1, <1>2, <1>3 DEF FilesInv, TornIsLast, UnmovedAreThere, NothingUndone, PlacedWereMoved, CopiesAreThere, SwappedAreNew, Swapped, Ahead, NothingIsLost, Kept, Absent, Old

(* An attempt that left files undone is the last, and has nothing of them in *)
(* memory while it ends.                                                     *)
LEMMA TornStep == ~RetryTorn /\ FilesInv /\ [Next]_vars => TornIsLast'
<1> SUFFICES ASSUME ~RetryTorn, FilesInv, [Next]_vars PROVE TornIsLast'
  OBVIOUS
<1> USE DEF Stays, Quiet, Handed, disk
<1>1. ASSUME NEW i \in Images, Start(i) PROVE TornIsLast'
  BY <1>1 DEF Start, Attempt, TornIsLast
<1>2. CASE CallerAnswers
  BY <1>2 DEF CallerAnswers, TornIsLast, FilesInv
<1>3. CASE CallerGivesUp
  BY <1>3 DEF CallerGivesUp, TornIsLast, FilesInv
<1>4. CASE CallerCloses
  BY <1>4 DEF CallerCloses, TornIsLast, FilesInv
<1>5. ASSUME NEW i \in Images, Closes(i) PROVE TornIsLast'
  BY <1>5 DEF Closes, TornIsLast, FilesInv
<1>6. ASSUME NEW i \in Images, CarriesOn(i) PROVE TornIsLast'
  BY <1>6 DEF CarriesOn, TornIsLast, FilesInv
<1>7. ASSUME NEW i \in Images, UserStarts(i) PROVE TornIsLast'
  BY <1>7 DEF UserStarts, TornIsLast, FilesInv
<1>8. CASE Killed
  BY <1>8 DEF Killed, TornIsLast
<1>9. CASE CheckRequested
  BY <1>9 DEF CheckRequested, Finish, Enter, TornIsLast, FilesInv, CallerInv, TypeOK, AttemptOK, Remembered, WayAndPlace, Early, Swapped, Ahead, Undoing
<1>10. CASE Download
  BY <1>10 DEF Download, Abandon, Enter, TornIsLast, FilesInv, CallerInv, TypeOK, AttemptOK, Remembered, WayAndPlace, Early, Swapped, Ahead, Undoing
<1>11. CASE Verify
  BY <1>11 DEF Verify, Captured, Abandon, Enter, TornIsLast, FilesInv, CallerInv, TypeOK, AttemptOK, Remembered, WayAndPlace, Early, Swapped, Ahead, Undoing
<1>12. CASE Prepare
  BY <1>12 DEF Prepare, MayStop, Abandon, Enter, TornIsLast, FilesInv, CallerInv, TypeOK, AttemptOK, Remembered, WayAndPlace, Early, Swapped, Ahead, Undoing
<1>13. CASE Quiesce
  BY <1>13 DEF Quiesce, Abandon, Enter, TornIsLast, FilesInv, CallerInv, TypeOK, AttemptOK, Remembered, WayAndPlace, Early, Swapped, Ahead, Undoing
<1>14. CASE MoveAside
  BY <1>14 DEF MoveAside, GoBack, Enter, Next1, TornIsLast, FilesInv, CallerInv, TypeOK, AttemptOK, Remembered, WayAndPlace, Early, Swapped, Ahead, Undoing
<1>15. CASE Place
  BY <1>15 DEF Place, GoBack, Enter, Next1, TornIsLast, FilesInv, CallerInv, TypeOK, AttemptOK, Remembered, WayAndPlace, Early, Swapped, Ahead, Undoing
<1>16. CASE Register
  BY <1>16 DEF Register, GoBack, Enter, TornIsLast, FilesInv, CallerInv, TypeOK, AttemptOK, Remembered, WayAndPlace, Early, Swapped, Ahead, Undoing
<1>17. CASE RelaunchRequired
  BY <1>17, RequiredKeeps DEF SameFiles, SameBase, TornIsLast, FilesInv, CallerInv, Ahead, Undoing
<1>18. CASE HealthCheck
  BY <1>18, HealthKeeps DEF SameFiles, SameBase, TornIsLast, FilesInv, CallerInv, Ahead, Undoing
<1>19. CASE Commit
  BY <1>19 DEF Commit, Enter, TornIsLast, FilesInv, CallerInv, TypeOK, AttemptOK, Remembered, WayAndPlace, Early, Swapped, Undoing
<1>20. CASE RelaunchOptional
  BY <1>20, AfterKeeps DEF RelaunchOptional, TornIsLast
<1>21. CASE ReleaseBeforeRollback
  BY <1>21 DEF ReleaseBeforeRollback, Refuse, Finish, Enter, TornIsLast, FilesInv, CallerInv, TypeOK, AttemptOK, Remembered, WayAndPlace, Early, Swapped, Ahead, Undoing
<1>22. CASE Probe
  BY <1>22 DEF Probe, Refuse, Finish, Enter, TornIsLast, FilesInv, CallerInv, TypeOK, AttemptOK, Remembered, WayAndPlace, Early, Swapped, Ahead, Undoing
<1>23. CASE Undo
  BY <1>23 DEF Undo, Next1, TornIsLast, FilesInv, CallerInv, TypeOK, AttemptOK, Remembered, WayAndPlace, Early
<1>24. CASE UndoEnds
  BY <1>24 DEF UndoEnds, TornIsLast, FilesInv, CallerInv, TypeOK, AttemptOK, Remembered, WayAndPlace, Early, Swapped, Ahead, Undoing
<1>25. CASE UNCHANGED vars
  BY <1>25 DEF vars, TornIsLast, FilesInv
<1> QED BY <1>1, <1>2, <1>3, <1>4, <1>5, <1>6, <1>7, <1>8, <1>9, <1>10, <1>11, <1>12, <1>13, <1>14, <1>15, <1>16, <1>17, <1>18, <1>19, <1>20, <1>21, <1>22, <1>23, <1>24, <1>25 DEF Next, Updater

LEMMA UndoneStep == ~RetryTorn /\ FilesInv /\ [Next]_vars => NothingUndone'
<1> SUFFICES ASSUME ~RetryTorn, FilesInv, [Next]_vars PROVE NothingUndone'
  OBVIOUS
<1> USE DEF Stays, Quiet, Handed, disk
<1>1. ASSUME NEW i \in Images, Start(i) PROVE NothingUndone'
  BY <1>1 DEF Start, Attempt, NothingUndone
<1>2. CASE CallerAnswers
  BY <1>2 DEF CallerAnswers, NothingUndone, TornIsLast, FilesInv, CallerInv, TypeOK, AttemptOK, Remembered, WayAndPlace, Early, Swapped
<1>3. CASE CallerGivesUp
  BY <1>3 DEF CallerGivesUp, NothingUndone, TornIsLast, FilesInv, CallerInv, TypeOK, AttemptOK, Remembered, WayAndPlace, Early, Swapped
<1>4. CASE CallerCloses
  BY <1>4 DEF CallerCloses, NothingUndone, TornIsLast, FilesInv, CallerInv, TypeOK, AttemptOK, Remembered, WayAndPlace, Early, Swapped
<1>5. ASSUME NEW i \in Images, Closes(i) PROVE NothingUndone'
  BY <1>5 DEF Closes, NothingUndone, TornIsLast, FilesInv, CallerInv, TypeOK, AttemptOK, Remembered, WayAndPlace, Early, Swapped
<1>6. ASSUME NEW i \in Images, CarriesOn(i) PROVE NothingUndone'
  BY <1>6 DEF CarriesOn, NothingUndone, TornIsLast, FilesInv, CallerInv, TypeOK, AttemptOK, Remembered, WayAndPlace, Early, Swapped
<1>7. ASSUME NEW i \in Images, UserStarts(i) PROVE NothingUndone'
  BY <1>7 DEF UserStarts, NothingUndone, TornIsLast, FilesInv, CallerInv, TypeOK, AttemptOK, Remembered, WayAndPlace, Early, Swapped
<1>8. CASE Killed
  BY <1>8 DEF Killed, NothingUndone, TornIsLast, FilesInv, CallerInv, TypeOK, AttemptOK, Remembered, WayAndPlace, Early
<1>9. CASE CheckRequested
  BY <1>9 DEF CheckRequested, Finish, Enter, NothingUndone, TornIsLast, FilesInv, CallerInv, TypeOK, AttemptOK, Remembered, WayAndPlace, Early
<1>10. CASE Download
  BY <1>10 DEF Download, Abandon, Enter, NothingUndone, TornIsLast, FilesInv, CallerInv, TypeOK, AttemptOK, Remembered, WayAndPlace, Early
<1>11. CASE Verify
  BY <1>11 DEF Verify, Captured, Abandon, Enter, NothingUndone, TornIsLast, FilesInv, CallerInv, TypeOK, AttemptOK, Remembered, WayAndPlace, Early, Swapped
<1>12. CASE Prepare
  BY <1>12 DEF Prepare, MayStop, Abandon, Enter, NothingUndone, TornIsLast, FilesInv, CallerInv, TypeOK, AttemptOK, Remembered, WayAndPlace, Early
<1>13. CASE Quiesce
  BY <1>13 DEF Quiesce, Abandon, Enter, NothingUndone, TornIsLast, FilesInv, CallerInv, TypeOK, AttemptOK, Remembered, WayAndPlace, Early
<1>14. CASE MoveAside
  BY <1>14 DEF MoveAside, GoBack, Enter, Next1, NothingUndone, TornIsLast, FilesInv, CallerInv, TypeOK, AttemptOK, Remembered, WayAndPlace, Early, Swapped, Undoing
<1>15. CASE Place
  BY <1>15 DEF Place, GoBack, Enter, Next1, NothingUndone, TornIsLast, FilesInv, CallerInv, TypeOK, AttemptOK, Remembered, WayAndPlace, Early, Swapped, Undoing
<1>16. CASE Register
  BY <1>16 DEF Register, GoBack, Enter, NothingUndone, TornIsLast, FilesInv, CallerInv, TypeOK, AttemptOK, Remembered, WayAndPlace, Early, Swapped, Ahead, Undoing
<1>17. CASE RelaunchRequired
  BY <1>17, AfterKeeps DEF RelaunchRequired, Enter, NothingUndone, TornIsLast, FilesInv, CallerInv, TypeOK, AttemptOK, Remembered, WayAndPlace, Early, Swapped, Ahead, Undoing
<1>18. CASE HealthCheck
  BY <1>18 DEF HealthCheck, GoBack, Enter, NothingUndone, TornIsLast, FilesInv, CallerInv, TypeOK, AttemptOK, Remembered, WayAndPlace, Early, Swapped, Undoing
<1>19. CASE Commit
  BY <1>19 DEF Commit, Enter, NothingUndone
<1>20. CASE RelaunchOptional
  BY <1>20, AfterKeeps DEF RelaunchOptional, NothingUndone, TornIsLast, FilesInv, CallerInv, TypeOK, AttemptOK, Remembered, WayAndPlace
<1>21. CASE ReleaseBeforeRollback
  BY <1>21 DEF ReleaseBeforeRollback, Refuse, Finish, Enter, NothingUndone, TornIsLast, FilesInv, CallerInv, TypeOK, AttemptOK, Remembered, WayAndPlace, Early, Swapped, Ahead, Undoing
<1>22. CASE Probe
  BY <1>22 DEF Probe, Refuse, Finish, Enter, NothingUndone, TornIsLast, FilesInv, CallerInv, TypeOK, AttemptOK, Remembered, WayAndPlace, Early, Swapped, Ahead, Undoing
<1>23. CASE Undo
  BY <1>23 DEF Undo, Next1, NothingUndone, TornIsLast, FilesInv, CallerInv, TypeOK, AttemptOK, Remembered, WayAndPlace, Early, Swapped
<1>24. CASE UndoEnds
  BY ZenonT(30), <1>24 DEF UndoEnds, NothingUndone, TornIsLast, FilesInv, CallerInv, TypeOK, AttemptOK, Remembered, WayAndPlace, Early, Swapped, Ahead
<1>25. CASE UNCHANGED vars
  BY <1>25 DEF vars, NothingUndone, TornIsLast, FilesInv, CallerInv, TypeOK, AttemptOK, Remembered, WayAndPlace, Early, Swapped
<1> QED BY <1>1, <1>2, <1>3, <1>4, <1>5, <1>6, <1>7, <1>8, <1>9, <1>10, <1>11, <1>12, <1>13, <1>14, <1>15, <1>16, <1>17, <1>18, <1>19, <1>20, <1>21, <1>22, <1>23, <1>24, <1>25 DEF Next, Updater

LEMMA UnmovedStep == ~RetryTorn /\ FilesInv /\ [Next]_vars => UnmovedAreThere'
<1> SUFFICES ASSUME ~RetryTorn, FilesInv, [Next]_vars PROVE UnmovedAreThere'
  OBVIOUS
<1> USE DEF Stays, Quiet, Handed, disk
<1>1. ASSUME NEW i \in Images, Start(i) PROVE UnmovedAreThere'
  BY <1>1, DeletedOnly DEF Start, Attempt, SweepStaleBackups, UnmovedAreThere, TornIsLast, NothingUndone, PlacedWereMoved, CopiesAreThere, SwappedAreNew, NothingIsLost, Kept, Absent, New, Past, FilesInv, CallerInv, TypeOK, AttemptOK, Remembered, WayAndPlace, Early, Swapped, Undoing
<1>2. CASE CallerAnswers
  BY <1>2 DEF CallerAnswers, UnmovedAreThere, TornIsLast, NothingUndone, PlacedWereMoved, CopiesAreThere, SwappedAreNew, NothingIsLost, Kept, Absent, New, Past, FilesInv
<1>3. CASE CallerGivesUp
  BY <1>3 DEF CallerGivesUp, UnmovedAreThere, TornIsLast, NothingUndone, PlacedWereMoved, CopiesAreThere, SwappedAreNew, NothingIsLost, Kept, Absent, New, Past, FilesInv
<1>4. CASE CallerCloses
  BY <1>4 DEF CallerCloses, UnmovedAreThere, TornIsLast, NothingUndone, PlacedWereMoved, CopiesAreThere, SwappedAreNew, NothingIsLost, Kept, Absent, New, Past, FilesInv
<1>5. ASSUME NEW i \in Images, Closes(i) PROVE UnmovedAreThere'
  BY <1>5 DEF Closes, UnmovedAreThere, TornIsLast, NothingUndone, PlacedWereMoved, CopiesAreThere, SwappedAreNew, NothingIsLost, Kept, Absent, New, Past, FilesInv
<1>6. ASSUME NEW i \in Images, CarriesOn(i) PROVE UnmovedAreThere'
  BY <1>6 DEF CarriesOn, UnmovedAreThere, TornIsLast, NothingUndone, PlacedWereMoved, CopiesAreThere, SwappedAreNew, NothingIsLost, Kept, Absent, New, Past, FilesInv
<1>7. ASSUME NEW i \in Images, UserStarts(i) PROVE UnmovedAreThere'
  BY <1>7 DEF UserStarts, UnmovedAreThere, TornIsLast, NothingUndone, PlacedWereMoved, CopiesAreThere, SwappedAreNew, NothingIsLost, Kept, Absent, New, Past, FilesInv
<1>8. CASE Killed
  BY <1>8 DEF Killed, UnmovedAreThere, TornIsLast, NothingUndone, PlacedWereMoved, CopiesAreThere, SwappedAreNew, NothingIsLost, Kept, Absent, New, Past, FilesInv, CallerInv, TypeOK
<1>9. CASE CheckRequested
  BY <1>9 DEF CheckRequested, Finish, Enter, UnmovedAreThere, TornIsLast, NothingUndone, PlacedWereMoved, CopiesAreThere, SwappedAreNew, NothingIsLost, Kept, Absent, New, Past, FilesInv, CallerInv, TypeOK, AttemptOK, Remembered
<1>10. CASE Download
  BY <1>10 DEF Download, Abandon, Enter, UnmovedAreThere, TornIsLast, NothingUndone, PlacedWereMoved, CopiesAreThere, SwappedAreNew, NothingIsLost, Kept, Absent, New, Past, FilesInv, CallerInv, TypeOK, AttemptOK, Remembered
<1>11. CASE Verify
  BY <1>11 DEF Verify, Captured, Abandon, Enter, UnmovedAreThere, TornIsLast, NothingUndone, PlacedWereMoved, CopiesAreThere, SwappedAreNew, NothingIsLost, Kept, Absent, New, Past, FilesInv, CallerInv, TypeOK, AttemptOK, Remembered, WayAndPlace, Early
<1>12. CASE Prepare
  BY <1>12 DEF Prepare, MayStop, Abandon, Enter, UnmovedAreThere, TornIsLast, NothingUndone, PlacedWereMoved, CopiesAreThere, SwappedAreNew, NothingIsLost, Kept, Absent, New, Past, FilesInv, CallerInv, TypeOK, AttemptOK, Remembered
<1>13. CASE Quiesce
  BY <1>13 DEF Quiesce, Abandon, Enter, UnmovedAreThere, TornIsLast, NothingUndone, PlacedWereMoved, CopiesAreThere, SwappedAreNew, NothingIsLost, Kept, Absent, New, Past, FilesInv, CallerInv, TypeOK, AttemptOK, Remembered
<1>14. CASE MoveAside
  BY <1>14, MoveAsideSteps, PayloadFacts DEF FilesStay, WentBack, SameBase, FilesInv, CallerInv, WayAndPlace, UnmovedAreThere, PlacedWereMoved, CopiesAreThere, TornIsLast, NothingUndone, Swapped, Ahead, Kept
<1>15. CASE Place
  BY <1>15, PlaceSteps, PayloadFacts DEF FilesStay, WentBack, SameBase, FilesInv, CallerInv, WayAndPlace, UnmovedAreThere, PlacedWereMoved
<1>16. CASE Register
  BY <1>16 DEF Register, GoBack, Enter, UnmovedAreThere, TornIsLast, NothingUndone, PlacedWereMoved, CopiesAreThere, SwappedAreNew, NothingIsLost, Kept, Absent, New, Past, FilesInv, CallerInv, TypeOK, AttemptOK, Remembered, WayAndPlace, Early
<1>17. CASE RelaunchRequired
  BY <1>17, RequiredKeeps DEF SameFiles, SameBase, UnmovedAreThere, TornIsLast, NothingUndone, PlacedWereMoved, CopiesAreThere, SwappedAreNew, NothingIsLost, Kept, Absent, New, Past, FilesInv, CallerInv
<1>18. CASE HealthCheck
  BY <1>18, HealthKeeps DEF SameFiles, SameBase, UnmovedAreThere, TornIsLast, NothingUndone, PlacedWereMoved, CopiesAreThere, SwappedAreNew, NothingIsLost, Kept, Absent, New, Past, FilesInv, CallerInv
<1>19. CASE Commit
  BY <1>19, DeletedOnly DEF Commit, Enter, UnmovedAreThere, TornIsLast, NothingUndone, PlacedWereMoved, CopiesAreThere, SwappedAreNew, NothingIsLost, Kept, Absent, New, Past, FilesInv, CallerInv, TypeOK, AttemptOK, Remembered, WayAndPlace, Early, Swapped
<1>20. CASE RelaunchOptional
  BY <1>20, OptionalKeeps DEF SameFiles, SameBase, UnmovedAreThere, TornIsLast, NothingUndone, PlacedWereMoved, CopiesAreThere, SwappedAreNew, NothingIsLost, Kept, Absent, New, Past, FilesInv, CallerInv
<1>21. CASE ReleaseBeforeRollback
  BY <1>21 DEF ReleaseBeforeRollback, Refuse, Finish, Enter, UnmovedAreThere, TornIsLast, NothingUndone, PlacedWereMoved, CopiesAreThere, SwappedAreNew, NothingIsLost, Kept, Absent, New, Past, FilesInv, CallerInv, TypeOK, AttemptOK, Remembered, WayAndPlace, Early
<1>22. CASE Probe
  BY <1>22 DEF Probe, Refuse, Finish, Enter, UnmovedAreThere, TornIsLast, NothingUndone, PlacedWereMoved, CopiesAreThere, SwappedAreNew, NothingIsLost, Kept, Absent, New, Past, FilesInv, CallerInv, TypeOK, AttemptOK, Remembered
<1>23. CASE Undo
  BY <1>23, UndoSteps, PayloadFacts DEF Former, Undone, SameBase, FilesInv, CallerInv, WayAndPlace, UnmovedAreThere, PlacedWereMoved, CopiesAreThere, TornIsLast, NothingUndone, Swapped, Ahead, Undoing, Kept
<1>24. CASE UndoEnds
  <2> SUFFICES ASSUME ~torn', NEW f \in Kept, f \notin u'.moved PROVE live'[f] # Absent
    BY DEF UnmovedAreThere
  <2>0. TypeOK /\ f \in Files
    BY DEF FilesInv, CallerInv, Kept
  <2>1. pc = "Undo" /\ u.n > Len(Payload) /\ u.ok /\ ~torn /\ UNCHANGED live
    BY <1>24, <2>0, UndoEndSteps
  <2>2. CASE f \notin u.moved
    BY <2>1, <2>2 DEF FilesInv, UnmovedAreThere
  <2>3. CASE f \in u.moved
    <3>1. PICK m \in 1..Len(Payload) : Payload[m] = f
      BY <2>0, PayloadFacts
    <3>2. m < u.n
      BY <2>0, <2>1, PayloadFacts DEF TypeOK, AttemptOK
    <3> QED BY <2>1, <2>3, <3>1, <3>2 DEF FilesInv, CopiesAreThere
  <2> QED BY <2>2, <2>3
<1>25. CASE UNCHANGED vars
  BY <1>25 DEF vars, UnmovedAreThere, TornIsLast, NothingUndone, PlacedWereMoved, CopiesAreThere, SwappedAreNew, NothingIsLost, Kept, Absent, New, Past, FilesInv
<1> QED BY <1>1, <1>2, <1>3, <1>4, <1>5, <1>6, <1>7, <1>8, <1>9, <1>10, <1>11, <1>12, <1>13, <1>14, <1>15, <1>16, <1>17, <1>18, <1>19, <1>20, <1>21, <1>22, <1>23, <1>24, <1>25 DEF Next, Updater

LEMMA SwappedStep == ~RetryTorn /\ FilesInv /\ [Next]_vars => SwappedAreNew'
<1> SUFFICES ASSUME ~RetryTorn, FilesInv, [Next]_vars PROVE SwappedAreNew'
  OBVIOUS
<1> USE DEF Stays, Quiet, Handed, disk
<1>1. ASSUME NEW i \in Images, Start(i) PROVE SwappedAreNew'
  BY <1>1, DeletedOnly DEF Start, Attempt, SweepStaleBackups, SwappedAreNew, TornIsLast, NothingUndone, UnmovedAreThere, PlacedWereMoved, CopiesAreThere, NothingIsLost, Kept, Absent, New, Past, FilesInv, CallerInv, TypeOK, AttemptOK, Remembered, WayAndPlace, Early, Swapped, Ahead
<1>2. CASE CallerAnswers
  BY <1>2 DEF CallerAnswers, SwappedAreNew, TornIsLast, NothingUndone, UnmovedAreThere, PlacedWereMoved, CopiesAreThere, NothingIsLost, Kept, Absent, New, Past, FilesInv, CallerInv, TypeOK, AttemptOK, Remembered, WayAndPlace, Early, Swapped
<1>3. CASE CallerGivesUp
  BY <1>3 DEF CallerGivesUp, SwappedAreNew, TornIsLast, NothingUndone, UnmovedAreThere, PlacedWereMoved, CopiesAreThere, NothingIsLost, Kept, Absent, New, Past, FilesInv, CallerInv, TypeOK, AttemptOK, Remembered, WayAndPlace, Early, Swapped
<1>4. CASE CallerCloses
  BY <1>4 DEF CallerCloses, SwappedAreNew, TornIsLast, NothingUndone, UnmovedAreThere, PlacedWereMoved, CopiesAreThere, NothingIsLost, Kept, Absent, New, Past, FilesInv, CallerInv, TypeOK, AttemptOK, Remembered, WayAndPlace, Early, Swapped
<1>5. ASSUME NEW i \in Images, Closes(i) PROVE SwappedAreNew'
  BY <1>5 DEF Closes, SwappedAreNew, TornIsLast, NothingUndone, UnmovedAreThere, PlacedWereMoved, CopiesAreThere, NothingIsLost, Kept, Absent, New, Past, FilesInv, CallerInv, TypeOK, AttemptOK, Remembered, WayAndPlace, Early, Swapped
<1>6. ASSUME NEW i \in Images, CarriesOn(i) PROVE SwappedAreNew'
  BY <1>6 DEF CarriesOn, SwappedAreNew, TornIsLast, NothingUndone, UnmovedAreThere, PlacedWereMoved, CopiesAreThere, NothingIsLost, Kept, Absent, New, Past, FilesInv, CallerInv, TypeOK, AttemptOK, Remembered, WayAndPlace, Early, Swapped
<1>7. ASSUME NEW i \in Images, UserStarts(i) PROVE SwappedAreNew'
  BY <1>7 DEF UserStarts, SwappedAreNew, TornIsLast, NothingUndone, UnmovedAreThere, PlacedWereMoved, CopiesAreThere, NothingIsLost, Kept, Absent, New, Past, FilesInv, CallerInv, TypeOK, AttemptOK, Remembered, WayAndPlace, Early, Swapped
<1>8. CASE Killed
  BY <1>8 DEF Killed, SwappedAreNew, TornIsLast, NothingUndone, UnmovedAreThere, PlacedWereMoved, CopiesAreThere, NothingIsLost, Kept, Absent, New, Past, FilesInv, CallerInv, TypeOK, AttemptOK, Remembered, WayAndPlace, Early, Swapped, Ahead
<1>9. CASE CheckRequested
  BY <1>9 DEF CheckRequested, Finish, Enter, SwappedAreNew, TornIsLast, NothingUndone, UnmovedAreThere, PlacedWereMoved, CopiesAreThere, NothingIsLost, Kept, Absent, New, Past, FilesInv, CallerInv, TypeOK, AttemptOK, Remembered, WayAndPlace, Early, Swapped, Ahead
<1>10. CASE Download
  BY <1>10 DEF Download, Abandon, Enter, SwappedAreNew, TornIsLast, NothingUndone, UnmovedAreThere, PlacedWereMoved, CopiesAreThere, NothingIsLost, Kept, Absent, New, Past, FilesInv, CallerInv, TypeOK, AttemptOK, Remembered, WayAndPlace, Early, Swapped, Ahead
<1>11. CASE Verify
  BY <1>11 DEF Verify, Captured, Abandon, Enter, SwappedAreNew, TornIsLast, NothingUndone, UnmovedAreThere, PlacedWereMoved, CopiesAreThere, NothingIsLost, Kept, Absent, New, Past, FilesInv, CallerInv, TypeOK, AttemptOK, Remembered, WayAndPlace, Early, Swapped, Ahead
<1>12. CASE Prepare
  BY <1>12 DEF Prepare, MayStop, Abandon, Enter, SwappedAreNew, TornIsLast, NothingUndone, UnmovedAreThere, PlacedWereMoved, CopiesAreThere, NothingIsLost, Kept, Absent, New, Past, FilesInv, CallerInv, TypeOK, AttemptOK, Remembered, WayAndPlace, Early, Swapped, Ahead
<1>13. CASE Quiesce
  BY <1>13 DEF Quiesce, Abandon, Enter, SwappedAreNew, TornIsLast, NothingUndone, UnmovedAreThere, PlacedWereMoved, CopiesAreThere, NothingIsLost, Kept, Absent, New, Past, FilesInv, CallerInv, TypeOK, AttemptOK, Remembered, WayAndPlace, Early, Swapped, Ahead
<1>14. CASE MoveAside
  BY <1>14, TheNextFile, PayloadFacts DEF MoveAside, GoBack, Enter, Next1, IsThere, SwappedAreNew, TornIsLast, NothingUndone, UnmovedAreThere, PlacedWereMoved, CopiesAreThere, NothingIsLost, Kept, Absent, New, Past, FilesInv, CallerInv, TypeOK, AttemptOK, Remembered, WayAndPlace, Early, Swapped, Ahead
<1>15. CASE Place
  BY <1>15, TheNextFile, PayloadFacts DEF Place, GoBack, Enter, Next1, SwappedAreNew, TornIsLast, NothingUndone, UnmovedAreThere, PlacedWereMoved, CopiesAreThere, NothingIsLost, Kept, Absent, New, Past, FilesInv, CallerInv, TypeOK, AttemptOK, Remembered, WayAndPlace, Early, Swapped, Ahead
<1>16. CASE Register
  BY <1>16 DEF Register, GoBack, Enter, SwappedAreNew, TornIsLast, NothingUndone, UnmovedAreThere, PlacedWereMoved, CopiesAreThere, NothingIsLost, Kept, Absent, New, Past, FilesInv, CallerInv, TypeOK, AttemptOK, Remembered, WayAndPlace, Early, Swapped
<1>17. CASE RelaunchRequired
  BY <1>17, RequiredKeeps DEF SameFiles, SameBase, SwappedAreNew, TornIsLast, NothingUndone, UnmovedAreThere, PlacedWereMoved, CopiesAreThere, NothingIsLost, Kept, Absent, New, Past, FilesInv, CallerInv, TypeOK, AttemptOK, Remembered, WayAndPlace, Early, Swapped, Ahead
<1>18. CASE HealthCheck
  BY <1>18, HealthKeeps DEF SameFiles, SameBase, SwappedAreNew, TornIsLast, NothingUndone, UnmovedAreThere, PlacedWereMoved, CopiesAreThere, NothingIsLost, Kept, Absent, New, Past, FilesInv, CallerInv, TypeOK, AttemptOK, Remembered, WayAndPlace, Early, Swapped, Ahead
<1>19. CASE Commit
  BY <1>19, DeletedOnly DEF Commit, Enter, SwappedAreNew, TornIsLast, NothingUndone, UnmovedAreThere, PlacedWereMoved, CopiesAreThere, NothingIsLost, Kept, Absent, New, Past, FilesInv, CallerInv, TypeOK, AttemptOK, Remembered, WayAndPlace, Early, Swapped
<1>20. CASE RelaunchOptional
  BY <1>20, OptionalKeeps DEF SameFiles, SameBase, SwappedAreNew, TornIsLast, NothingUndone, UnmovedAreThere, PlacedWereMoved, CopiesAreThere, NothingIsLost, Kept, Absent, New, Past, FilesInv, CallerInv, TypeOK, AttemptOK, Remembered, WayAndPlace, Early, Swapped, Ahead
<1>21. CASE ReleaseBeforeRollback
  BY <1>21 DEF ReleaseBeforeRollback, Refuse, Finish, Enter, SwappedAreNew, TornIsLast, NothingUndone, UnmovedAreThere, PlacedWereMoved, CopiesAreThere, NothingIsLost, Kept, Absent, New, Past, FilesInv, CallerInv, TypeOK, AttemptOK, Remembered, WayAndPlace, Early, Swapped, Ahead
<1>22. CASE Probe
  BY <1>22 DEF Probe, Refuse, Finish, Enter, SwappedAreNew, TornIsLast, NothingUndone, UnmovedAreThere, PlacedWereMoved, CopiesAreThere, NothingIsLost, Kept, Absent, New, Past, FilesInv, CallerInv, TypeOK, AttemptOK, Remembered, WayAndPlace, Early, Swapped, Ahead
<1>23. CASE Undo
  BY <1>23, TheNextFile, PayloadFacts DEF Undo, Next1, Undone, Former, SwappedAreNew, TornIsLast, NothingUndone, UnmovedAreThere, PlacedWereMoved, CopiesAreThere, NothingIsLost, Kept, Absent, New, Past, FilesInv, CallerInv, TypeOK, AttemptOK, Remembered, WayAndPlace, Early, Swapped, Ahead
<1>24. CASE UndoEnds
  BY ZenonT(30), <1>24 DEF UndoEnds, SwappedAreNew, TornIsLast, NothingUndone, UnmovedAreThere, PlacedWereMoved, CopiesAreThere, NothingIsLost, Kept, Absent, New, Past, FilesInv, CallerInv, TypeOK, AttemptOK, Remembered, WayAndPlace, Early, Swapped, Ahead, Undoing
<1>25. CASE UNCHANGED vars
  BY <1>25 DEF vars, SwappedAreNew, TornIsLast, NothingUndone, UnmovedAreThere, PlacedWereMoved, CopiesAreThere, NothingIsLost, Kept, Absent, New, Past, FilesInv, CallerInv, TypeOK, AttemptOK, Remembered, WayAndPlace, Early, Swapped
<1> QED BY <1>1, <1>2, <1>3, <1>4, <1>5, <1>6, <1>7, <1>8, <1>9, <1>10, <1>11, <1>12, <1>13, <1>14, <1>15, <1>16, <1>17, <1>18, <1>19, <1>20, <1>21, <1>22, <1>23, <1>24, <1>25 DEF Next, Updater

LEMMA LostStep == ~RetryTorn /\ FilesInv /\ [Next]_vars => NothingIsLost'
<1> SUFFICES ASSUME ~RetryTorn, FilesInv, [Next]_vars PROVE NothingIsLost'
  OBVIOUS
<1> USE DEF Stays, Quiet, Handed, disk
<1>1. ASSUME NEW i \in Images, Start(i) PROVE NothingIsLost'
  BY <1>1, DeletedOnly DEF Start, Attempt, SweepStaleBackups, NothingIsLost, TornIsLast, NothingUndone, UnmovedAreThere, PlacedWereMoved, CopiesAreThere, SwappedAreNew, Kept, Absent, New, Past, FilesInv, CallerInv, TypeOK, AttemptOK, Remembered, WayAndPlace, Early, Swapped, Undoing
<1>2. CASE CallerAnswers
  BY <1>2 DEF CallerAnswers, NothingIsLost, TornIsLast, NothingUndone, UnmovedAreThere, PlacedWereMoved, CopiesAreThere, SwappedAreNew, Kept, Absent, New, Past, FilesInv
<1>3. CASE CallerGivesUp
  BY <1>3 DEF CallerGivesUp, NothingIsLost, TornIsLast, NothingUndone, UnmovedAreThere, PlacedWereMoved, CopiesAreThere, SwappedAreNew, Kept, Absent, New, Past, FilesInv
<1>4. CASE CallerCloses
  BY <1>4 DEF CallerCloses, NothingIsLost, TornIsLast, NothingUndone, UnmovedAreThere, PlacedWereMoved, CopiesAreThere, SwappedAreNew, Kept, Absent, New, Past, FilesInv
<1>5. ASSUME NEW i \in Images, Closes(i) PROVE NothingIsLost'
  BY <1>5 DEF Closes, NothingIsLost, TornIsLast, NothingUndone, UnmovedAreThere, PlacedWereMoved, CopiesAreThere, SwappedAreNew, Kept, Absent, New, Past, FilesInv
<1>6. ASSUME NEW i \in Images, CarriesOn(i) PROVE NothingIsLost'
  BY <1>6 DEF CarriesOn, NothingIsLost, TornIsLast, NothingUndone, UnmovedAreThere, PlacedWereMoved, CopiesAreThere, SwappedAreNew, Kept, Absent, New, Past, FilesInv
<1>7. ASSUME NEW i \in Images, UserStarts(i) PROVE NothingIsLost'
  BY <1>7 DEF UserStarts, NothingIsLost, TornIsLast, NothingUndone, UnmovedAreThere, PlacedWereMoved, CopiesAreThere, SwappedAreNew, Kept, Absent, New, Past, FilesInv
<1>8. CASE Killed
  BY <1>8 DEF Killed, NothingIsLost, TornIsLast, NothingUndone, UnmovedAreThere, PlacedWereMoved, CopiesAreThere, SwappedAreNew, Kept, Absent, New, Past, FilesInv
<1>9. CASE CheckRequested
  BY <1>9 DEF CheckRequested, Finish, Enter, NothingIsLost, TornIsLast, NothingUndone, UnmovedAreThere, PlacedWereMoved, CopiesAreThere, SwappedAreNew, Kept, Absent, New, Past, FilesInv
<1>10. CASE Download
  BY <1>10 DEF Download, Abandon, Enter, NothingIsLost, TornIsLast, NothingUndone, UnmovedAreThere, PlacedWereMoved, CopiesAreThere, SwappedAreNew, Kept, Absent, New, Past, FilesInv
<1>11. CASE Verify
  BY <1>11 DEF Verify, Captured, Abandon, Enter, NothingIsLost, TornIsLast, NothingUndone, UnmovedAreThere, PlacedWereMoved, CopiesAreThere, SwappedAreNew, Kept, Absent, New, Past, FilesInv
<1>12. CASE Prepare
  BY <1>12 DEF Prepare, MayStop, Abandon, Enter, NothingIsLost, TornIsLast, NothingUndone, UnmovedAreThere, PlacedWereMoved, CopiesAreThere, SwappedAreNew, Kept, Absent, New, Past, FilesInv
<1>13. CASE Quiesce
  BY <1>13 DEF Quiesce, Abandon, Enter, NothingIsLost, TornIsLast, NothingUndone, UnmovedAreThere, PlacedWereMoved, CopiesAreThere, SwappedAreNew, Kept, Absent, New, Past, FilesInv
<1>14. CASE MoveAside
  BY <1>14, TheNextFile, PayloadFacts DEF MoveAside, GoBack, Enter, Next1, IsThere, NothingIsLost, TornIsLast, NothingUndone, UnmovedAreThere, PlacedWereMoved, CopiesAreThere, SwappedAreNew, Kept, Absent, New, Past, FilesInv, CallerInv, TypeOK
<1>15. CASE Place
  BY <1>15, TheNextFile, PayloadFacts DEF Place, GoBack, Enter, Next1, NothingIsLost, TornIsLast, NothingUndone, UnmovedAreThere, PlacedWereMoved, CopiesAreThere, SwappedAreNew, Kept, Absent, New, Past, FilesInv
<1>16. CASE Register
  BY <1>16 DEF Register, GoBack, Enter, NothingIsLost, TornIsLast, NothingUndone, UnmovedAreThere, PlacedWereMoved, CopiesAreThere, SwappedAreNew, Kept, Absent, New, Past, FilesInv
<1>17. CASE RelaunchRequired
  BY <1>17, RequiredKeeps DEF SameFiles, SameBase, NothingIsLost, TornIsLast, NothingUndone, UnmovedAreThere, PlacedWereMoved, CopiesAreThere, SwappedAreNew, Kept, Absent, New, Past, FilesInv, CallerInv
<1>18. CASE HealthCheck
  BY <1>18, HealthKeeps DEF SameFiles, SameBase, NothingIsLost, TornIsLast, NothingUndone, UnmovedAreThere, PlacedWereMoved, CopiesAreThere, SwappedAreNew, Kept, Absent, New, Past, FilesInv, CallerInv
<1>19. CASE Commit
  BY <1>19, DeletedOnly DEF Commit, Enter, NothingIsLost, TornIsLast, NothingUndone, UnmovedAreThere, PlacedWereMoved, CopiesAreThere, SwappedAreNew, Kept, Absent, New, Past, FilesInv, CallerInv, TypeOK, AttemptOK, Remembered, WayAndPlace, Early, Swapped
<1>20. CASE RelaunchOptional
  BY <1>20, OptionalKeeps DEF SameFiles, SameBase, NothingIsLost, TornIsLast, NothingUndone, UnmovedAreThere, PlacedWereMoved, CopiesAreThere, SwappedAreNew, Kept, Absent, New, Past, FilesInv, CallerInv
<1>21. CASE ReleaseBeforeRollback
  BY <1>21 DEF ReleaseBeforeRollback, Refuse, Finish, Enter, NothingIsLost, TornIsLast, NothingUndone, UnmovedAreThere, PlacedWereMoved, CopiesAreThere, SwappedAreNew, Kept, Absent, New, Past, FilesInv
<1>22. CASE Probe
  BY <1>22 DEF Probe, Refuse, Finish, Enter, NothingIsLost, TornIsLast, NothingUndone, UnmovedAreThere, PlacedWereMoved, CopiesAreThere, SwappedAreNew, Kept, Absent, New, Past, FilesInv
<1>23. CASE Undo
  BY <1>23, UndoSteps, PayloadFacts DEF Former, Undone, SameBase, FilesInv, CallerInv, WayAndPlace, UnmovedAreThere, PlacedWereMoved, CopiesAreThere, TornIsLast, NothingUndone, Swapped, Ahead, Undoing, Kept, TypeOK, NothingIsLost
<1>24. CASE UndoEnds
  BY <1>24 DEF UndoEnds, NothingIsLost, TornIsLast, NothingUndone, UnmovedAreThere, PlacedWereMoved, CopiesAreThere, SwappedAreNew, Kept, Absent, New, Past, FilesInv
<1>25. CASE UNCHANGED vars
  BY <1>25 DEF vars, NothingIsLost, TornIsLast, NothingUndone, UnmovedAreThere, PlacedWereMoved, CopiesAreThere, SwappedAreNew, Kept, Absent, New, Past, FilesInv
<1> QED BY <1>1, <1>2, <1>3, <1>4, <1>5, <1>6, <1>7, <1>8, <1>9, <1>10, <1>11, <1>12, <1>13, <1>14, <1>15, <1>16, <1>17, <1>18, <1>19, <1>20, <1>21, <1>22, <1>23, <1>24, <1>25 DEF Next, Updater

LEMMA PlacedStep == ~RetryTorn /\ FilesInv /\ [Next]_vars => PlacedWereMoved'
<1> SUFFICES ASSUME ~RetryTorn, FilesInv, [Next]_vars PROVE PlacedWereMoved'
  OBVIOUS
<1> USE DEF Stays, Quiet, Handed, disk
<1>1. ASSUME NEW i \in Images, Start(i) PROVE PlacedWereMoved'
  BY <1>1, DeletedOnly DEF Start, Attempt, SweepStaleBackups, PlacedWereMoved, TornIsLast, NothingUndone
<1>2. CASE CallerAnswers
  BY <1>2 DEF CallerAnswers, PlacedWereMoved, TornIsLast, NothingUndone, UnmovedAreThere, CopiesAreThere, SwappedAreNew, NothingIsLost, Kept, Absent, New, Past, FilesInv
<1>3. CASE CallerGivesUp
  BY <1>3 DEF CallerGivesUp, PlacedWereMoved, TornIsLast, NothingUndone, UnmovedAreThere, CopiesAreThere, SwappedAreNew, NothingIsLost, Kept, Absent, New, Past, FilesInv
<1>4. CASE CallerCloses
  BY <1>4 DEF CallerCloses, PlacedWereMoved, TornIsLast, NothingUndone, UnmovedAreThere, CopiesAreThere, SwappedAreNew, NothingIsLost, Kept, Absent, New, Past, FilesInv
<1>5. ASSUME NEW i \in Images, Closes(i) PROVE PlacedWereMoved'
  BY <1>5 DEF Closes, PlacedWereMoved, TornIsLast, NothingUndone, UnmovedAreThere, CopiesAreThere, SwappedAreNew, NothingIsLost, Kept, Absent, New, Past, FilesInv
<1>6. ASSUME NEW i \in Images, CarriesOn(i) PROVE PlacedWereMoved'
  BY <1>6 DEF CarriesOn, PlacedWereMoved, TornIsLast, NothingUndone, UnmovedAreThere, CopiesAreThere, SwappedAreNew, NothingIsLost, Kept, Absent, New, Past, FilesInv
<1>7. ASSUME NEW i \in Images, UserStarts(i) PROVE PlacedWereMoved'
  BY <1>7 DEF UserStarts, PlacedWereMoved, TornIsLast, NothingUndone, UnmovedAreThere, CopiesAreThere, SwappedAreNew, NothingIsLost, Kept, Absent, New, Past, FilesInv
<1>8. CASE Killed
  BY <1>8 DEF Killed, PlacedWereMoved, TornIsLast, NothingUndone, UnmovedAreThere, CopiesAreThere, SwappedAreNew, NothingIsLost, Kept, Absent, New, Past, FilesInv
<1>9. CASE CheckRequested
  BY <1>9 DEF CheckRequested, Finish, Enter, PlacedWereMoved, TornIsLast, NothingUndone, UnmovedAreThere, CopiesAreThere, SwappedAreNew, NothingIsLost, Kept, Absent, New, Past, FilesInv, CallerInv, TypeOK, AttemptOK, Remembered
<1>10. CASE Download
  BY <1>10 DEF Download, Abandon, Enter, PlacedWereMoved, TornIsLast, NothingUndone, UnmovedAreThere, CopiesAreThere, SwappedAreNew, NothingIsLost, Kept, Absent, New, Past, FilesInv, CallerInv, TypeOK, AttemptOK, Remembered
<1>11. CASE Verify
  BY <1>11 DEF Verify, Captured, Abandon, Enter, PlacedWereMoved, TornIsLast, NothingUndone, UnmovedAreThere, CopiesAreThere, SwappedAreNew, NothingIsLost, Kept, Absent, New, Past, FilesInv, CallerInv, TypeOK, AttemptOK, Remembered, WayAndPlace, Early
<1>12. CASE Prepare
  BY <1>12 DEF Prepare, MayStop, Abandon, Enter, PlacedWereMoved, TornIsLast, NothingUndone, UnmovedAreThere, CopiesAreThere, SwappedAreNew, NothingIsLost, Kept, Absent, New, Past, FilesInv, CallerInv, TypeOK, AttemptOK, Remembered
<1>13. CASE Quiesce
  BY <1>13 DEF Quiesce, Abandon, Enter, PlacedWereMoved, FilesInv, CallerInv, TypeOK, AttemptOK, Remembered, WayAndPlace, Early
<1>14. CASE MoveAside
  <2>0. TypeOK /\ pc = "MoveAside" /\ ~torn /\ u.placed = {} /\ u.n \in Nat
    <3>1. TypeOK /\ pc = "MoveAside"
      BY <1>14 DEF MoveAside, FilesInv, CallerInv
    <3>2. ~torn
      BY <3>1 DEF FilesInv, TornIsLast, Undoing, Ahead
    <3> QED BY <3>1, <3>2 DEF FilesInv, PlacedWereMoved, TypeOK, AttemptOK
  <2>1. u'.placed = {}
    BY <1>14, <2>0, MoveAsideSteps DEF FilesStay
  <2>2. ASSUME pc' = "MoveAside", NEW m \in 1..Len(Payload), m < u'.n PROVE live'[Payload[m]] = Absent
    <3>1. m < u.n => live[Payload[m]] = Absent
      BY <2>0 DEF FilesInv, PlacedWereMoved
    <3>2. u'.n = u.n + 1 /\ u.n \in 1..Len(Payload) /\ (m < u.n \/ m = u.n)
      BY <1>14, <2>0, <2>2, MoveAsideSteps, PayloadFacts DEF WentBack
    <3> QED BY <1>14, <2>0, <2>2, <3>1, <3>2, MoveAsideSteps, PayloadFacts DEF FilesStay, WentBack
  <2>3. ASSUME pc' = "Place" PROVE Kept \subseteq u'.moved /\ u'.n = 1
    <3>1. u.n > Len(Payload) /\ u'.moved = u.moved /\ u'.n = 1
      BY <1>14, <2>0, <2>3, MoveAsideSteps DEF FilesStay, WentBack
    <3>2. ASSUME NEW f \in Kept PROVE f \in u.moved
      <4>1. PICK m \in 1..Len(Payload) : Payload[m] = f
        BY PayloadFacts DEF Kept
      <4>2. live[f] = Absent
        BY <2>0, <3>1, <4>1, PayloadFacts DEF FilesInv, PlacedWereMoved
      <4> QED BY <2>0, <4>2 DEF FilesInv, UnmovedAreThere
    <3> QED BY <3>1, <3>2
  <2>4. pc' = "Place" => \A m \in 1..Len(Payload) : ~(m < u'.n)
    BY <2>3
  <2> QED BY <2>1, <2>2, <2>3, <2>4 DEF PlacedWereMoved
<1>15. CASE Place
  BY <1>15, PlaceSteps, PayloadFacts DEF FilesStay, WentBack, SameBase, FilesInv, CallerInv, WayAndPlace, PlacedWereMoved
<1>16. CASE Register
  BY <1>16 DEF Register, GoBack, Enter, PlacedWereMoved, TornIsLast, NothingUndone, UnmovedAreThere, CopiesAreThere, SwappedAreNew, NothingIsLost, Kept, Absent, New, Past, FilesInv, CallerInv, TypeOK, AttemptOK, Remembered, WayAndPlace, Early
<1>17. CASE RelaunchRequired
  BY <1>17, RequiredKeeps DEF SameFiles, SameBase, PlacedWereMoved, TornIsLast, NothingUndone, UnmovedAreThere, CopiesAreThere, SwappedAreNew, NothingIsLost, Kept, Absent, New, Past, FilesInv, CallerInv
<1>18. CASE HealthCheck
  BY <1>18, HealthKeeps DEF SameFiles, SameBase, PlacedWereMoved, TornIsLast, NothingUndone, UnmovedAreThere, CopiesAreThere, SwappedAreNew, NothingIsLost, Kept, Absent, New, Past, FilesInv, CallerInv
<1>19. CASE Commit
  BY <1>19, DeletedOnly DEF Commit, Enter, PlacedWereMoved, TornIsLast, NothingUndone
<1>20. CASE RelaunchOptional
  BY <1>20, OptionalKeeps DEF SameFiles, SameBase, PlacedWereMoved, TornIsLast, NothingUndone, UnmovedAreThere, CopiesAreThere, SwappedAreNew, NothingIsLost, Kept, Absent, New, Past, FilesInv, CallerInv
<1>21. CASE ReleaseBeforeRollback
  BY ZenonT(30), <1>21 DEF ReleaseBeforeRollback, Refuse, Finish, Enter, PlacedWereMoved, TornIsLast, NothingUndone, UnmovedAreThere, CopiesAreThere, SwappedAreNew, NothingIsLost, Kept, Absent, New, Past, FilesInv, CallerInv, TypeOK, AttemptOK, Remembered, WayAndPlace, Early, Swapped, Ahead, Undoing
<1>22. CASE Probe
  BY <1>22 DEF Probe, Refuse, Finish, Enter, PlacedWereMoved, TornIsLast, NothingUndone, UnmovedAreThere, CopiesAreThere, SwappedAreNew, NothingIsLost, Kept, Absent, New, Past, FilesInv, CallerInv, TypeOK, AttemptOK, Remembered
<1>23. CASE Undo
  BY ZenonT(30), <1>23, TheNextFile, PayloadFacts DEF Undo, Next1, Undone, Former, PlacedWereMoved, TornIsLast, NothingUndone, UnmovedAreThere, CopiesAreThere, SwappedAreNew, NothingIsLost, Kept, Absent, New, Past, FilesInv, CallerInv, TypeOK, AttemptOK, Remembered, WayAndPlace, Early
<1>24. CASE UndoEnds
  BY ZenonT(30), <1>24 DEF UndoEnds, PlacedWereMoved, TornIsLast, NothingUndone, UnmovedAreThere, CopiesAreThere, SwappedAreNew, NothingIsLost, Kept, Absent, New, Past, FilesInv, CallerInv, TypeOK, AttemptOK, Remembered, WayAndPlace, Early, Swapped, Ahead, Undoing
<1>25. CASE UNCHANGED vars
  BY <1>25 DEF vars, PlacedWereMoved, TornIsLast, NothingUndone, UnmovedAreThere, CopiesAreThere, SwappedAreNew, NothingIsLost, Kept, Absent, New, Past, FilesInv
<1> QED BY <1>1, <1>2, <1>3, <1>4, <1>5, <1>6, <1>7, <1>8, <1>9, <1>10, <1>11, <1>12, <1>13, <1>14, <1>15, <1>16, <1>17, <1>18, <1>19, <1>20, <1>21, <1>22, <1>23, <1>24, <1>25 DEF Next, Updater

LEMMA CopiesStep == ~RetryTorn /\ FilesInv /\ [Next]_vars => CopiesAreThere'
<1> SUFFICES ASSUME ~RetryTorn, FilesInv, [Next]_vars PROVE CopiesAreThere'
  OBVIOUS
<1> USE DEF Stays, Quiet, Handed, disk
<1>1. ASSUME NEW i \in Images, Start(i) PROVE CopiesAreThere'
  BY <1>1, DeletedOnly DEF Start, Attempt, SweepStaleBackups, CopiesAreThere, TornIsLast, NothingUndone
<1>2. CASE CallerAnswers
  BY <1>2 DEF CallerAnswers, CopiesAreThere, TornIsLast, NothingUndone, UnmovedAreThere, PlacedWereMoved, SwappedAreNew, NothingIsLost, Kept, Absent, New, Past, FilesInv, CallerInv, TypeOK, AttemptOK, Remembered, WayAndPlace, Early, Swapped
<1>3. CASE CallerGivesUp
  BY <1>3 DEF CallerGivesUp, CopiesAreThere, TornIsLast, NothingUndone, UnmovedAreThere, PlacedWereMoved, SwappedAreNew, NothingIsLost, Kept, Absent, New, Past, FilesInv, CallerInv, TypeOK, AttemptOK, Remembered, WayAndPlace, Early, Swapped
<1>4. CASE CallerCloses
  BY <1>4 DEF CallerCloses, CopiesAreThere, TornIsLast, NothingUndone, UnmovedAreThere, PlacedWereMoved, SwappedAreNew, NothingIsLost, Kept, Absent, New, Past, FilesInv, CallerInv, TypeOK, AttemptOK, Remembered, WayAndPlace, Early, Swapped
<1>5. ASSUME NEW i \in Images, Closes(i) PROVE CopiesAreThere'
  BY <1>5 DEF Closes, CopiesAreThere, TornIsLast, NothingUndone, UnmovedAreThere, PlacedWereMoved, SwappedAreNew, NothingIsLost, Kept, Absent, New, Past, FilesInv, CallerInv, TypeOK, AttemptOK, Remembered, WayAndPlace, Early, Swapped
<1>6. ASSUME NEW i \in Images, CarriesOn(i) PROVE CopiesAreThere'
  BY <1>6 DEF CarriesOn, CopiesAreThere, TornIsLast, NothingUndone, UnmovedAreThere, PlacedWereMoved, SwappedAreNew, NothingIsLost, Kept, Absent, New, Past, FilesInv, CallerInv, TypeOK, AttemptOK, Remembered, WayAndPlace, Early, Swapped
<1>7. ASSUME NEW i \in Images, UserStarts(i) PROVE CopiesAreThere'
  BY <1>7 DEF UserStarts, CopiesAreThere, TornIsLast, NothingUndone, UnmovedAreThere, PlacedWereMoved, SwappedAreNew, NothingIsLost, Kept, Absent, New, Past, FilesInv, CallerInv, TypeOK, AttemptOK, Remembered, WayAndPlace, Early, Swapped
<1>8. CASE Killed
  BY <1>8 DEF Killed, CopiesAreThere, TornIsLast, NothingUndone, UnmovedAreThere, PlacedWereMoved, SwappedAreNew, NothingIsLost, Kept, Absent, New, Past, FilesInv, CallerInv, TypeOK, AttemptOK, Remembered, WayAndPlace, Early, Swapped, Ahead
<1>9. CASE CheckRequested
  BY <1>9 DEF CheckRequested, Finish, Enter, CopiesAreThere, TornIsLast, NothingUndone, UnmovedAreThere, PlacedWereMoved, SwappedAreNew, NothingIsLost, Kept, Absent, New, Past, FilesInv, CallerInv, TypeOK, AttemptOK, Remembered, WayAndPlace, Early
<1>10. CASE Download
  BY <1>10 DEF Download, Abandon, Enter, CopiesAreThere, TornIsLast, NothingUndone, UnmovedAreThere, PlacedWereMoved, SwappedAreNew, NothingIsLost, Kept, Absent, New, Past, FilesInv, CallerInv, TypeOK, AttemptOK, Remembered, WayAndPlace, Early
<1>11. CASE Verify
  BY <1>11 DEF Verify, Captured, Abandon, Enter, CopiesAreThere, TornIsLast, NothingUndone, UnmovedAreThere, PlacedWereMoved, SwappedAreNew, NothingIsLost, Kept, Absent, New, Past, FilesInv, CallerInv, TypeOK, AttemptOK, Remembered, WayAndPlace, Early
<1>12. CASE Prepare
  BY <1>12 DEF Prepare, MayStop, Abandon, Enter, CopiesAreThere, TornIsLast, NothingUndone, UnmovedAreThere, PlacedWereMoved, SwappedAreNew, NothingIsLost, Kept, Absent, New, Past, FilesInv, CallerInv, TypeOK, AttemptOK, Remembered, WayAndPlace, Early
<1>13. CASE Quiesce
  BY <1>13 DEF Quiesce, Abandon, Enter, CopiesAreThere, TornIsLast, NothingUndone, UnmovedAreThere, PlacedWereMoved, SwappedAreNew, NothingIsLost, Kept, Absent, New, Past, FilesInv, CallerInv, TypeOK, AttemptOK, Remembered, WayAndPlace, Early
<1>14. CASE MoveAside
  <2>0. TypeOK /\ pc = "MoveAside" /\ \A f \in u.moved : back[f] # Absent
    BY <1>14, MoveAsideSteps DEF FilesInv, CallerInv, CopiesAreThere
  <2>1. pc' # "Undo" /\ u.moved \subseteq Files
    BY <1>14, <2>0, MoveAsideSteps DEF WentBack, TypeOK, AttemptOK
  <2>2. \A f \in u'.moved : back'[f] # Absent
    <3>1. CASE FilesStay
      BY <2>0, <3>1 DEF FilesStay
    <3>2. CASE ~FilesStay
      <4>1. /\ live[Payload[u.n]] # Absent /\ u'.moved = u.moved \cup {Payload[u.n]} /\ Payload[u.n] \in Files
            /\ \A f \in Files : back'[f] = IF f = Payload[u.n] THEN live[f] ELSE back[f]
        BY <1>14, <2>0, <3>2, MoveAsideSteps, PayloadFacts
      <4> QED BY <2>0, <2>1, <4>1
    <3> QED BY <3>1, <3>2
  <2> QED BY <2>1, <2>2 DEF CopiesAreThere
<1>15. CASE Place
  BY ZenonT(30), <1>15, TheNextFile, PayloadFacts DEF Place, GoBack, Enter, Next1, CopiesAreThere, TornIsLast, NothingUndone, UnmovedAreThere, PlacedWereMoved, SwappedAreNew, NothingIsLost, Kept, Absent, New, Past, FilesInv, CallerInv, TypeOK, AttemptOK, Remembered, WayAndPlace, Early
<1>16. CASE Register
  BY <1>16 DEF Register, GoBack, Enter, CopiesAreThere, TornIsLast, NothingUndone, UnmovedAreThere, PlacedWereMoved, SwappedAreNew, NothingIsLost, Kept, Absent, New, Past, FilesInv, CallerInv, TypeOK, AttemptOK, Remembered, WayAndPlace, Early, Swapped, Ahead, Undoing
<1>17. CASE RelaunchRequired
  BY <1>17, RequiredKeeps DEF SameFiles, SameBase, CopiesAreThere, TornIsLast, NothingUndone, UnmovedAreThere, PlacedWereMoved, SwappedAreNew, NothingIsLost, Kept, Absent, New, Past, FilesInv, CallerInv, TypeOK, AttemptOK, Remembered, WayAndPlace, Early, Swapped, Ahead
<1>18. CASE HealthCheck
  BY <1>18, HealthKeeps DEF SameFiles, SameBase, CopiesAreThere, TornIsLast, NothingUndone, UnmovedAreThere, PlacedWereMoved, SwappedAreNew, NothingIsLost, Kept, Absent, New, Past, FilesInv, CallerInv, TypeOK, AttemptOK, Remembered, WayAndPlace, Early, Swapped, Ahead
<1>19. CASE Commit
  BY <1>19, DeletedOnly DEF Commit, Enter, CopiesAreThere, TornIsLast, NothingUndone
<1>20. CASE RelaunchOptional
  BY <1>20, OptionalKeeps DEF SameFiles, SameBase, CopiesAreThere, TornIsLast, NothingUndone, UnmovedAreThere, PlacedWereMoved, SwappedAreNew, NothingIsLost, Kept, Absent, New, Past, FilesInv, CallerInv, TypeOK, AttemptOK, Remembered, WayAndPlace
<1>21. CASE ReleaseBeforeRollback
  BY <1>21 DEF ReleaseBeforeRollback, Refuse, Finish, Enter, CopiesAreThere, TornIsLast, NothingUndone, UnmovedAreThere, PlacedWereMoved, SwappedAreNew, NothingIsLost, Kept, Absent, New, Past, FilesInv, CallerInv, TypeOK, AttemptOK, Remembered, WayAndPlace, Early
<1>22. CASE Probe
  BY <1>22 DEF Probe, Refuse, Finish, Enter, CopiesAreThere, TornIsLast, NothingUndone, UnmovedAreThere, PlacedWereMoved, SwappedAreNew, NothingIsLost, Kept, Absent, New, Past, FilesInv, CallerInv, TypeOK, AttemptOK, Remembered
<1>23. CASE Undo
  BY <1>23, UndoSteps, PayloadFacts DEF Former, Undone, SameBase, FilesInv, CallerInv, WayAndPlace, UnmovedAreThere, PlacedWereMoved, CopiesAreThere, TornIsLast, NothingUndone, Swapped, Ahead
<1>24. CASE UndoEnds
  BY ZenonT(30), <1>24 DEF UndoEnds, CopiesAreThere, TornIsLast, NothingUndone, UnmovedAreThere, PlacedWereMoved, SwappedAreNew, NothingIsLost, Kept, Absent, New, Past, FilesInv, CallerInv, TypeOK, AttemptOK, Remembered, WayAndPlace, Early, Swapped, Ahead, Undoing
<1>25. CASE UNCHANGED vars
  BY <1>25 DEF vars, CopiesAreThere, TornIsLast, NothingUndone, UnmovedAreThere, PlacedWereMoved, SwappedAreNew, NothingIsLost, Kept, Absent, New, Past, FilesInv, CallerInv, TypeOK, AttemptOK, Remembered, WayAndPlace, Early, Swapped
<1> QED BY <1>1, <1>2, <1>3, <1>4, <1>5, <1>6, <1>7, <1>8, <1>9, <1>10, <1>11, <1>12, <1>13, <1>14, <1>15, <1>16, <1>17, <1>18, <1>19, <1>20, <1>21, <1>22, <1>23, <1>24, <1>25 DEF Next, Updater

LEMMA FilesInvariant == ~RetryTorn => (Spec => []FilesInv)
<1> SUFFICES ASSUME ~RetryTorn PROVE Spec => []FilesInv
  OBVIOUS
<1>1. FilesInv /\ [Next]_vars => CallerInv'
  BY TypesStep, WayStep, CallerLeftStep DEF FilesInv, CallerInv
<1>2. FilesInv /\ [Next]_vars => FilesInv'
  BY <1>1, TornStep, UndoneStep, UnmovedStep, SwappedStep, LostStep, PlacedStep, CopiesStep DEF FilesInv
<1> QED BY <1>2, FilesInit, PTL DEF Spec

(* Every file the product had is there, or its copy is, wherever the updater *)
(* fails or is killed, as long as no attempt follows one that left files     *)
(* undone: it would sweep the copies (Swap, Rollback, Commit,                *)
(* SweepStaleBackups).                                                       *)
THEOREM NoFileIsLost == ~RetryTorn => (Spec => []NothingIsLost)
<1> SUFFICES ASSUME ~RetryTorn PROVE Spec => []NothingIsLost
  OBVIOUS
<1>1. FilesInv => NothingIsLost
  BY DEF FilesInv
<1> QED BY <1>1, FilesInvariant, PTL

-----------------------------------------------------------------------------
(* Versions, when no program is started while its file may change under it *)

LEMMA VersionInit == Init => VersionInv
<1> SUFFICES ASSUME Init PROVE RunsItsFile /\ StoppedAtSwap /\ WholeAtRest /\ FormerOrNew /\ EndsWhole
  BY FilesInit DEF VersionInv
<1>1. u.result = "none" /\ u.way = "forward" /\ pc = "Idle" /\ ~torn
  BY DEF Init, Attempt
<1>2. Whole(Old)
  BY DEF Init, Whole
<1>3. RunsItsFile
  BY UpdateConstants DEF Init, RunsItsFile
<1> QED BY <1>1, <1>2, <1>3 DEF StoppedAtSwap, WholeAtRest, FormerOrNew, EndsWhole, Swapped, Ahead, Early, Undoing

(* A program that runs keeps its file from being removed or replaced. *)
LEMMA RunsStep == ~RetryTorn /\ VersionInv /\ [Next]_vars => RunsItsFile'
<1> SUFFICES ASSUME ~RetryTorn, VersionInv, [Next]_vars PROVE RunsItsFile'
  OBVIOUS
<1> USE DEF Stays, Quiet, Handed, disk
<1>1. ASSUME NEW i \in Images, Start(i) PROVE RunsItsFile'
  BY <1>1 DEF Start, RunsItsFile, VersionInv
<1>2. CASE CallerAnswers
  BY <1>2 DEF CallerAnswers, RunsItsFile, VersionInv
<1>3. CASE CallerGivesUp
  BY <1>3 DEF CallerGivesUp, RunsItsFile, VersionInv
<1>4. CASE CallerCloses
  BY <1>4 DEF CallerCloses, RunsItsFile, VersionInv
<1>5. ASSUME NEW i \in Images, Closes(i) PROVE RunsItsFile'
  BY <1>5 DEF Closes, RunsItsFile, VersionInv
<1>6. ASSUME NEW i \in Images, CarriesOn(i) PROVE RunsItsFile'
  BY <1>6 DEF CarriesOn, RunsItsFile, VersionInv
<1>7. ASSUME NEW i \in Images, UserStarts(i) PROVE RunsItsFile'
  BY <1>7 DEF UserStarts, RunsItsFile, VersionInv
<1>8. CASE Killed
  BY <1>8 DEF Killed, RunsItsFile, VersionInv
<1>9. CASE CheckRequested
  BY <1>9 DEF CheckRequested, Finish, Enter, RunsItsFile, VersionInv
<1>10. CASE Download
  BY <1>10 DEF Download, Abandon, Enter, RunsItsFile, VersionInv
<1>11. CASE Verify
  BY <1>11 DEF Verify, Captured, Abandon, Enter, RunsItsFile, VersionInv
<1>12. CASE Prepare
  BY <1>12 DEF Prepare, MayStop, Abandon, Enter, RunsItsFile, VersionInv
<1>13. CASE Quiesce
  BY <1>13 DEF Quiesce, Abandon, Enter, RunsItsFile, VersionInv
<1>14. CASE MoveAside
  BY <1>14, UpdateConstants DEF MoveAside, GoBack, Enter, Next1, StoppedAtSwap, Running, IsThere, RunsItsFile, VersionInv
<1>15. CASE Place
  <2>0. TypeOK /\ pc = "Place" /\ ~torn
    BY <1>15 DEF Place, VersionInv, FilesInv, CallerInv, TornIsLast, Undoing, Ahead
  <2>1. \A m \in 1..Len(Payload) : m < u.n \/ live[Payload[m]] = Absent
    BY <2>0 DEF VersionInv, FormerOrNew
  <2>2. UNCHANGED run
    BY <1>15 DEF Place
  <2>3. ASSUME NEW i \in Images, run[i] # Absent PROVE live'[i] = live[i]
    <3>1. live[i] = run[i] /\ i \in Files
      BY <2>3, UpdateConstants DEF VersionInv, RunsItsFile
    <3>2. u.n \in 1..Len(Payload) => Payload[u.n] # i
      BY <2>0, <2>1, <2>3, <3>1
    <3> QED BY <1>15, <2>0, <3>1, <3>2, PlaceSteps DEF FilesStay
  <2> QED BY <2>2, <2>3 DEF VersionInv, RunsItsFile
<1>16. CASE Register
  BY <1>16 DEF Register, GoBack, Enter, RunsItsFile, VersionInv
<1>17. CASE RelaunchRequired
  BY <1>17, RelaunchTypes DEF RelaunchRequired, Enter, Resumed, Relaunched, RunsItsFile, VersionInv
<1>18. CASE HealthCheck
  BY <1>18 DEF HealthCheck, GoBack, Enter, RunsItsFile, VersionInv
<1>19. CASE Commit
  BY <1>19 DEF Commit, Enter, RunsItsFile, VersionInv
<1>20. CASE RelaunchOptional
  BY <1>20, RelaunchTypes DEF RelaunchOptional, Resumed, Relaunched, RunsItsFile, VersionInv
<1>21. CASE ReleaseBeforeRollback
  BY <1>21 DEF ReleaseBeforeRollback, Refuse, Finish, Enter, RunsItsFile, VersionInv
<1>22. CASE Probe
  BY <1>22 DEF Probe, Refuse, Finish, Enter, RunsItsFile, VersionInv
<1>23. CASE Undo
  BY <1>23, UpdateConstants, UndoSteps DEF Undo, Next1, InUse, RunsItsFile, VersionInv, FilesInv, CallerInv
<1>24. CASE UndoEnds
  BY <1>24 DEF UndoEnds, RunsItsFile, VersionInv
<1>25. CASE UNCHANGED vars
  BY <1>25 DEF vars, RunsItsFile, VersionInv
<1> QED BY <1>1, <1>2, <1>3, <1>4, <1>5, <1>6, <1>7, <1>8, <1>9, <1>10, <1>11, <1>12, <1>13, <1>14, <1>15, <1>16, <1>17, <1>18, <1>19, <1>20, <1>21, <1>22, <1>23, <1>24, <1>25 DEF Next, Updater

LEMMA StoppedStep == StartsOutsideSwap /\ VersionInv /\ [Next]_vars => StoppedAtSwap'
<1> SUFFICES ASSUME StartsOutsideSwap, VersionInv, [Next]_vars PROVE StoppedAtSwap'
  OBVIOUS
<1> USE DEF Stays, Quiet, Handed, disk
<1>1. ASSUME NEW i \in Images, Start(i) PROVE StoppedAtSwap'
  BY <1>1 DEF Start, StoppedAtSwap
<1>2. CASE CallerAnswers
  BY <1>2 DEF CallerAnswers, StoppedAtSwap, Running, VersionInv
<1>3. CASE CallerGivesUp
  BY <1>3 DEF CallerGivesUp, StoppedAtSwap, Running, VersionInv
<1>4. CASE CallerCloses
  BY <1>4 DEF CallerCloses, StoppedAtSwap, Running, VersionInv
<1>5. ASSUME NEW i \in Images, Closes(i) PROVE StoppedAtSwap'
  BY <1>5 DEF Closes, StoppedAtSwap, Running, VersionInv, FilesInv, CallerInv, TypeOK
<1>6. ASSUME NEW i \in Images, CarriesOn(i) PROVE StoppedAtSwap'
  BY <1>6 DEF CarriesOn, StoppedAtSwap, Running, VersionInv
<1>7. ASSUME NEW i \in Images, UserStarts(i) PROVE StoppedAtSwap'
  BY <1>7 DEF UserStarts, StartsOutsideSwap, StoppedAtSwap
<1>8. CASE Killed
  BY <1>8 DEF Killed, StoppedAtSwap
<1>9. CASE CheckRequested
  BY <1>9 DEF CheckRequested, Finish, Enter, StoppedAtSwap
<1>10. CASE Download
  BY <1>10 DEF Download, Abandon, Enter, StoppedAtSwap
<1>11. CASE Verify
  BY <1>11 DEF Verify, Captured, Abandon, Enter, StoppedAtSwap
<1>12. CASE Prepare
  BY <1>12 DEF Prepare, MayStop, Abandon, Enter, StoppedAtSwap, Running, VersionInv, FilesInv, CallerInv, TypeOK, AttemptOK, Remembered
<1>13. CASE Quiesce
  BY <1>13 DEF Quiesce, Abandon, Enter, StoppedAtSwap, Running, VersionInv
<1>14. CASE MoveAside
  BY <1>14 DEF MoveAside, GoBack, Enter, Next1, StoppedAtSwap, Running, VersionInv
<1>15. CASE Place
  BY <1>15 DEF Place, GoBack, Enter, Next1, StoppedAtSwap
<1>16. CASE Register
  BY <1>16 DEF Register, GoBack, Enter, StoppedAtSwap
<1>17. CASE RelaunchRequired
  BY <1>17 DEF RelaunchRequired, Enter, StoppedAtSwap
<1>18. CASE HealthCheck
  BY <1>18 DEF HealthCheck, GoBack, Enter, StoppedAtSwap
<1>19. CASE Commit
  BY <1>19 DEF Commit, Enter, StoppedAtSwap
<1>20. CASE RelaunchOptional
  BY <1>20 DEF RelaunchOptional, StoppedAtSwap
<1>21. CASE ReleaseBeforeRollback
  BY <1>21 DEF ReleaseBeforeRollback, Refuse, Finish, Enter, StoppedAtSwap
<1>22. CASE Probe
  BY <1>22 DEF Probe, Refuse, Finish, Enter, StoppedAtSwap
<1>23. CASE Undo
  BY <1>23 DEF Undo, Next1, StoppedAtSwap
<1>24. CASE UndoEnds
  BY <1>24 DEF UndoEnds, StoppedAtSwap
<1>25. CASE UNCHANGED vars
  BY <1>25 DEF vars, StoppedAtSwap, Running, VersionInv
<1> QED BY <1>1, <1>2, <1>3, <1>4, <1>5, <1>6, <1>7, <1>8, <1>9, <1>10, <1>11, <1>12, <1>13, <1>14, <1>15, <1>16, <1>17, <1>18, <1>19, <1>20, <1>21, <1>22, <1>23, <1>24, <1>25 DEF Next, Updater

LEMMA WholeFiles ==
  /\ Whole(Old) <=> registered = Old /\ (\A f \in Kept : live[f] = Old) /\ (\A f \in Fresh : live[f] = Absent)
  /\ Whole(New) <=> registered = New /\ (\A f \in Files : live[f] = New)
  /\ ~Whole(Absent) \/ registered = Absent
BY UpdateConstants DEF Whole, Kept, Old, New

(* At rest with nothing moved or placed, the middle of an attempt is as it was. *)
LEMMA MiddleAtRest ==
  ASSUME VersionInv, ~torn, pc \in {"MoveAside", "Place"} \cup Undoing \/ Swapped, u.moved \cup u.placed = {}
  PROVE  Whole(Old)
BY WholeFiles DEF VersionInv, FormerOrNew

(* Everything undone, the files are the former ones. *)
LEMMA UndoneIsWhole ==
  ASSUME VersionInv, pc = "Undo", ~torn, u.ok, u.n > Len(Payload)
  PROVE  (\A f \in Kept : live[f] = Old) /\ (\A f \in Fresh : live[f] = Absent)
<1>1. /\ \A f \in Kept \ u.moved : live[f] = Old
      /\ \A m \in 1..Len(Payload) :
           /\ Payload[m] \in u.moved => IF m < u.n THEN live[Payload[m]] = Old ELSE back[Payload[m]] = Old
           /\ Payload[m] \in Fresh /\ m < u.n => live[Payload[m]] = Absent
  BY DEF VersionInv, FormerOrNew, Undoing
<1>2. \A m \in 1..Len(Payload) : m < u.n
  BY PayloadFacts DEF VersionInv, FilesInv, CallerInv, TypeOK, AttemptOK
<1>3. ASSUME NEW f \in Files PROVE \E m \in 1..Len(Payload) : Payload[m] = f /\ m < u.n
  BY <1>2, PayloadFacts
<1>4. ASSUME NEW f \in Kept PROVE live[f] = Old
  <2>1. f \in Files
    BY DEF Kept
  <2>2. PICK m \in 1..Len(Payload) : Payload[m] = f /\ m < u.n
    BY <1>3, <2>1
  <2> QED BY <1>1, <2>2
<1>5. ASSUME NEW f \in Fresh PROVE live[f] = Absent
  <2>1. f \in Files
    BY UpdateConstants
  <2>2. PICK m \in 1..Len(Payload) : Payload[m] = f /\ m < u.n
    BY <1>3, <2>1
  <2> QED BY <1>1, <2>2
<1> QED BY <1>4, <1>5

LEMMA RestStep == ~RetryTorn /\ VersionInv /\ [Next]_vars => WholeAtRest'
<1> SUFFICES ASSUME ~RetryTorn, VersionInv, [Next]_vars PROVE WholeAtRest'
  OBVIOUS
<1> USE DEF Stays, Quiet, Handed, disk
<1>1. ASSUME NEW i \in Images, Start(i) PROVE WholeAtRest'
  <2>1. u'.installed = run[i] /\ u'.way = "forward" /\ pc' = "CheckRequested"
    BY <1>1 DEF Start, Attempt
  <2>2. ~torn' => ~torn /\ UNCHANGED <<live, registered>> /\ pc = "Idle"
    BY <1>1 DEF Start
  <2>3. run[i] # Absent /\ run[i] = live[i] /\ i \in Files \ Fresh
    BY <1>1, UpdateConstants DEF Start, Running, VersionInv, RunsItsFile
  <2>4. ASSUME ~torn' PROVE Whole(u.installed)'
    <3>1. PICK v \in {Old, New} : Whole(v)
      BY <2>2, <2>4 DEF VersionInv, WholeAtRest
    <3>2. v = run[i]
      BY <2>3, <3>1 DEF Whole
    <3>3. u'.installed = v
      BY <2>1, <3>2
    <3>4. Whole(v)'
      BY <2>2, <2>4, <3>1 DEF Whole
    <3> QED BY <3>3, <3>4
  <2>5. pc' \in Early /\ pc' \notin Early \ {"CheckRequested"} /\ u'.way # "back" /\ u'.way # "abandon"
    BY <2>1 DEF Early
  <2> QED BY <2>1, <2>3, <2>4, <2>5 DEF WholeAtRest
<1>2. CASE CallerAnswers
  BY <1>2 DEF CallerAnswers, WholeAtRest, Whole, Absent, Old, New, VersionInv
<1>3. CASE CallerGivesUp
  BY <1>3 DEF CallerGivesUp, WholeAtRest, Whole, Absent, Old, New, VersionInv
<1>4. CASE CallerCloses
  BY <1>4 DEF CallerCloses, WholeAtRest, Whole, Absent, Old, New, VersionInv
<1>5. ASSUME NEW i \in Images, Closes(i) PROVE WholeAtRest'
  BY <1>5 DEF Closes, WholeAtRest, Whole, Absent, Old, New, VersionInv
<1>6. ASSUME NEW i \in Images, CarriesOn(i) PROVE WholeAtRest'
  BY <1>6 DEF CarriesOn, WholeAtRest, Whole, Absent, Old, New, VersionInv
<1>7. ASSUME NEW i \in Images, UserStarts(i) PROVE WholeAtRest'
  BY <1>7 DEF UserStarts, WholeAtRest, Whole, Absent, Old, New, VersionInv
<1>8. CASE Killed
  <2>1. pc' = "Idle" /\ UNCHANGED <<live, registered>> /\ pc # "Idle" /\ (~torn' => ~torn /\ u.moved \cup u.placed = {})
    BY <1>8 DEF Killed
  <2>2. TypeOK
    BY DEF VersionInv, FilesInv, CallerInv
  <2>3. ASSUME ~torn' PROVE Whole(Old) \/ Whole(New)
    <3>1. CASE pc \in {"MoveAside", "Place"} \cup Undoing \/ Swapped
      BY <2>1, <2>3, <3>1, MiddleAtRest
    <3>2. CASE pc \in Early
      <4>1. Whole(u.installed) /\ u.installed # Absent /\ u.installed \in Versions
        BY <2>1, <2>2, <2>3, <3>2 DEF VersionInv, WholeAtRest, TypeOK, AttemptOK
      <4> QED BY <4>1 DEF Versions
    <3>3. CASE pc = "RelaunchOptional" /\ u.way = "forward"
      BY <2>1, <2>3, <3>3 DEF VersionInv, WholeAtRest
    <3>4. CASE u.way \in {"abandon", "back"}
      BY <2>1, <2>3, <3>4 DEF VersionInv, WholeAtRest
    <3>5. u.way \in {"forward", "abandon", "back"} /\ pc \in Steps
      BY <2>2 DEF TypeOK, AttemptOK
    <3> QED BY <2>1, <3>1, <3>2, <3>3, <3>4, <3>5 DEF Steps, Early, Undoing, Swapped, Ahead
  <2>4. ~torn' => (Whole(Old) \/ Whole(New))'
    BY <2>1, <2>3 DEF Whole
  <2> QED BY <2>1, <2>4 DEF WholeAtRest, Early
<1>9. CASE CheckRequested
  <2>1. TypeOK /\ pc = "CheckRequested" /\ UNCHANGED <<live, registered>> /\ u'.installed = u.installed /\ u'.way = u.way
    BY <1>9 DEF VersionInv, FilesInv, CallerInv, CheckRequested, Finish, Enter, TypeOK, AttemptOK, Remembered
  <2>2. u.installed # Absent /\ u.installed \in Versions
    BY <2>1 DEF VersionInv, WholeAtRest, TypeOK, AttemptOK
  <2>3. ~torn' => ~torn
    <3>1. CASE Finish("NothingToDo")
      BY <3>1 DEF Finish
    <3>2. CASE Enter("Download")
      BY <3>2 DEF Enter
    <3> QED BY <1>9, <3>1, <3>2 DEF CheckRequested
  <2>4. ~torn => Whole(u.installed)
    BY <2>1 DEF VersionInv, WholeAtRest, Early
  <2>5. u.way \notin {"abandon", "back"}
    BY <2>1 DEF VersionInv, FilesInv, CallerInv, WayAndPlace
  <2>6. pc' = "Idle" \/ (pc' = "Download" /\ u.installed < New)
    <3>1. Finish("NothingToDo") \/ (u.installed < New /\ Enter("Download"))
      BY <1>9 DEF CheckRequested
    <3> QED BY <3>1 DEF Finish, Enter
  <2>7. u.installed = Old \/ u.installed = New
    BY <2>2 DEF Versions
  <2>8. pc' = "Download" => u.installed = Old
    BY <2>6, <2>7 DEF New
  <2> QED BY <2>1, <2>2, <2>3, <2>4, <2>5, <2>6, <2>7, <2>8 DEF WholeAtRest, Whole, Early
<1>10. CASE Download
  BY <1>10 DEF Download, Abandon, Enter, WholeAtRest, Whole, Absent, Old, New, VersionInv, FilesInv, CallerInv, TypeOK, AttemptOK, Remembered, Early
<1>11. CASE Verify
  BY ZenonT(30), <1>11 DEF Verify, Captured, Abandon, Enter, WholeAtRest, Whole, Absent, Old, New, VersionInv, FilesInv, CallerInv, TypeOK, AttemptOK, Remembered, WayAndPlace, Early, TornIsLast, NothingUndone
<1>12. CASE Prepare
  BY <1>12 DEF Prepare, MayStop, Abandon, Enter, WholeAtRest, Whole, Absent, Old, New, VersionInv, FilesInv, CallerInv, TypeOK, AttemptOK, Remembered, WayAndPlace, Early
<1>13. CASE Quiesce
  BY <1>13 DEF Quiesce, Abandon, Enter, WholeAtRest, Whole, Absent, Old, New, VersionInv, FilesInv, CallerInv, TypeOK, AttemptOK, Remembered, Early
<1>14. CASE MoveAside
  BY ZenonT(30), <1>14, MoveAsideSteps DEF MoveAside, GoBack, Enter, Next1, WholeAtRest, Whole, Absent, Old, New, VersionInv, FilesInv, CallerInv, TypeOK, AttemptOK, Remembered, WayAndPlace, Early, TornIsLast, NothingUndone
<1>15. CASE Place
  BY <1>15, PlaceSteps DEF Place, GoBack, Enter, Next1, WholeAtRest, Whole, Absent, Old, New, VersionInv, FilesInv, CallerInv, TypeOK, AttemptOK, Remembered, WayAndPlace, Early, TornIsLast, NothingUndone
<1>16. CASE Register
  BY <1>16 DEF Register, GoBack, Enter, WholeAtRest, Whole, Absent, Old, New, VersionInv, FilesInv, CallerInv, TypeOK, AttemptOK, Remembered, WayAndPlace, Early
<1>17. CASE RelaunchRequired
  BY <1>17, RequiredKeeps DEF SameFiles, SameBase, WholeAtRest, Whole, Absent, Old, New, VersionInv, FilesInv, CallerInv, TypeOK, AttemptOK, Remembered, Early
<1>18. CASE HealthCheck
  BY <1>18, HealthKeeps DEF SameFiles, SameBase, WholeAtRest, Whole, Absent, Old, New, VersionInv, FilesInv, CallerInv, TypeOK, AttemptOK, Remembered, Early
<1>19. CASE Commit
  <2>1. TypeOK /\ pc = "Commit" /\ UNCHANGED <<live, registered>> /\ u'.installed = u.installed /\ u'.way = u.way
    BY <1>19 DEF VersionInv, FilesInv, CallerInv, Commit
  <2>2. u.way \notin {"abandon", "back"} /\ ~torn /\ pc' = "RelaunchOptional" /\ u.installed # Absent
    BY <1>19, <2>1 DEF VersionInv, FilesInv, CallerInv, WayAndPlace, TornIsLast, Undoing, Ahead, Commit, Enter, WholeAtRest
  <2>3. Whole(New)
    BY <2>1, <2>2, WholeFiles DEF VersionInv, FilesInv, SwappedAreNew, Swapped, FormerOrNew
  <2> QED BY <2>1, <2>2, <2>3 DEF WholeAtRest, Whole, Early
<1>20. CASE RelaunchOptional
  BY <1>20, OptionalKeeps DEF SameFiles, SameBase, WholeAtRest, Whole, Absent, Old, New, VersionInv, FilesInv, CallerInv, TypeOK, AttemptOK, Remembered, Early
<1>21. CASE ReleaseBeforeRollback
  BY ZenonT(30), <1>21 DEF ReleaseBeforeRollback, Refuse, Finish, Enter, WholeAtRest, Whole, Absent, Old, New, VersionInv, FilesInv, CallerInv, TypeOK, AttemptOK, Remembered, WayAndPlace, Early, TornIsLast, NothingUndone
<1>22. CASE Probe
  BY ZenonT(30), <1>22 DEF Probe, Refuse, Finish, Enter, WholeAtRest, Whole, Absent, Old, New, VersionInv, FilesInv, CallerInv, TypeOK, AttemptOK, Remembered, WayAndPlace, Early, TornIsLast, NothingUndone
<1>23. CASE Undo
  BY <1>23, UndoSteps DEF Undo, Next1, WholeAtRest, Whole, Absent, Old, New, VersionInv, FilesInv, CallerInv, TypeOK, AttemptOK, Remembered, WayAndPlace, Early
<1>24. CASE UndoEnds
  <2>1. TypeOK
    BY DEF VersionInv, FilesInv, CallerInv
  <2>2. pc = "Undo" /\ u.n > Len(Payload) /\ UNCHANGED live /\ u'.installed = u.installed /\ u.installed # Absent
    BY <1>24, <2>1, UndoEndSteps DEF VersionInv, WholeAtRest
  <2>3. ASSUME ~torn' PROVE ~torn /\ u.ok /\ registered' = u.saved /\ u.saved = Old /\ u.installed = Old /\ pc' # "Idle"
    BY <1>24, <2>1, <2>2, <2>3, UndoEndSteps DEF VersionInv, FormerOrNew, Undoing
  <2>4. ~torn' => Whole(Old)'
    BY <2>2, <2>3, UndoneIsWhole DEF Whole, Kept
  <2>5. pc' \in {"Rollback", "RelaunchRequired", "Idle"}
    BY <1>24, <2>1, UndoEndSteps
  <2> QED BY <2>2, <2>3, <2>4, <2>5 DEF WholeAtRest
<1>25. CASE UNCHANGED vars
  BY <1>25 DEF vars, WholeAtRest, Whole, Absent, Old, New, VersionInv
<1> QED BY <1>1, <1>2, <1>3, <1>4, <1>5, <1>6, <1>7, <1>8, <1>9, <1>10, <1>11, <1>12, <1>13, <1>14, <1>15, <1>16, <1>17, <1>18, <1>19, <1>20, <1>21, <1>22, <1>23, <1>24, <1>25 DEF Next, Updater

LEMMA FormerStep == ~RetryTorn /\ VersionInv /\ [Next]_vars => FormerOrNew'
<1> SUFFICES ASSUME ~RetryTorn, VersionInv, [Next]_vars PROVE FormerOrNew'
  OBVIOUS
<1> USE DEF Stays, Quiet, Handed, disk
<1>1. ASSUME NEW i \in Images, Start(i) PROVE FormerOrNew'
  BY <1>1, UpdateConstants DEF Start, FormerOrNew, WholeAtRest, Absent, Old, New, VersionInv, FilesInv, CallerInv, TypeOK, AttemptOK, Remembered, WayAndPlace, Early, TornIsLast, NothingUndone, Swapped, Ahead, Undoing
<1>2. CASE CallerAnswers
  BY <1>2 DEF CallerAnswers, FormerOrNew, WholeAtRest, Absent, Old, New, VersionInv, FilesInv, CallerInv, TypeOK, AttemptOK, Remembered, WayAndPlace, Early, TornIsLast, Swapped
<1>3. CASE CallerGivesUp
  BY <1>3 DEF CallerGivesUp, FormerOrNew, WholeAtRest, Absent, Old, New, VersionInv, FilesInv, CallerInv, TypeOK, AttemptOK, Remembered, WayAndPlace, Early, TornIsLast, Swapped
<1>4. CASE CallerCloses
  BY <1>4 DEF CallerCloses, FormerOrNew, WholeAtRest, Absent, Old, New, VersionInv, FilesInv, CallerInv, TypeOK, AttemptOK, Remembered, WayAndPlace, Early, TornIsLast, Swapped
<1>5. ASSUME NEW i \in Images, Closes(i) PROVE FormerOrNew'
  BY <1>5 DEF Closes, FormerOrNew, WholeAtRest, Absent, Old, New, VersionInv, FilesInv, CallerInv, TypeOK, AttemptOK, Remembered, WayAndPlace, Early, TornIsLast, Swapped
<1>6. ASSUME NEW i \in Images, CarriesOn(i) PROVE FormerOrNew'
  BY <1>6 DEF CarriesOn, FormerOrNew, WholeAtRest, Absent, Old, New, VersionInv, FilesInv, CallerInv, TypeOK, AttemptOK, Remembered, WayAndPlace, Early, TornIsLast, Swapped
<1>7. ASSUME NEW i \in Images, UserStarts(i) PROVE FormerOrNew'
  BY <1>7 DEF UserStarts, FormerOrNew, WholeAtRest, Absent, Old, New, VersionInv, FilesInv, CallerInv, TypeOK, AttemptOK, Remembered, WayAndPlace, Early, TornIsLast, Swapped
<1>8. CASE Killed
  BY <1>8 DEF Killed, FormerOrNew, WholeAtRest, Absent, Old, New, VersionInv, FilesInv, CallerInv, TypeOK, AttemptOK, Remembered, WayAndPlace, Early, TornIsLast, NothingUndone, Swapped, Ahead, Undoing
<1>9. CASE CheckRequested
  BY <1>9 DEF CheckRequested, Finish, Enter, FormerOrNew, WholeAtRest, Absent, Old, New, VersionInv, FilesInv, CallerInv, TypeOK, AttemptOK, Remembered, WayAndPlace, Early, TornIsLast, NothingUndone, Swapped, Ahead, Undoing
<1>10. CASE Download
  BY <1>10 DEF Download, Abandon, Enter, FormerOrNew, WholeAtRest, Absent, Old, New, VersionInv, FilesInv, CallerInv, TypeOK, AttemptOK, Remembered, WayAndPlace, Early, TornIsLast, NothingUndone, Swapped, Ahead, Undoing
<1>11. CASE Verify
  BY <1>11 DEF Verify, Captured, Abandon, Enter, FormerOrNew, WholeAtRest, Absent, Old, New, VersionInv, FilesInv, CallerInv, TypeOK, AttemptOK, Remembered, WayAndPlace, Early, TornIsLast, NothingUndone, Swapped, Ahead, Undoing
<1>12. CASE Prepare
  BY <1>12 DEF Prepare, MayStop, Abandon, Enter, FormerOrNew, WholeAtRest, Absent, Old, New, VersionInv, FilesInv, CallerInv, TypeOK, AttemptOK, Remembered, WayAndPlace, Early, TornIsLast, NothingUndone, Swapped, Ahead, Undoing
<1>13. CASE Quiesce
  <2>1. TypeOK /\ pc = "Quiesce" /\ UNCHANGED <<live, back, registered>>
    BY <1>13 DEF VersionInv, FilesInv, CallerInv, Quiesce
  <2>2. u'.moved = u.moved /\ u'.placed = u.placed /\ u'.n = u.n /\ u'.installed = u.installed /\ (torn' => torn)
    BY <1>13, <2>1 DEF Quiesce, Abandon, Enter, TypeOK, AttemptOK, Remembered
  <2>3. u.moved = {} /\ u.placed = {}
    BY <2>1 DEF VersionInv, FilesInv, CallerInv, WayAndPlace, Early
  <2>4. ~torn /\ Whole(Old) /\ u.installed = Old
    BY <2>1 DEF VersionInv, FilesInv, TornIsLast, WholeAtRest, Early, Undoing, Ahead
  <2>5. \/ pc' = "MoveAside" /\ u'.saved = registered
        \/ pc' = "RelaunchRequired" /\ u'.way = "abandon"
    BY <1>13, <2>1 DEF Quiesce, Abandon, Enter, TypeOK, AttemptOK, Remembered
  <2> QED BY <2>1, <2>2, <2>3, <2>4, <2>5, WholeFiles DEF FormerOrNew, Swapped, Ahead, Undoing
<1>14. CASE MoveAside
  <2>0. TypeOK /\ pc = "MoveAside" /\ ~torn
    BY <1>14 DEF MoveAside, VersionInv, FilesInv, CallerInv, TornIsLast, Undoing, Ahead
  <2>1. /\ u.installed = Old /\ u.saved = Old /\ u.moved \subseteq Kept /\ registered = Old
        /\ \A f \in Kept \ u.moved : live[f] = Old
        /\ \A f \in Fresh \ u.placed : live[f] = Absent
        /\ \A f \in u.moved : back[f] = Old /\ live[f] = Absent
    BY <2>0 DEF VersionInv, FormerOrNew
  <2>2. /\ u.placed = {} /\ \A m \in 1..Len(Payload) : m < u.n => live[Payload[m]] = Absent
    BY <2>0 DEF VersionInv, FilesInv, PlacedWereMoved
  <2>3. u'.installed = Old /\ u'.saved = Old /\ registered' = Old /\ u'.placed = {} /\ u'.way = u.way /\ u.way # "back"
    BY <1>14, <2>0, <2>1, <2>2, MoveAsideSteps DEF SameBase, FilesStay, VersionInv, FilesInv, CallerInv, WayAndPlace
  <2>4. pc' \in {"MoveAside", "Place", "Rollback"} /\ Fresh \subseteq Files
    BY <1>14, <2>0, MoveAsideSteps, UpdateConstants DEF WentBack
  <2>5. /\ u'.moved \subseteq Kept
        /\ \A f \in Kept \ u'.moved : live'[f] = Old
        /\ \A f \in Fresh : live'[f] = Absent
        /\ \A f \in u'.moved : back'[f] = Old /\ live'[f] = Absent
    <3>1. CASE FilesStay
      BY <2>1, <2>2, <3>1 DEF FilesStay
    <3>2. CASE ~FilesStay
      <4> DEFINE file == Payload[u.n]
      <4>1. /\ live[file] # Absent /\ u'.moved = u.moved \cup {file} /\ file \in Files
            /\ \A f \in Files : live'[f] = (IF f = file THEN Absent ELSE live[f]) /\ back'[f] = IF f = file THEN live[f] ELSE back[f]
        BY <1>14, <2>0, <3>2, MoveAsideSteps, PayloadFacts
      <4>2. file \in Kept
        BY <2>1, <2>2, <4>1 DEF Kept
      <4>3. file \notin u.moved => live[file] = Old
        BY <2>1, <4>2
      <4>4. file \notin u.moved
        BY <2>1, <4>1
      <4> QED BY <2>1, <2>2, <2>4, <4>1, <4>2, <4>3, <4>4 DEF Kept
    <3> QED BY <3>1, <3>2
  <2>6. pc' = "Place" => u'.n = 1 /\ UNCHANGED live /\ \A m \in 1..Len(Payload) : live[Payload[m]] = Absent
    BY <1>14, <2>0, <2>2, MoveAsideSteps, PayloadFacts DEF FilesStay, WentBack, TypeOK, AttemptOK
  <2> QED BY <2>3, <2>4, <2>5, <2>6 DEF FormerOrNew, Swapped, Ahead
<1>15. CASE Place
  <2>0. TypeOK /\ pc = "Place" /\ ~torn
    BY <1>15 DEF Place, VersionInv, FilesInv, CallerInv, TornIsLast, Undoing, Ahead
  <2>1. /\ u.installed = Old /\ u.saved = Old /\ u.moved \subseteq Kept /\ registered = Old
        /\ \A f \in Fresh \ u.placed : live[f] = Absent
        /\ \A f \in u.moved : back[f] = Old
        /\ \A m \in 1..Len(Payload) : IF m < u.n THEN Payload[m] \in u.placed ELSE live[Payload[m]] = Absent
    BY <2>0 DEF VersionInv, FormerOrNew
  <2>2. Kept \subseteq u.moved /\ u.moved \subseteq Files /\ Fresh \subseteq Files
    BY <2>0, UpdateConstants DEF VersionInv, FilesInv, PlacedWereMoved, TypeOK, AttemptOK
  <2>3. /\ u'.installed = Old /\ u'.saved = Old /\ registered' = Old /\ u'.moved = u.moved /\ UNCHANGED <<back, torn>>
        /\ u'.way = u.way /\ u.way # "back"
    BY <1>15, <2>0, <2>1, PlaceSteps DEF SameBase, VersionInv, FilesInv, CallerInv, WayAndPlace
  <2>4. pc' \in {"Place", "Register", "Rollback"}
    BY <1>15, <2>0, PlaceSteps DEF WentBack
  <2>5. CASE FilesStay /\ UNCHANGED u /\ pc' = "Register" /\ u.n > Len(Payload)
    <3>1. PICK m \in 1..Len(Payload) : Payload[m] = Host
      BY UpdateConstants, PayloadFacts DEF Images
    <3>2. Host \in u.placed
      BY <2>0, <2>1, <2>5, <3>1, PayloadFacts DEF TypeOK, AttemptOK
    <3> QED BY <2>1, <2>2, <2>3, <2>5, <3>2 DEF FilesStay, FormerOrNew
  <2>6. CASE FilesStay /\ WentBack
    BY <2>1, <2>2, <2>3, <2>6 DEF FilesStay, WentBack, FormerOrNew, Swapped, Ahead
  <2>7. CASE /\ u.n \in 1..Len(Payload) /\ UNCHANGED pc /\ u'.n = u.n + 1
             /\ \A f \in Files : live'[f] = IF f = Payload[u.n] THEN New ELSE live[f]
             /\ u'.placed = u.placed \cup {Payload[u.n]}
    <3>1. \A f \in Fresh \ u'.placed : live'[f] = Absent
      BY <2>1, <2>2, <2>7
    <3>2. ASSUME NEW m \in 1..Len(Payload)
          PROVE  IF m < u'.n THEN Payload[m] \in u'.placed ELSE live'[Payload[m]] = Absent
      <4>1. m < u'.n <=> (m < u.n \/ m = u.n)
        BY <2>7, PayloadFacts
      <4>2. m # u.n => Payload[m] # Payload[u.n] /\ Payload[m] \in Files
        BY <2>7, PayloadFacts
      <4> QED BY <2>1, <2>7, <4>1, <4>2
    <3> QED BY <2>0, <2>1, <2>2, <2>3, <2>7, <3>1, <3>2 DEF FormerOrNew, Swapped, Ahead
  <2> QED BY <1>15, <2>0, <2>5, <2>6, <2>7, PlaceSteps
<1>16. CASE Register
  BY <1>16 DEF Register, GoBack, Enter, FormerOrNew, WholeAtRest, Absent, Old, New, VersionInv, FilesInv, CallerInv, TypeOK, AttemptOK, Remembered, WayAndPlace, Early, TornIsLast, NothingUndone, Swapped, Ahead, Undoing
<1>17. CASE RelaunchRequired
  BY <1>17, RequiredKeeps DEF SameFiles, SameBase, FormerOrNew, WholeAtRest, Absent, Old, New, VersionInv, FilesInv, CallerInv, TypeOK, AttemptOK, Remembered, WayAndPlace, Early, TornIsLast, NothingUndone, Swapped, Ahead, Undoing
<1>18. CASE HealthCheck
  BY <1>18, HealthKeeps DEF SameFiles, SameBase, FormerOrNew, WholeAtRest, Absent, Old, New, VersionInv, FilesInv, CallerInv, TypeOK, AttemptOK, Remembered, WayAndPlace, Early, TornIsLast, NothingUndone, Swapped, Ahead, Undoing
<1>19. CASE Commit
  BY <1>19 DEF Commit, Enter, FormerOrNew, WholeAtRest, Absent, Old, New, VersionInv, FilesInv, CallerInv, TypeOK, AttemptOK, Remembered, WayAndPlace, Early, TornIsLast, NothingUndone, Swapped, Ahead, Undoing
<1>20. CASE RelaunchOptional
  BY <1>20, OptionalKeeps DEF SameFiles, SameBase, FormerOrNew, WholeAtRest, Absent, Old, New, VersionInv, FilesInv, CallerInv, TypeOK, AttemptOK, Remembered, WayAndPlace, Early, TornIsLast, NothingUndone, Swapped, Ahead, Undoing
<1>21. CASE ReleaseBeforeRollback
  BY ZenonT(30), <1>21 DEF ReleaseBeforeRollback, Refuse, Finish, Enter, FormerOrNew, WholeAtRest, Absent, Old, New, VersionInv, FilesInv, CallerInv, TypeOK, AttemptOK, Remembered, WayAndPlace, Early, TornIsLast, NothingUndone, Swapped, Ahead, Undoing
<1>22. CASE Probe
  BY <1>22 DEF Probe, Refuse, Finish, Enter, FormerOrNew, WholeAtRest, Absent, Old, New, VersionInv, FilesInv, CallerInv, TypeOK, AttemptOK, Remembered, WayAndPlace, Early, TornIsLast, NothingUndone, Swapped, Ahead, Undoing
<1>23. CASE Undo
  <2>0. TypeOK /\ pc = "Undo"
    BY <1>23 DEF Undo, VersionInv, FilesInv, CallerInv
  <2>1. SUFFICES ASSUME ~torn PROVE FormerOrNew'
    BY <1>23, <2>0, UndoSteps DEF FormerOrNew
  <2>2. /\ u.installed = Old /\ u.saved = Old /\ u.moved \subseteq Kept /\ (u.placed # {} \/ registered = Old)
        /\ \A f \in Kept \ u.moved : live[f] = Old
        /\ \A f \in Fresh \ u.placed : live[f] = Absent
        /\ u.ok => \A m \in 1..Len(Payload) :
             /\ Payload[m] \in u.moved => IF m < u.n THEN live[Payload[m]] = Old ELSE back[Payload[m]] = Old
             /\ Payload[m] \in Fresh /\ m < u.n => live[Payload[m]] = Absent
    BY <2>0, <2>1 DEF VersionInv, FormerOrNew, Undoing
  <2>3. /\ u'.installed = Old /\ u'.saved = Old /\ u'.moved = u.moved /\ u'.placed = u.placed
        /\ UNCHANGED <<registered, pc, torn>> /\ u'.n = u.n + 1 /\ u.n \in 1..Len(Payload)
        /\ \A f \in Files : f # Payload[u.n] => live'[f] = live[f] /\ back'[f] = back[f]
    BY <1>23, <2>0, <2>2, UndoSteps DEF SameBase
  <2>4. u.placed \cap Kept \subseteq u.moved /\ Fresh \subseteq Files /\ Kept \subseteq Files /\ Kept \cap Fresh = {}
    BY UpdateConstants DEF VersionInv, FilesInv, PlacedWereMoved, Kept
  <2>5. Undone(Payload[u.n]) <=> Payload[u.n] \in u.moved \/ Payload[u.n] \in u.placed
    BY DEF Undone
  <2>6. ~Undone(Payload[u.n]) => UNCHANGED live
    BY <1>23, <2>0, UndoSteps
  <2>7. \A f \in Kept \ u'.moved : live'[f] = Old
    BY <2>2, <2>3, <2>4, <2>5, <2>6
  <2>8. \A f \in Fresh \ u'.placed : live'[f] = Absent
    BY <2>2, <2>3, <2>4, <2>5, <2>6
  <2>9. ASSUME u'.ok, NEW m \in 1..Len(Payload)
        PROVE  /\ Payload[m] \in u'.moved => IF m < u'.n THEN live'[Payload[m]] = Old ELSE back'[Payload[m]] = Old
               /\ Payload[m] \in Fresh /\ m < u'.n => live'[Payload[m]] = Absent
    <3>1. u.ok /\ (Undone(Payload[u.n]) => live'[Payload[u.n]] = Former(Payload[u.n]))
      BY <1>23, <2>0, <2>9, UndoSteps
    <3>2. CASE m = u.n
      <4>1. Payload[u.n] \in u.moved => back[Payload[u.n]] = Old /\ live'[Payload[u.n]] = Old
        BY <2>2, <2>3, <2>5, <3>1 DEF Former
      <4>2. Payload[u.n] \in Fresh => live'[Payload[u.n]] = Absent
        BY <2>2, <2>4, <2>5, <2>6, <3>1 DEF Former
      <4> QED BY <2>3, <3>2, <4>1, <4>2
    <3>3. CASE m # u.n
      <4>1. Payload[m] \in Files /\ Payload[m] # Payload[u.n] /\ (m < u'.n <=> m < u.n)
        BY <2>3, <3>3, PayloadFacts
      <4> QED BY <2>2, <2>3, <3>1, <4>1
    <3> QED BY <3>2, <3>3
  <2> QED BY <2>0, <2>2, <2>3, <2>7, <2>8, <2>9 DEF FormerOrNew, Swapped, Ahead
<1>24. CASE UndoEnds
  <2>0. TypeOK
    BY DEF VersionInv, FilesInv, CallerInv
  <2>1. ASSUME ~torn', pc' # "Idle", pc' # "RelaunchRequired" PROVE FormerOrNew'
    <3>1. /\ pc = "Undo" /\ u.n > Len(Payload) /\ u.ok /\ ~torn /\ pc' = "Rollback" /\ UNCHANGED <<live, back>>
          /\ u'.moved = {} /\ u'.placed = {} /\ registered' = u.saved /\ u'.installed = u.installed /\ u'.saved = u.saved
      BY <1>24, <2>0, <2>1, UndoEndSteps
    <3>2. (\A f \in Kept : live[f] = Old) /\ (\A f \in Fresh : live[f] = Absent)
      BY <3>1, UndoneIsWhole
    <3>3. u.installed = Old /\ u.saved = Old
      BY <3>1 DEF VersionInv, FormerOrNew, Undoing
    <3> QED BY <3>1, <3>2, <3>3 DEF FormerOrNew, Swapped, Ahead
  <2>2. pc' = "RelaunchRequired" => u'.way = "back"
    BY <1>24, <2>0, UndoEndSteps
  <2> QED BY <2>1, <2>2 DEF FormerOrNew, Swapped, Ahead, Undoing
<1>25. CASE UNCHANGED vars
  BY <1>25 DEF vars, FormerOrNew, WholeAtRest, Absent, Old, New, VersionInv, FilesInv, CallerInv, TypeOK, AttemptOK, Remembered, WayAndPlace, Early, TornIsLast, Swapped
<1> QED BY <1>1, <1>2, <1>3, <1>4, <1>5, <1>6, <1>7, <1>8, <1>9, <1>10, <1>11, <1>12, <1>13, <1>14, <1>15, <1>16, <1>17, <1>18, <1>19, <1>20, <1>21, <1>22, <1>23, <1>24, <1>25 DEF Next, Updater

LEMMA EndsStep == ~RetryTorn /\ VersionInv /\ [Next]_vars => EndsWhole'
<1> SUFFICES ASSUME ~RetryTorn, VersionInv, [Next]_vars PROVE EndsWhole'
  OBVIOUS
<1> USE DEF Stays, Quiet, Handed, disk
<1>1. ASSUME NEW i \in Images, Start(i) PROVE EndsWhole'
  BY <1>1, UpdateConstants DEF Start, EndsWhole, WholeAtRest, Whole
<1>2. CASE CallerAnswers
  BY <1>2 DEF CallerAnswers, EndsWhole, WholeAtRest, Whole, Absent, Old, New, VersionInv
<1>3. CASE CallerGivesUp
  BY <1>3 DEF CallerGivesUp, EndsWhole, WholeAtRest, Whole, Absent, Old, New, VersionInv
<1>4. CASE CallerCloses
  BY <1>4 DEF CallerCloses, EndsWhole, WholeAtRest, Whole, Absent, Old, New, VersionInv
<1>5. ASSUME NEW i \in Images, Closes(i) PROVE EndsWhole'
  BY <1>5 DEF Closes, EndsWhole, WholeAtRest, Whole, Absent, Old, New, VersionInv
<1>6. ASSUME NEW i \in Images, CarriesOn(i) PROVE EndsWhole'
  BY <1>6 DEF CarriesOn, EndsWhole, WholeAtRest, Whole, Absent, Old, New, VersionInv
<1>7. ASSUME NEW i \in Images, UserStarts(i) PROVE EndsWhole'
  BY <1>7 DEF UserStarts, EndsWhole, WholeAtRest, Whole, Absent, Old, New, VersionInv
<1>8. CASE Killed
  BY <1>8 DEF Killed, EndsWhole, WholeAtRest, Whole
<1>9. CASE CheckRequested
  BY <1>9 DEF CheckRequested, Finish, Enter, EndsWhole, WholeAtRest, Whole, Absent, Old, New, VersionInv, FilesInv, CallerInv, TypeOK, AttemptOK, Remembered, WayAndPlace, Early
<1>10. CASE Download
  BY <1>10 DEF Download, Abandon, Enter, EndsWhole
<1>11. CASE Verify
  BY <1>11 DEF Verify, Captured, Abandon, Enter, EndsWhole
<1>12. CASE Prepare
  BY <1>12 DEF Prepare, MayStop, Abandon, Enter, EndsWhole
<1>13. CASE Quiesce
  BY <1>13 DEF Quiesce, Abandon, Enter, EndsWhole
<1>14. CASE MoveAside
  BY <1>14, MoveAsideSteps DEF MoveAside, GoBack, Enter, Next1, EndsWhole
<1>15. CASE Place
  BY <1>15, PlaceSteps DEF Place, GoBack, Enter, Next1, EndsWhole
<1>16. CASE Register
  BY <1>16 DEF Register, GoBack, Enter, EndsWhole
<1>17. CASE RelaunchRequired
  BY <1>17, RequiredKeeps DEF SameFiles, SameBase, EndsWhole, WholeAtRest, Whole, Absent, Old, New, VersionInv, FilesInv, CallerInv
<1>18. CASE HealthCheck
  BY <1>18, HealthKeeps DEF SameFiles, SameBase, EndsWhole, WholeAtRest, Whole, Absent, Old, New, VersionInv, FilesInv, CallerInv
<1>19. CASE Commit
  BY <1>19 DEF Commit, Enter, EndsWhole, WholeAtRest, Whole
<1>20. CASE RelaunchOptional
  <2>1. TypeOK
    BY DEF VersionInv, FilesInv, CallerInv
  <2>2. PICK missing : u'.result = Result(missing)
    BY <1>20, <2>1, OptionalKeeps
  <2>3. /\ pc = "RelaunchOptional" /\ UNCHANGED <<live, registered, torn>>
        /\ u'.installed = u.installed
    BY <1>20, <2>1, OptionalKeeps DEF SameFiles, SameBase
  <2>4. CASE u.way = "forward"
    <3>1. u'.result \in {"Updated", "UpdatedButNotRelaunched"}
      BY <2>2, <2>4 DEF Result
    <3>2. ~torn => Whole(New)
      BY <2>3, <2>4 DEF VersionInv, WholeAtRest
    <3> QED BY <2>3, <3>1, <3>2 DEF EndsWhole, Whole
  <2>5. CASE u.way # "forward"
    <3>1. u'.result \notin {"Updated", "UpdatedButNotRelaunched", "NothingToDo"}
      BY <2>2, <2>5 DEF Result
    <3>2. u.way \in {"abandon", "back"}
      BY <2>1, <2>5 DEF TypeOK, AttemptOK
    <3>3. ~torn => Whole(u.installed)
      BY <2>3, <3>2 DEF VersionInv, WholeAtRest
    <3> QED BY <2>3, <3>1, <3>3 DEF EndsWhole, Whole
  <2> QED BY <2>4, <2>5
<1>21. CASE ReleaseBeforeRollback
  BY <1>21 DEF ReleaseBeforeRollback, Refuse, Finish, Enter, EndsWhole, WholeAtRest, Whole, Absent, Old, New, VersionInv
<1>22. CASE Probe
  BY <1>22 DEF Probe, Refuse, Finish, Enter, EndsWhole, WholeAtRest, Whole, Absent, Old, New, VersionInv
<1>23. CASE Undo
  BY <1>23, UndoSteps DEF Undo, Next1, EndsWhole, WholeAtRest, Whole
<1>24. CASE UndoEnds
  BY <1>24, UndoEndSteps DEF UndoEnds, EndsWhole, WholeAtRest, Whole, Absent, Old, New, VersionInv, FilesInv, CallerInv
<1>25. CASE UNCHANGED vars
  BY <1>25 DEF vars, EndsWhole, WholeAtRest, Whole, Absent, Old, New, VersionInv
<1> QED BY <1>1, <1>2, <1>3, <1>4, <1>5, <1>6, <1>7, <1>8, <1>9, <1>10, <1>11, <1>12, <1>13, <1>14, <1>15, <1>16, <1>17, <1>18, <1>19, <1>20, <1>21, <1>22, <1>23, <1>24, <1>25 DEF Next, Updater

LEMMA VersionInvStep == ~RetryTorn /\ StartsOutsideSwap /\ VersionInv /\ [Next]_vars => VersionInv'
<1> SUFFICES ASSUME ~RetryTorn, StartsOutsideSwap, VersionInv, [Next]_vars PROVE VersionInv'
  OBVIOUS
<1>1. FilesInv /\ CallerInv /\ TypeOK /\ WayAndPlace
  BY DEF VersionInv, FilesInv, CallerInv
<1>2. CallerInv'
  BY <1>1, TypesStep, WayStep, CallerLeftStep DEF CallerInv
<1>3. FilesInv'
  BY <1>1, <1>2, TornStep, UndoneStep, UnmovedStep, SwappedStep, LostStep, PlacedStep, CopiesStep DEF FilesInv
<1> QED BY <1>3, RunsStep, StoppedStep, RestStep, FormerStep, EndsStep DEF VersionInv

LEMMA VersionInvariant == ~RetryTorn /\ StartsOutsideSwap => (Spec => []VersionInv)
<1> SUFFICES ASSUME ~RetryTorn, StartsOutsideSwap PROVE Spec => []VersionInv
  OBVIOUS
<1>1. VersionInv /\ [Next]_vars => VersionInv'
  BY VersionInvStep
<1> QED BY <1>1, VersionInit, PTL DEF Spec

(* An attempt leaves one version, file for file and in the registry, the one *)
(* its result names, unless it died or failed to undo a file -- provided     *)
(* that no attempt follows such a one, and that nobody starts a program      *)
(* between the wait for those that close and the replacement of its file     *)
(* (run_update, Swap, Rollback, Commit).                                     *)
THEOREM AttemptsEndWhole == ~RetryTorn /\ StartsOutsideSwap => (Spec => []EndsWhole)
<1> SUFFICES ASSUME ~RetryTorn, StartsOutsideSwap PROVE Spec => []EndsWhole
  OBVIOUS
<1>1. VersionInv => EndsWhole
  BY DEF VersionInv
<1> QED BY <1>1, VersionInvariant, PTL
-----------------------------------------------------------------------------
(* Programs, when nobody starts one while those that run are asked to close *)

LEMMA ProgramsInit == Init => ProgramsInv
<1> SUFFICES ASSUME Init PROVE CapturedFirst /\ AnswersInTime /\ AskedAreAlive /\ BroughtBack
  BY VersionInit DEF ProgramsInv
<1> QED BY DEF Init, Attempt, CapturedFirst, Uncaptured, AnswersInTime, AskedAreAlive, BroughtBack

LEMMA ResumedRun ==
  ASSUME TypeOK, NEW phase, NEW up \in Relaunched(phase)
  PROVE  \A i \in Images : /\ run[i] # Absent => Resumed(up)[i] = run[i]
                           /\ i \in up => Resumed(up)[i] # Absent
BY DEF Relaunched, Resumed

LEMMA RelaunchRuns ==
  ASSUME TypeOK, RelaunchRequired \/ RelaunchOptional
  PROVE  /\ \A i \in Images : run[i] # Absent => run'[i] = run[i]
         /\ u'.alive = u.alive /\ u'.stopped = u.stopped /\ u'.before = u.before /\ u'.delivered = u.delivered
         /\ UNCHANGED <<closing, caller, ready>> /\ u'.owned \subseteq u.owned \cup (Images \ Running)
<1>1. PICK phase, up : up \in Relaunched(phase) /\
        run' = Resumed(up) /\ \E result : \/ u' = After(phase, up)
                                          \/ u' = [After(phase, up) EXCEPT !.result = result]
  BY DEF RelaunchRequired, RelaunchOptional
<1>2. After(phase, up).owned \subseteq u.owned \cup (Images \ Running)
  BY DEF After, TypeOK, Images
<1>3. u'.alive = u.alive /\ u'.stopped = u.stopped /\ u'.before = u.before /\ u'.delivered = u.delivered
  BY <1>1, AfterKeeps DEF Remembered
<1>4. u'.owned = After(phase, up).owned
  BY <1>1, AfterKeeps DEF Remembered
<1> QED BY <1>1, <1>2, <1>3, <1>4, ResumedRun DEF RelaunchRequired, RelaunchOptional, Handed

SamePrograms ==
  /\ UNCHANGED <<run, closing, caller, ready>> /\ u'.alive = u.alive /\ u'.stopped = u.stopped /\ u'.owned = u.owned
  /\ u'.before = u.before /\ u'.delivered = u.delivered /\ u'.missing = u.missing

LEMMA HealthPrograms == TypeOK /\ HealthCheck => SamePrograms
<1> SUFFICES ASSUME TypeOK, HealthCheck PROVE SamePrograms
  OBVIOUS
<1>1. PICK healthy : u' = [u EXCEPT !.healthy = healthy] \/ UNCHANGED u \/ GoBack
  BY DEF HealthCheck
<1>2. CASE u' = [u EXCEPT !.healthy = healthy]
  BY <1>2 DEF SamePrograms, HealthCheck, Quiet, Handed
<1>3. CASE GoBack
  BY <1>3 DEF SamePrograms, HealthCheck, Quiet, Handed, GoBack
<1>4. CASE UNCHANGED u
  BY <1>4 DEF SamePrograms, HealthCheck, Quiet, Handed
<1> QED BY <1>1, <1>2, <1>3, <1>4

LEMMA UndoEndPrograms == TypeOK /\ UndoEnds => SamePrograms
<1> SUFFICES ASSUME TypeOK, UndoEnds PROVE SamePrograms
  OBVIOUS
<1>1. CASE u' = [u EXCEPT !.inner = FALSE, !.n = 1, !.ok = TRUE, !.moved = {}, !.placed = {},
                          !.way = IF u.inner THEN u.way ELSE "back"]
  BY <1>1 DEF SamePrograms, UndoEnds, Quiet, Handed
<1>2. CASE u' = [u EXCEPT !.result = "RollbackFailed"]
  BY <1>2 DEF SamePrograms, UndoEnds, Quiet, Handed
<1> QED BY <1>1, <1>2 DEF UndoEnds

LEMMA CapturedStep == StartsOutsideStop /\ ProgramsInv /\ [Next]_vars => CapturedFirst'
<1> SUFFICES ASSUME StartsOutsideStop, ProgramsInv, [Next]_vars PROVE CapturedFirst'
  OBVIOUS
<1> USE DEF Stays, Quiet, Handed, disk
<1>1. ASSUME NEW i \in Images, Start(i) PROVE CapturedFirst'
  BY <1>1 DEF Start, Attempt, CapturedFirst, Uncaptured, ProgramsInv, VersionInv, FilesInv, CallerInv, TypeOK, AttemptOK, Remembered, WayAndPlace, CallerLeft, Early, Running, RunsOn
<1>2. CASE CallerAnswers
  BY <1>2 DEF CallerAnswers, CapturedFirst, Uncaptured, ProgramsInv, VersionInv, FilesInv, CallerInv, TypeOK, AttemptOK, Remembered, WayAndPlace, CallerLeft, Early, Running
<1>3. CASE CallerGivesUp
  BY <1>3 DEF CallerGivesUp, CapturedFirst, Uncaptured, ProgramsInv, VersionInv, FilesInv, CallerInv, TypeOK, AttemptOK, Remembered, WayAndPlace, CallerLeft, Early, Running, RunsOn
<1>4. CASE CallerCloses
  BY <1>4 DEF CallerCloses, CapturedFirst, Uncaptured, ProgramsInv, VersionInv, FilesInv, CallerInv, TypeOK, AttemptOK, Remembered, WayAndPlace, CallerLeft, Early, Running, RunsOn
<1>5. ASSUME NEW i \in Images, Closes(i) PROVE CapturedFirst'
  BY <1>5 DEF Closes, CapturedFirst, Uncaptured, ProgramsInv, VersionInv, FilesInv, CallerInv, TypeOK, AttemptOK, Remembered, WayAndPlace, CallerLeft, Early, Running, RunsOn
<1>6. ASSUME NEW i \in Images, CarriesOn(i) PROVE CapturedFirst'
  BY <1>6 DEF CarriesOn, CapturedFirst, Uncaptured, ProgramsInv, VersionInv, FilesInv, CallerInv, TypeOK, AttemptOK, Remembered, WayAndPlace, CallerLeft, Early, Running, RunsOn
<1>7. ASSUME NEW i \in Images, UserStarts(i) PROVE CapturedFirst'
  BY <1>7 DEF UserStarts, StartsOutsideStop, CapturedFirst, Uncaptured, ProgramsInv, VersionInv, FilesInv, CallerInv, TypeOK, AttemptOK, Remembered, WayAndPlace, CallerLeft, Early, Running, RunsOn
<1>8. CASE Killed
  BY <1>8 DEF Killed, CapturedFirst, Uncaptured, ProgramsInv, VersionInv, FilesInv, CallerInv, TypeOK, AttemptOK, Remembered, WayAndPlace, CallerLeft, Early, Running, RunsOn
<1>9. CASE CheckRequested
  BY <1>9 DEF CheckRequested, Finish, Enter, CapturedFirst, Uncaptured, ProgramsInv, VersionInv, FilesInv, CallerInv, TypeOK, AttemptOK, Remembered, WayAndPlace, CallerLeft, Early, Running, RunsOn
<1>10. CASE Download
  BY <1>10 DEF Download, Abandon, Enter, CapturedFirst, Uncaptured, ProgramsInv, VersionInv, FilesInv, CallerInv, TypeOK, AttemptOK, Remembered, WayAndPlace, CallerLeft, Early, Running, RunsOn
<1>11. CASE Verify
  <2>0. /\ TypeOK /\ u.owned = {} /\ u.before \subseteq Running /\ RunsOn(u.before) /\ ~ready
        /\ u.alive \subseteq Running /\ pc = "Verify" /\ UNCHANGED <<run, closing>>
    BY <1>11 DEF Verify, ProgramsInv, VersionInv, FilesInv, CallerInv, WayAndPlace, Early, CapturedFirst, Uncaptured, RunsOn
  <2>1. CASE Enter("Prepare") /\ u' = Captured /\ ready' = Captured.delivered
    <3>1. /\ u'.alive = Running /\ u'.stopped = Running /\ u'.before = u.before /\ u'.owned = {} /\ ready' = u'.delivered
      BY <2>0, <2>1 DEF Captured
    <3> QED BY <2>0, <2>1, <3>1 DEF Enter, CapturedFirst, Uncaptured, Running
  <2>2. CASE Abandon /\ UNCHANGED ready
    <3>1. /\ u'.alive = u.alive /\ u'.before = u.before /\ u'.owned = {} /\ u'.way = "abandon" /\ pc' = "RelaunchRequired"
      BY <2>0, <2>2 DEF Abandon, Enter
    <3> QED BY <2>0, <2>2, <3>1 DEF CapturedFirst, Running, RunsOn
  <2> QED BY <1>11, <2>1, <2>2 DEF Verify
<1>12. CASE Prepare
  BY <1>12 DEF Prepare, MayStop, Abandon, Enter, CapturedFirst, Uncaptured, ProgramsInv, VersionInv, FilesInv, CallerInv, TypeOK, AttemptOK, Remembered, WayAndPlace, CallerLeft, Early, Running
<1>13. CASE Quiesce
  BY <1>13 DEF Quiesce, Abandon, Enter, CapturedFirst, Uncaptured, ProgramsInv, VersionInv, FilesInv, CallerInv, TypeOK, AttemptOK, Remembered, WayAndPlace, CallerLeft, Early, Running
<1>14. CASE MoveAside
  BY ZenonT(30), <1>14 DEF MoveAside, GoBack, Enter, Next1, CapturedFirst, Uncaptured, ProgramsInv, VersionInv, FilesInv, CallerInv, TypeOK, AttemptOK, Remembered, WayAndPlace, CallerLeft, Early, Running, RunsOn
<1>15. CASE Place
  BY ZenonT(30), <1>15 DEF Place, GoBack, Enter, Next1, CapturedFirst, Uncaptured, ProgramsInv, VersionInv, FilesInv, CallerInv, TypeOK, AttemptOK, Remembered, WayAndPlace, CallerLeft, Early, Running, RunsOn
<1>16. CASE Register
  BY <1>16 DEF Register, GoBack, Enter, CapturedFirst, Uncaptured, ProgramsInv, VersionInv, FilesInv, CallerInv, TypeOK, AttemptOK, Remembered, WayAndPlace, CallerLeft, Early, Running, RunsOn
<1>17. CASE RelaunchRequired
  BY <1>17, RequiredKeeps, RelaunchRuns DEF SameFiles, SameBase, CapturedFirst, Uncaptured, ProgramsInv, VersionInv, FilesInv, CallerInv, TypeOK, AttemptOK, Remembered, WayAndPlace, CallerLeft, Early, Running, RunsOn
<1>18. CASE HealthCheck
  <2>0. TypeOK
    BY DEF ProgramsInv, VersionInv, FilesInv, CallerInv
  <2> QED BY <1>18, <2>0, HealthKeeps, HealthPrograms
          DEF SameBase, SamePrograms, ProgramsInv, CapturedFirst, Uncaptured, Running, RunsOn
<1>19. CASE Commit
  BY <1>19 DEF Commit, Enter, CapturedFirst, Uncaptured, ProgramsInv, VersionInv, FilesInv, CallerInv, TypeOK, AttemptOK, Remembered, WayAndPlace, CallerLeft, Early, Running
<1>20. CASE RelaunchOptional
  BY <1>20, OptionalKeeps, RelaunchRuns DEF SameFiles, SameBase, CapturedFirst, Uncaptured, ProgramsInv, VersionInv, FilesInv, CallerInv, TypeOK, AttemptOK, Remembered, WayAndPlace, CallerLeft, Early, Running, RunsOn
<1>21. CASE ReleaseBeforeRollback
  BY ZenonT(30), <1>21 DEF ReleaseBeforeRollback, Refuse, Finish, Enter, CapturedFirst, Uncaptured, ProgramsInv, VersionInv, FilesInv, CallerInv, TypeOK, AttemptOK, Remembered, WayAndPlace, CallerLeft, Early, Running, RunsOn
<1>22. CASE Probe
  BY <1>22 DEF Probe, Refuse, Finish, Enter, CapturedFirst, Uncaptured, ProgramsInv, VersionInv, FilesInv, CallerInv, TypeOK, AttemptOK, Remembered, WayAndPlace, CallerLeft, Early, Running
<1>23. CASE Undo
  BY <1>23 DEF Undo, Next1, CapturedFirst, Uncaptured, ProgramsInv, VersionInv, FilesInv, CallerInv, TypeOK, AttemptOK, Remembered, WayAndPlace, CallerLeft, Early, Running, RunsOn
<1>24. CASE UndoEnds
  <2>0. TypeOK
    BY DEF ProgramsInv, VersionInv, FilesInv, CallerInv
  <2> QED BY <1>24, <2>0, UndoEndSteps, UndoEndPrograms
          DEF SamePrograms, ProgramsInv, VersionInv, FilesInv, CallerInv, WayAndPlace, CapturedFirst, Uncaptured, Running
<1>25. CASE UNCHANGED vars
  BY <1>25 DEF vars, CapturedFirst, Uncaptured, ProgramsInv, VersionInv, FilesInv, CallerInv, TypeOK, AttemptOK, Remembered, WayAndPlace, CallerLeft, Early, Running, RunsOn
<1> QED BY <1>1, <1>2, <1>3, <1>4, <1>5, <1>6, <1>7, <1>8, <1>9, <1>10, <1>11, <1>12, <1>13, <1>14, <1>15, <1>16, <1>17, <1>18, <1>19, <1>20, <1>21, <1>22, <1>23, <1>24, <1>25 DEF Next, Updater

LEMMA AnswersStep == StartsOutsideStop /\ ProgramsInv /\ [Next]_vars => AnswersInTime'
<1> SUFFICES ASSUME StartsOutsideStop, ProgramsInv, [Next]_vars PROVE AnswersInTime'
  OBVIOUS
<1> USE DEF Stays, Quiet, Handed, disk
<1>1. ASSUME NEW i \in Images, Start(i) PROVE AnswersInTime'
  BY <1>1 DEF Start, Attempt, AnswersInTime, KilledInIt, CapturedFirst, Uncaptured, ProgramsInv, VersionInv, FilesInv, CallerInv, TypeOK, AttemptOK, Remembered, WayAndPlace, CallerLeft, Early, Running
<1>2. CASE CallerAnswers
  BY <1>2 DEF CallerAnswers, AnswersInTime, KilledInIt, CapturedFirst, Uncaptured, ProgramsInv, VersionInv, FilesInv, CallerInv, TypeOK
<1>3. CASE CallerGivesUp
  BY <1>3 DEF CallerGivesUp, AnswersInTime, KilledInIt
<1>4. CASE CallerCloses
  BY <1>4 DEF CallerCloses, AnswersInTime, KilledInIt
<1>5. ASSUME NEW i \in Images, Closes(i) PROVE AnswersInTime'
  BY <1>5 DEF Closes, AnswersInTime, KilledInIt, CapturedFirst, Uncaptured, ProgramsInv, VersionInv, FilesInv, CallerInv, TypeOK, AttemptOK, Remembered, WayAndPlace, CallerLeft, Early, Running
<1>6. ASSUME NEW i \in Images, CarriesOn(i) PROVE AnswersInTime'
  BY <1>6 DEF CarriesOn, AnswersInTime, KilledInIt, CapturedFirst, Uncaptured, ProgramsInv, VersionInv, FilesInv, CallerInv, TypeOK, AttemptOK, Remembered, WayAndPlace, CallerLeft, Early, Running
<1>7. ASSUME NEW i \in Images, UserStarts(i) PROVE AnswersInTime'
  BY <1>7 DEF UserStarts, AnswersInTime, KilledInIt, CapturedFirst, Uncaptured, ProgramsInv, VersionInv, FilesInv, CallerInv, TypeOK, AttemptOK, Remembered, WayAndPlace, CallerLeft, Early, Running
<1>8. CASE Killed
  BY <1>8 DEF Killed, AnswersInTime, KilledInIt, CapturedFirst, Uncaptured, ProgramsInv, VersionInv, FilesInv, CallerInv, TypeOK, AttemptOK, Remembered, WayAndPlace, Early
<1>9. CASE CheckRequested
  BY <1>9 DEF CheckRequested, Finish, Enter, AnswersInTime, KilledInIt, CapturedFirst, Uncaptured, ProgramsInv, VersionInv, FilesInv, CallerInv, TypeOK, AttemptOK, Remembered, WayAndPlace, CallerLeft, Early, Running
<1>10. CASE Download
  BY <1>10 DEF Download, Abandon, Enter, AnswersInTime, KilledInIt, CapturedFirst, Uncaptured, ProgramsInv, VersionInv, FilesInv, CallerInv, TypeOK, AttemptOK, Remembered, WayAndPlace, CallerLeft, Early, Running
<1>11. CASE Verify
  BY <1>11 DEF Verify, Captured, Abandon, Enter, AnswersInTime, KilledInIt, CapturedFirst, Uncaptured, ProgramsInv, VersionInv, FilesInv, CallerInv, TypeOK, AttemptOK, Remembered, WayAndPlace, CallerLeft, Early, Running
<1>12. CASE Prepare
  BY <1>12 DEF Prepare, MayStop, Abandon, Enter, AnswersInTime, KilledInIt, CapturedFirst, Uncaptured, ProgramsInv, VersionInv, FilesInv, CallerInv, TypeOK, AttemptOK, Remembered, WayAndPlace, Early
<1>13. CASE Quiesce
  BY <1>13 DEF Quiesce, Abandon, Enter, AnswersInTime, KilledInIt, CapturedFirst, Uncaptured, ProgramsInv, VersionInv, FilesInv, CallerInv, TypeOK, AttemptOK, Remembered, WayAndPlace, CallerLeft
<1>14. CASE MoveAside
  BY <1>14 DEF MoveAside, GoBack, Enter, Next1, AnswersInTime, KilledInIt, CapturedFirst, Uncaptured, ProgramsInv, VersionInv, FilesInv, CallerInv, TypeOK, AttemptOK, Remembered, WayAndPlace, CallerLeft
<1>15. CASE Place
  BY <1>15 DEF Place, GoBack, Enter, Next1, AnswersInTime, KilledInIt, CapturedFirst, Uncaptured, ProgramsInv, VersionInv, FilesInv, CallerInv, TypeOK, AttemptOK, Remembered, WayAndPlace, CallerLeft
<1>16. CASE Register
  BY <1>16 DEF Register, GoBack, Enter, AnswersInTime, KilledInIt, CapturedFirst, Uncaptured, ProgramsInv, VersionInv, FilesInv, CallerInv, TypeOK, AttemptOK, Remembered, WayAndPlace, CallerLeft
<1>17. CASE RelaunchRequired
  BY <1>17, RequiredKeeps, RelaunchRuns DEF SameFiles, SameBase, AnswersInTime, KilledInIt, CapturedFirst, Uncaptured, ProgramsInv, VersionInv, FilesInv, CallerInv, TypeOK, AttemptOK, Remembered, WayAndPlace, Early
<1>18. CASE HealthCheck
  <2>0. TypeOK
    BY DEF ProgramsInv, VersionInv, FilesInv, CallerInv
  <2> QED BY <1>18, <2>0, HealthKeeps, HealthPrograms
          DEF SamePrograms, ProgramsInv, AnswersInTime, KilledInIt, Early
<1>19. CASE Commit
  BY <1>19 DEF Commit, Enter, AnswersInTime, KilledInIt, CapturedFirst, Uncaptured, ProgramsInv, VersionInv, FilesInv, CallerInv, TypeOK, AttemptOK, Remembered, WayAndPlace, CallerLeft
<1>20. CASE RelaunchOptional
  BY <1>20, OptionalKeeps, RelaunchRuns DEF SameFiles, SameBase, AnswersInTime, KilledInIt, CapturedFirst, Uncaptured, ProgramsInv, VersionInv, FilesInv, CallerInv, TypeOK, AttemptOK, Remembered, WayAndPlace, Early
<1>21. CASE ReleaseBeforeRollback
  BY <1>21 DEF ReleaseBeforeRollback, Refuse, Finish, Enter, AnswersInTime, KilledInIt, CapturedFirst, Uncaptured, ProgramsInv, VersionInv, FilesInv, CallerInv, TypeOK, AttemptOK, Remembered, WayAndPlace, CallerLeft
<1>22. CASE Probe
  BY <1>22 DEF Probe, Refuse, Finish, Enter, AnswersInTime, KilledInIt, CapturedFirst, Uncaptured, ProgramsInv, VersionInv, FilesInv, CallerInv, TypeOK, AttemptOK, Remembered, WayAndPlace, CallerLeft
<1>23. CASE Undo
  BY <1>23 DEF Undo, Next1, AnswersInTime, KilledInIt, CapturedFirst, Uncaptured, ProgramsInv, VersionInv, FilesInv, CallerInv, TypeOK, AttemptOK, Remembered, WayAndPlace, CallerLeft
<1>24. CASE UndoEnds
  BY <1>24 DEF UndoEnds, AnswersInTime, KilledInIt, CapturedFirst, Uncaptured, ProgramsInv, VersionInv, FilesInv, CallerInv, TypeOK, AttemptOK, Remembered, WayAndPlace, CallerLeft
<1>25. CASE UNCHANGED vars
  BY <1>25 DEF vars, AnswersInTime, KilledInIt, CapturedFirst, Uncaptured, ProgramsInv, VersionInv, FilesInv, CallerInv, TypeOK, AttemptOK, Remembered, WayAndPlace, CallerLeft, Early, Running
<1> QED BY <1>1, <1>2, <1>3, <1>4, <1>5, <1>6, <1>7, <1>8, <1>9, <1>10, <1>11, <1>12, <1>13, <1>14, <1>15, <1>16, <1>17, <1>18, <1>19, <1>20, <1>21, <1>22, <1>23, <1>24, <1>25 DEF Next, Updater

LEMMA AskedStep == StartsOutsideStop /\ ProgramsInv /\ [Next]_vars => AskedAreAlive'
<1> SUFFICES ASSUME StartsOutsideStop, ProgramsInv, [Next]_vars PROVE AskedAreAlive'
  OBVIOUS
<1> USE DEF Stays, Quiet, Handed, disk
<1>1. ASSUME NEW i \in Images, Start(i) PROVE AskedAreAlive'
  BY <1>1 DEF Start, Attempt, AskedAreAlive
<1>2. CASE CallerAnswers
  BY <1>2 DEF CallerAnswers, AskedAreAlive, AnswersInTime, KilledInIt, CapturedFirst, Uncaptured, ProgramsInv, VersionInv, FilesInv, CallerInv, TypeOK, AttemptOK, Remembered, WayAndPlace, Early
<1>3. CASE CallerGivesUp
  BY <1>3 DEF CallerGivesUp, AskedAreAlive, AnswersInTime, KilledInIt, CapturedFirst, Uncaptured, ProgramsInv
<1>4. CASE CallerCloses
  BY <1>4 DEF CallerCloses, AskedAreAlive, AnswersInTime, KilledInIt, CapturedFirst, Uncaptured, ProgramsInv
<1>5. ASSUME NEW i \in Images, Closes(i) PROVE AskedAreAlive'
  BY <1>5 DEF Closes, AskedAreAlive, AnswersInTime, KilledInIt, CapturedFirst, Uncaptured, ProgramsInv
<1>6. ASSUME NEW i \in Images, CarriesOn(i) PROVE AskedAreAlive'
  BY <1>6 DEF CarriesOn, AskedAreAlive, AnswersInTime, KilledInIt, CapturedFirst, Uncaptured, ProgramsInv
<1>7. ASSUME NEW i \in Images, UserStarts(i) PROVE AskedAreAlive'
  BY <1>7 DEF UserStarts, AskedAreAlive, AnswersInTime, KilledInIt, CapturedFirst, Uncaptured, ProgramsInv
<1>8. CASE Killed
  BY <1>8 DEF Killed, AskedAreAlive, AnswersInTime, KilledInIt
<1>9. CASE CheckRequested
  BY <1>9 DEF CheckRequested, Finish, Enter, AskedAreAlive, AnswersInTime, KilledInIt, CapturedFirst, Uncaptured, ProgramsInv, VersionInv, FilesInv, CallerInv, TypeOK, AttemptOK, Remembered
<1>10. CASE Download
  BY <1>10 DEF Download, Abandon, Enter, AskedAreAlive, AnswersInTime, KilledInIt, CapturedFirst, Uncaptured, ProgramsInv, VersionInv, FilesInv, CallerInv, TypeOK, AttemptOK, Remembered
<1>11. CASE Verify
  BY ZenonT(30), <1>11 DEF Verify, Captured, Abandon, Enter, AskedAreAlive, AnswersInTime, KilledInIt, CapturedFirst, Uncaptured, ProgramsInv, VersionInv, FilesInv, CallerInv, TypeOK, AttemptOK, Remembered
<1>12. CASE Prepare
  BY <1>12 DEF Prepare, MayStop, Abandon, Enter, AskedAreAlive, AnswersInTime, KilledInIt, CapturedFirst, Uncaptured, ProgramsInv, VersionInv, FilesInv, CallerInv, TypeOK, AttemptOK, Remembered
<1>13. CASE Quiesce
  BY <1>13 DEF Quiesce, Abandon, Enter, AskedAreAlive, AnswersInTime, KilledInIt, CapturedFirst, Uncaptured, ProgramsInv, VersionInv, FilesInv, CallerInv, TypeOK, AttemptOK, Remembered
<1>14. CASE MoveAside
  BY <1>14 DEF MoveAside, GoBack, Enter, Next1, AskedAreAlive, AnswersInTime, KilledInIt, CapturedFirst, Uncaptured, ProgramsInv, VersionInv, FilesInv, CallerInv, TypeOK, AttemptOK, Remembered
<1>15. CASE Place
  BY <1>15 DEF Place, GoBack, Enter, Next1, AskedAreAlive, AnswersInTime, KilledInIt, CapturedFirst, Uncaptured, ProgramsInv, VersionInv, FilesInv, CallerInv, TypeOK, AttemptOK, Remembered
<1>16. CASE Register
  BY <1>16 DEF Register, GoBack, Enter, AskedAreAlive, AnswersInTime, KilledInIt, CapturedFirst, Uncaptured, ProgramsInv, VersionInv, FilesInv, CallerInv, TypeOK, AttemptOK, Remembered
<1>17. CASE RelaunchRequired
  BY <1>17, RequiredKeeps, RelaunchRuns DEF SameFiles, SameBase, AskedAreAlive, AnswersInTime, KilledInIt, CapturedFirst, Uncaptured, ProgramsInv, VersionInv, FilesInv, CallerInv
<1>18. CASE HealthCheck
  <2>0. TypeOK
    BY DEF ProgramsInv, VersionInv, FilesInv, CallerInv
  <2> QED BY <1>18, <2>0, HealthKeeps, HealthPrograms
          DEF SamePrograms, ProgramsInv, AskedAreAlive, KilledInIt
<1>19. CASE Commit
  BY <1>19 DEF Commit, Enter, AskedAreAlive, AnswersInTime, KilledInIt, CapturedFirst, Uncaptured, ProgramsInv
<1>20. CASE RelaunchOptional
  BY <1>20, OptionalKeeps, RelaunchRuns DEF SameFiles, SameBase, AskedAreAlive, AnswersInTime, KilledInIt, CapturedFirst, Uncaptured, ProgramsInv, VersionInv, FilesInv, CallerInv
<1>21. CASE ReleaseBeforeRollback
  BY <1>21 DEF ReleaseBeforeRollback, Refuse, Finish, Enter, AskedAreAlive, AnswersInTime, KilledInIt, CapturedFirst, Uncaptured, ProgramsInv, VersionInv, FilesInv, CallerInv, TypeOK, AttemptOK, Remembered
<1>22. CASE Probe
  BY <1>22 DEF Probe, Refuse, Finish, Enter, AskedAreAlive, AnswersInTime, KilledInIt, CapturedFirst, Uncaptured, ProgramsInv, VersionInv, FilesInv, CallerInv, TypeOK, AttemptOK, Remembered
<1>23. CASE Undo
  BY <1>23 DEF Undo, Next1, AskedAreAlive, AnswersInTime, KilledInIt, CapturedFirst, Uncaptured, ProgramsInv, VersionInv, FilesInv, CallerInv, TypeOK, AttemptOK, Remembered
<1>24. CASE UndoEnds
  <2>0. TypeOK
    BY DEF ProgramsInv, VersionInv, FilesInv, CallerInv
  <2> QED BY <1>24, <2>0, UndoEndSteps, UndoEndPrograms
          DEF SamePrograms, ProgramsInv, AskedAreAlive, KilledInIt
<1>25. CASE UNCHANGED vars
  BY <1>25 DEF vars, AskedAreAlive, AnswersInTime, KilledInIt, CapturedFirst, Uncaptured, ProgramsInv
<1> QED BY <1>1, <1>2, <1>3, <1>4, <1>5, <1>6, <1>7, <1>8, <1>9, <1>10, <1>11, <1>12, <1>13, <1>14, <1>15, <1>16, <1>17, <1>18, <1>19, <1>20, <1>21, <1>22, <1>23, <1>24, <1>25 DEF Next, Updater

(* After a relaunch, what ran at the start and belongs to its phase runs on, *)
(* or is among the missing.                                                  *)
LEMMA RelaunchBrings ==
  ASSUME ProgramsInv, ~SlowClose, NEW phase, GraceIsOver(phase), NEW up \in Relaunched(phase),
         pc # "Idle", run' = Resumed(up), UNCHANGED closing
  PROVE  \A i \in u.before \cap phase : (run'[i] # Absent /\ i \notin closing) \/ i \in Down(phase) \ up
<1> SUFFICES ASSUME NEW i \in u.before \cap phase PROVE (run'[i] # Absent /\ i \notin closing) \/ i \in Down(phase) \ up
  OBVIOUS
<1>0. TypeOK /\ i \in Images
  BY DEF ProgramsInv, VersionInv, FilesInv, CallerInv, TypeOK, AttemptOK
<1>1. CASE i \notin u.stopped
  BY <1>0, <1>1, ResumedRun DEF ProgramsInv, CapturedFirst, Uncaptured, RunsOn, Running
<1>2. CASE i \in u.stopped /\ i \in u.alive
  BY <1>0, <1>2, ResumedRun DEF ProgramsInv, CapturedFirst, GraceIsOver, Running
<1>3. CASE i \in u.stopped /\ i \notin u.alive
  <2>1. i \in Down(phase)
    BY <1>3 DEF Down
  <2>2. i \notin closing
    BY <1>3 DEF ProgramsInv, AskedAreAlive, KilledInIt
  <2> QED BY <1>0, <2>1, <2>2, ResumedRun
<1> QED BY <1>1, <1>2, <1>3

LEMMA BroughtStep == ~SlowClose /\ StartsOutsideStop /\ ProgramsInv /\ [Next]_vars => BroughtBack'
<1> SUFFICES ASSUME ~SlowClose, StartsOutsideStop, ProgramsInv, [Next]_vars PROVE BroughtBack'
  OBVIOUS
<1> USE DEF Stays, Quiet, Handed, disk
<1>1. ASSUME NEW i \in Images, Start(i) PROVE BroughtBack'
  BY <1>1 DEF Start, Attempt, BroughtBack, AskedAreAlive
<1>2. CASE CallerAnswers
  BY <1>2 DEF CallerAnswers, BroughtBack, AskedAreAlive, AnswersInTime, KilledInIt, CapturedFirst, Uncaptured, ProgramsInv
<1>3. CASE CallerGivesUp
  BY <1>3 DEF CallerGivesUp, BroughtBack, AskedAreAlive, AnswersInTime, KilledInIt, CapturedFirst, Uncaptured, ProgramsInv, VersionInv, FilesInv, CallerInv, TypeOK, AttemptOK, Remembered, WayAndPlace, CallerLeft, Early, Running, RunsOn
<1>4. CASE CallerCloses
  BY <1>4 DEF CallerCloses, BroughtBack, AskedAreAlive, AnswersInTime, KilledInIt, CapturedFirst, Uncaptured, ProgramsInv, VersionInv, FilesInv, CallerInv, TypeOK, AttemptOK, Remembered, WayAndPlace, CallerLeft, Early, Running, RunsOn
<1>5. ASSUME NEW i \in Images, Closes(i) PROVE BroughtBack'
  BY <1>5 DEF Closes, BroughtBack, AskedAreAlive, AnswersInTime, KilledInIt, CapturedFirst, Uncaptured, ProgramsInv, VersionInv, FilesInv, CallerInv, TypeOK, AttemptOK, Remembered, WayAndPlace, CallerLeft, Early, Running, RunsOn
<1>6. ASSUME NEW i \in Images, CarriesOn(i) PROVE BroughtBack'
  BY <1>6 DEF CarriesOn, BroughtBack, AskedAreAlive, AnswersInTime, KilledInIt, CapturedFirst, Uncaptured, ProgramsInv, VersionInv, FilesInv, CallerInv, TypeOK, AttemptOK, Remembered, WayAndPlace, CallerLeft, Early, Running, RunsOn
<1>7. ASSUME NEW i \in Images, UserStarts(i) PROVE BroughtBack'
  BY <1>7 DEF UserStarts, BroughtBack, AskedAreAlive, AnswersInTime, KilledInIt, CapturedFirst, Uncaptured, ProgramsInv, VersionInv, FilesInv, CallerInv, TypeOK, AttemptOK, Remembered, WayAndPlace, CallerLeft, Early, Running, RunsOn
<1>8. CASE Killed
  BY <1>8 DEF Killed, BroughtBack, AskedAreAlive
<1>9. CASE CheckRequested
  BY <1>9 DEF CheckRequested, Finish, Enter, BroughtBack, AskedAreAlive, AnswersInTime, KilledInIt, CapturedFirst, Uncaptured, ProgramsInv, VersionInv, FilesInv, CallerInv, TypeOK, AttemptOK, Remembered
<1>10. CASE Download
  BY <1>10 DEF Download, Abandon, Enter, BroughtBack, AskedAreAlive
<1>11. CASE Verify
  BY <1>11 DEF Verify, Captured, Abandon, Enter, BroughtBack, AskedAreAlive, AnswersInTime, KilledInIt, CapturedFirst, Uncaptured
<1>12. CASE Prepare
  BY <1>12 DEF Prepare, MayStop, Abandon, Enter, BroughtBack, AskedAreAlive, AnswersInTime, KilledInIt, CapturedFirst, Uncaptured
<1>13. CASE Quiesce
  BY <1>13 DEF Quiesce, Abandon, Enter, BroughtBack, AskedAreAlive
<1>14. CASE MoveAside
  BY <1>14 DEF MoveAside, GoBack, Enter, Next1, BroughtBack, AskedAreAlive, AnswersInTime, KilledInIt, CapturedFirst, Uncaptured
<1>15. CASE Place
  BY <1>15 DEF Place, GoBack, Enter, Next1, BroughtBack, AskedAreAlive, AnswersInTime, KilledInIt, CapturedFirst, Uncaptured
<1>16. CASE Register
  BY <1>16 DEF Register, GoBack, Enter, BroughtBack, AskedAreAlive
<1>17. CASE RelaunchRequired
  <2>0. TypeOK
    BY DEF ProgramsInv, VersionInv, FilesInv, CallerInv
  <2>1. PICK up \in Relaunched(Required) :
          LET after == After(Required, up)
          IN  /\ run' = Resumed(up)
              /\ \/ u.way = "abandon" /\ Enter("RelaunchOptional") /\ u' = after
                 \/ u.way # "abandon" /\ after.missing = {} /\ Enter("Health") /\ u' = after
                 \/ u.way = "forward" /\ after.missing # {} /\ Enter("Rollback") /\ u' = after
                 \/ /\ u.way = "back" /\ after.missing # {}
                    /\ pc' = "Idle" /\ UNCHANGED torn /\ u' = [after EXCEPT !.result = "RolledBackNotRelaunched"]
    BY <1>17 DEF RelaunchRequired
  <2>2. /\ pc = "RelaunchRequired" /\ GraceIsOver(Required) /\ UNCHANGED closing
        /\ u.before \subseteq Images /\ u'.before = u.before /\ u'.way = u.way
    BY <1>17, <2>0, RelaunchRuns, RequiredKeeps DEF RelaunchRequired, SameBase, TypeOK, AttemptOK
  <2>3. \A i \in u.before \cap Required : (run'[i] # Absent /\ i \notin closing) \/ i \in Down(Required) \ up
    BY <2>1, <2>2, RelaunchBrings
  <2>4. After(Required, up).missing = Down(Required) \ up
    BY <2>0 DEF After
  <2>5. CASE pc' = "RelaunchOptional" /\ u.way = "abandon" /\ u' = After(Required, up)
    <3>1. RunsOn((u.before \cap Required) \ u.missing)'
      BY <2>2, <2>3, <2>4, <2>5 DEF RunsOn, Running
    <3> QED BY <2>2, <2>5, <3>1 DEF BroughtBack
  <2>6. CASE pc' = "Health" /\ After(Required, up).missing = {}
    <3>1. RunsOn(u.before \cap Required)'
      BY <2>2, <2>3, <2>4, <2>6 DEF RunsOn, Running
    <3> QED BY <2>6, <3>1 DEF BroughtBack
  <2>7. pc' = "Idle" => u'.result = "RolledBackNotRelaunched"
    BY <1>17, <2>0, RequiredKeeps
  <2> QED BY <2>1, <2>5, <2>6, <2>7 DEF Enter, BroughtBack
<1>18. CASE HealthCheck
  <2>0. TypeOK
    BY DEF ProgramsInv, VersionInv, FilesInv, CallerInv
  <2> QED BY <1>18, <2>0, HealthKeeps, HealthPrograms
          DEF SameBase, SamePrograms, ProgramsInv, VersionInv, FilesInv, CallerInv, WayAndPlace, BroughtBack, Running, RunsOn
<1>19. CASE Commit
  BY <1>19 DEF Commit, Enter, BroughtBack, AskedAreAlive, AnswersInTime, KilledInIt, CapturedFirst, Uncaptured, ProgramsInv, VersionInv, FilesInv, CallerInv, TypeOK, AttemptOK, Remembered, WayAndPlace, CallerLeft, Early, Running, RunsOn
<1>20. CASE RelaunchOptional
  <2>0. TypeOK
    BY DEF ProgramsInv, VersionInv, FilesInv, CallerInv
  <2>1. PICK up \in Relaunched({Client}) :
          run' = Resumed(up) /\ u' = [After({Client}, up) EXCEPT !.result = Result(After({Client}, up).missing)]
    BY <1>20 DEF RelaunchOptional
  <2> DEFINE missing == After({Client}, up).missing
  <2>2. /\ pc = "RelaunchOptional" /\ pc' = "Idle" /\ GraceIsOver({Client}) /\ UNCHANGED closing
        /\ u.before \subseteq Images /\ u'.before = u.before /\ u'.way = u.way
        /\ \A i \in Images : run[i] # Absent => run'[i] = run[i]
    BY <1>20, <2>0, RelaunchRuns, OptionalKeeps DEF RelaunchOptional, SameBase, TypeOK, AttemptOK
  <2>3. \A i \in u.before \cap {Client} : (run'[i] # Absent /\ i \notin closing) \/ i \in Down({Client}) \ up
    BY <2>1, <2>2, RelaunchBrings
  <2>4. missing = IF {Client} = Required THEN Down({Client}) \ up ELSE u.missing \cup (Down({Client}) \ up)
    BY <2>0 DEF After
  <2>5. u'.result = Result(missing)
    BY <2>0, <2>1, AfterKeeps
  <2> HIDE DEF missing
  <2>6. ASSUME u'.result = "Updated" \/ u'.result = "AbandonedBeforeSwap" PROVE RunsOn(u.before)'
    <3>1. missing = {}
      BY <2>5, <2>6 DEF Result
    <3>2. u.missing = {}
      <4>1. {Client} # Required
        BY UpdateConstants DEF Required
      <4> QED BY <2>4, <3>1, <4>1
    <3>3. RunsOn(u.before \cap Required)
      BY <2>2, <3>2 DEF ProgramsInv, BroughtBack
    <3> QED BY <2>2, <2>3, <2>4, <3>1, <3>3 DEF RunsOn, Running, Images, Required
  <2>7. ASSUME u'.result = "RolledBack" PROVE RunsOn(u.before \cap Required)'
    <3>1. u.way # "abandon"
      BY <2>5, <2>7 DEF Result
    <3>2. RunsOn(u.before \cap Required)
      BY <2>2, <3>1 DEF ProgramsInv, BroughtBack
    <3> QED BY <2>2, <3>2 DEF RunsOn, Running
  <2> QED BY <2>2, <2>6, <2>7 DEF BroughtBack
<1>21. CASE ReleaseBeforeRollback
  BY <1>21 DEF ReleaseBeforeRollback, Refuse, Finish, Enter, BroughtBack, AskedAreAlive, AnswersInTime, KilledInIt, CapturedFirst, Uncaptured, ProgramsInv, VersionInv, FilesInv, CallerInv, TypeOK, AttemptOK, Remembered
<1>22. CASE Probe
  BY <1>22 DEF Probe, Refuse, Finish, Enter, BroughtBack, AskedAreAlive, AnswersInTime, KilledInIt, CapturedFirst, Uncaptured, ProgramsInv, VersionInv, FilesInv, CallerInv, TypeOK, AttemptOK, Remembered
<1>23. CASE Undo
  BY <1>23 DEF Undo, Next1, BroughtBack, AskedAreAlive
<1>24. CASE UndoEnds
  BY <1>24 DEF UndoEnds, BroughtBack, AskedAreAlive, AnswersInTime, KilledInIt, CapturedFirst, Uncaptured, ProgramsInv, VersionInv, FilesInv, CallerInv, TypeOK, AttemptOK, Remembered
<1>25. CASE UNCHANGED vars
  BY <1>25 DEF vars, BroughtBack, AskedAreAlive, AnswersInTime, KilledInIt, CapturedFirst, Uncaptured, ProgramsInv, VersionInv, FilesInv, CallerInv, TypeOK, AttemptOK, Remembered, WayAndPlace, CallerLeft, Early, Running, RunsOn
<1> QED BY <1>1, <1>2, <1>3, <1>4, <1>5, <1>6, <1>7, <1>8, <1>9, <1>10, <1>11, <1>12, <1>13, <1>14, <1>15, <1>16, <1>17, <1>18, <1>19, <1>20, <1>21, <1>22, <1>23, <1>24, <1>25 DEF Next, Updater

LEMMA ProgramsInvariant == ~RetryTorn /\ ~SlowClose /\ StartsOutsideStop => (Spec => []ProgramsInv)
<1> SUFFICES ASSUME ~RetryTorn, ~SlowClose, StartsOutsideStop PROVE Spec => []ProgramsInv
  OBVIOUS
<1>1. StartsOutsideSwap
  BY DEF StartsOutsideStop, StartsOutsideSwap
<1>2. ProgramsInv /\ [Next]_vars => VersionInv'
  BY <1>1, VersionInvStep DEF ProgramsInv
<1>3. ProgramsInv /\ [Next]_vars => ProgramsInv'
  BY <1>2, CapturedStep, AnswersStep, AskedStep, BroughtStep DEF ProgramsInv
<1> QED BY <1>3, ProgramsInit, PTL DEF Spec

(* After an update, an abandoned attempt or a rollback that says it is       *)
(* whole, the programs that ran before it run again, each the version its    *)
(* file has -- provided that closing is awaited to its end, that no attempt  *)
(* follows one that died among its files, and that nobody starts a program   *)
(* from the capture on until its file is replaced (run_update,               *)
(* make_relaunch_effects, make_quiesce_effects).                             *)
THEOREM WhatRanComesBack == ~RetryTorn /\ ~SlowClose /\ StartsOutsideStop => (Spec => []ComesBack)
<1> SUFFICES ASSUME ~RetryTorn, ~SlowClose, StartsOutsideStop PROVE Spec => []ComesBack
  OBVIOUS
<1>1. ProgramsInv => ComesBack
  BY DEF ProgramsInv, VersionInv, RunsItsFile, BroughtBack, ComesBack, RunsOn, Running
<1> QED BY <1>1, ProgramsInvariant, PTL
===============================================================================
