---------------------------- MODULE LoginFlowProofs ----------------------------
(***************************************************************************)
(* What LoginFlow promises a user, for any number of windows, workers,     *)
(* devices, failures and things asked for.                                 *)
(***************************************************************************)
EXTENDS LoginFlow, FiniteSetTheorems, TLAPS

-----------------------------------------------------------------------------
(* Types *)

(* Where a worker has the lock. *)
Locked == {"replace", "bump", "keep", "refresh", "save", "refused", "retire", "erase"}

(* Where it has a device that nobody else knows of. *)
Unkept == {"listed", "remember", "replace", "tell_previous", "bump", "keep", "unkept", "record_unkept"}

Places == Locked \cup Unkept \cup
  {"idle", "begin", "settle", "come_back", "sign_out", "login", "adopt", "settling", "settled",
   "relist", "drop", "tell_erased", "tell_kept", "tell_unrecorded", "clear", "erase_ended"}

MaybeDevice == Device \cup {None}
MaybeAccount == Account \cup {None}
(* Where a worker knows a device, or another one. *)
HasDevice == {"unkept", "record_unkept", "refresh", "save", "refused", "erase", "tell_erased",
              "tell_kept", "tell_unrecorded", "clear", "erase_ended"}
HasOther == {"settled", "tell_previous"}

WorkerShape(w) ==
  /\ DOMAIN w = {"op", "at", "win", "mine", "gen", "account", "dev", "n", "other", "ended", "queue",
                 "tries", "overtaken"}
  /\ w.at \in Places /\ w.win \in Window \cup {None}
  /\ w.gen \in Nat /\ w.n \in Nat /\ w.account \in MaybeAccount
  /\ w.dev \in MaybeDevice /\ w.other \in MaybeDevice /\ w.ended \in MaybeDevice
  /\ w.queue \subseteq Device /\ w.mine \in BOOLEAN /\ w.overtaken \in BOOLEAN
  /\ w.at \in HasDevice => w.dev # None
  /\ w.at \in HasOther => w.other # None
  /\ w.at \in {"idle", "begin"} => w.gen = 0
  /\ w.at \in {"begin", "login"} => w.account # None /\ w.dev = None

(* What every variable always holds: TypeOK, the shape of the workers, and   *)
(* that the lock is with the worker that is where a worker has it.           *)
DirectoryTyped ==
  /\ now \in Nat /\ now > 0 /\ devices \in [Device -> DeviceRecord]
  /\ minted \subseteq Device /\ IsFiniteSet(minted)
  /\ active \subseteq Account /\ late \subseteq Device \X Nat
(* The list of sign-outs owed stays within its limit. *)
OwedTyped == owed \subseteq Device /\ IsFiniteSet(owed) /\ Cardinality(owed) <= MaxOwed

FilesTyped ==
  /\ cred \in [dev: MaybeDevice, n: Nat, account: MaybeAccount]
  /\ aside \subseteq Device /\ gen \in Nat
  /\ OwedTyped
UserTyped ==
  /\ win \in [Window -> [account: MaybeAccount, dev: MaybeDevice]]
  /\ last \in MaybeDevice /\ disowned \subseteq Device
WorkTyped == DOMAIN work = Slot /\ \A s \in Slot : WorkerShape(work[s])
LockHeld ==
  /\ holder \in Slot \cup {None}
  /\ \A s \in Slot : work[s].at \in Locked <=> holder = s
Typed == DirectoryTyped /\ FilesTyped /\ UserTyped /\ WorkTyped /\ LockHeld

-----------------------------------------------------------------------------
(* An answer that comes late *)

(* The counter never comes back to a number it had: a worker whose sign-in   *)
(* was overtaken has a number behind it.                                     *)
LateInv ==
  \A s \in Slot : LET w == work[s] IN
    /\ w.gen <= gen
    /\ w.overtaken => w.gen # 0 /\ w.gen < gen
    /\ w.at \in {"replace", "bump"} => w.gen = gen
    /\ w.at = "keep" => ~w.overtaken

-----------------------------------------------------------------------------
(* Whom a window comes back as *)

(* What is stored is the last sign-in that was kept; who works on it has the *)
(* lock, and a worker that erases nothing for a sign-in that issued nothing  *)
(* has found nothing stored.  Only an older server issues nothing.           *)
LastInv ==
  /\ cred.dev \in {None, last}
  /\ \A s \in Slot : LET w == work[s] IN
       /\ w.at \in {"refresh", "save", "refused"} => w.dev = cred.dev
       /\ w.at \in {"bump", "keep"} /\ w.dev = None /\ w.other = None => cred.dev = None
       /\ "older" \notin Faults /\ w.at \in Unkept => w.dev # None

-----------------------------------------------------------------------------
(* Devices that are alive *)

Ended == {d \in Device : ~IsLive(devices[d], now)}

(* Every device that is named anywhere was given out; one that was not is    *)
(* not in the store.                                                         *)
Named ==
  /\ \A d \in Device : InStore(devices[d]) => d \in minted /\ devices[d].account \in Account
  /\ cred.dev \in minted \cup {None} /\ owed \subseteq minted
  /\ \A s \in Slot : LET w == work[s] IN
       /\ w.dev \in minted \cup {None} /\ w.other \in minted \cup {None}
       /\ w.ended \in minted \cup {None} /\ w.queue \subseteq minted

(* A device nobody else knows of is not stored, and no two workers have it.  *)
Apart ==
  \A s \in Slot : work[s].at \in Unkept /\ work[s].dev # None =>
    /\ work[s].dev # cred.dev
    /\ \A r \in Slot : work[r].at \in Unkept /\ work[r].dev = work[s].dev => r = s

(* The directory knows a credential as the current one of its family, as the *)
(* one before it, or as one that a request in grace has superseded, after    *)
(* which nothing is in grace any more.                                       *)
KnownRecord(r, n) ==
  /\ n # 0 /\ r.prev < r.cred /\ r.cred \in r.issued
  /\ \/ n = r.cred \/ n = r.prev
     \/ n + 1 = r.cred /\ n \in r.issued /\ r.prevUses = 0

(* No request that comes late is of after the one here. *)
NoneLater(d, n) == \A m \in Nat : <<d, m>> \in late => m <= n
Known(d, n) == d \notin Ended => KnownRecord(devices[d], n) /\ NoneLater(d, n)

(* So does it the one that is stored, and the one a worker is about to store. *)
Knowing == Unkept \cup {"save"}
StoreIsKnown == cred.dev # None => Known(cred.dev, cred.n)
FreshIsKnown ==
  \A s \in Slot :
    work[s].at \in Knowing /\ work[s].dev # None => Known(work[s].dev, work[s].n)

(* Who comes back does so with what is stored. *)
AtTheStore ==
  \A s \in Slot : LET w == work[s] IN
    /\ w.at = "refresh" => w.n = cred.n
    /\ w.at \in {"refresh", "save", "refused"} => w.dev = cred.dev

(* What a worker knows of the devices it is about to forget. *)
WorkersKnow ==
  \A s \in Slot : LET w == work[s] IN
    /\ w.at \in {"begin", "login", "listed", "remember", "replace"} => w.other = None
    /\ w.at = "settled" => w.other \in Ended
    /\ w.at \in {"clear", "erase_ended", "refused"} => w.dev \in Ended
    /\ w.ended # None => w.ended \in Ended
    /\ w.at \in {"bump", "keep"} /\ w.other # None => w.other \in owed \/ w.other \in Ended
    /\ w.at = "erase" => w.dev \in owed /\ w.dev = cred.dev

(* Where a device that is alive is. *)
InHands == {d \in Device : \E s \in Slot : work[s].at \in Unkept /\ work[s].dev = d}
Held ==
  \A d \in Device : d \notin Ended =>
    d = cred.dev \/ d \in owed \/ d \in aside \/ d \in disowned \/ d \in InHands

(* Nobody is disabled, and where requests come late the directory remembers  *)
(* more than the credential that is current.                                 *)
Undisturbed == active = Account /\ (late = {} \/ IssuedKept > 1)
LateIsNamed == \A d \in Device, m \in Nat : <<d, m>> \in late => d \in minted
Forgiving == "disable" \notin Faults /\ ("late" \in Faults => IssuedKept > 1)

CoreInv == Named /\ Apart /\ AtTheStore

HeldInv ==
  /\ Undisturbed /\ LateIsNamed /\ CoreInv
  /\ StoreIsKnown /\ FreshIsKnown
  /\ WorkersKnow /\ Held
-----------------------------------------------------------------------------
(* What the directory does to its families, and the store to its list *)

(* Devices that are ended are not alive, and are themselves otherwise. *)
LEMMA RevokeAllFacts ==
  ASSUME DirectoryTyped, NEW which
  PROVE  /\ RevokeAll(devices, which, now) \in [Device -> DeviceRecord]
         /\ \A d \in Device : ~IsLive(devices[d], now) => ~IsLive(RevokeAll(devices, which, now)[d], now)
         /\ \A d \in Device : d \in which => ~IsLive(RevokeAll(devices, which, now)[d], now)
         /\ \A d \in Device : /\ RevokeAll(devices, which, now)[d].cred = devices[d].cred
                              /\ RevokeAll(devices, which, now)[d].prev = devices[d].prev
                              /\ RevokeAll(devices, which, now)[d].account = devices[d].account
<1>1. \A r \in DeviceRecord :
        /\ Revoke(r, now) \in DeviceRecord
        /\ Revoke(r, now).cred = r.cred /\ Revoke(r, now).prev = r.prev
        /\ Revoke(r, now).account = r.account
        /\ ~IsLive(Revoke(r, now), now)
  <2> SUFFICES ASSUME NEW r \in DeviceRecord
               PROVE  /\ Revoke(r, now) \in DeviceRecord
                      /\ Revoke(r, now).cred = r.cred /\ Revoke(r, now).prev = r.prev
                      /\ Revoke(r, now).account = r.account
                      /\ ~IsLive(Revoke(r, now), now)
    OBVIOUS
  <2>1. CASE InStore(r) /\ r.revokedAt = 0
    <3>1. [r EXCEPT !.revokedAt = now, !.prevUses = 0] \in DeviceRecord
      BY DEF DirectoryTyped, DeviceRecord
    <3>2. Revoke(r, now) = [r EXCEPT !.revokedAt = now, !.prevUses = 0]
      BY <2>1 DEF Revoke
    <3> QED BY <3>1, <3>2 DEF IsLive, DirectoryTyped, DeviceRecord
  <2>2. CASE ~(InStore(r) /\ r.revokedAt = 0)
    BY <2>2 DEF Revoke, IsLive
  <2> QED BY <2>1, <2>2
<1> QED BY <1>1 DEF RevokeAll, DirectoryTyped

(* The directory goes on to the next credential of a family that is alive,   *)
(* or ends the family, and does nothing else.                                *)
LEMMA ExchangeFacts ==
  ASSUME DirectoryTyped, NEW d \in Device, NEW n \in Nat
  PROVE  LET ok == Exchanges(d, n).ok  next == Exchanges(d, n).next
         IN  /\ next \in [Device -> DeviceRecord]
             /\ \A o \in Device \ {d} : next[o] = devices[o]
             /\ InStore(next[d]) => InStore(devices[d])
             /\ next[d].account = devices[d].account
             /\ ~IsLive(devices[d], now) => ~IsLive(next[d], now)
             /\ ok => /\ IsLive(devices[d], now)
                      /\ next[d].cred = devices[d].cred + 1
             /\ ~ok => next[d].cred = devices[d].cred
<1> DEFINE r == devices[d]
           verdict == Classify(r, n, now)
           accepted == verdict \in {"current", "grace"}
           gone == RevokeAll(devices, {d}, now)
           Good(ok, next) ==
             /\ next \in [Device -> DeviceRecord]
             /\ \A o \in Device \ {d} : next[o] = devices[o]
             /\ InStore(next[d]) => InStore(devices[d])
             /\ next[d].account = devices[d].account
             /\ ~IsLive(devices[d], now) => ~IsLive(next[d], now)
             /\ ok => /\ IsLive(devices[d], now)
                      /\ next[d].cred = devices[d].cred + 1
             /\ ~ok => next[d].cred = devices[d].cred
<1>1. /\ r \in DeviceRecord /\ now \in Nat /\ now > 0 /\ devices \in [Device -> DeviceRecord]
      /\ gone \in [Device -> DeviceRecord] /\ ~IsLive(gone[d], now)
      /\ gone[d].cred = r.cred /\ gone[d].prev = r.prev /\ gone[d].account = r.account
      /\ \A o \in Device \ {d} : gone[o] = devices[o]
  BY RevokeAllFacts DEF DirectoryTyped, RevokeAll
<1>2. accepted => IsLive(r, now)
  BY DEF Classify, IsLive
<1>3. accepted => /\ Rotate(r, verdict, now) \in DeviceRecord
                  /\ Rotate(r, verdict, now).cred = r.cred + 1
                  /\ Rotate(r, verdict, now).account = r.account
  <2>1. {m \in r.issued \cup {r.cred + 1} : m + IssuedKept > r.cred + 1} \in SUBSET Nat
    BY <1>1 DEF DeviceRecord
  <2> QED BY <1>1, <1>2, <2>1, LimitsAssumption DEF Rotate, DeviceRecord
<1>4. CASE accepted /\ r.account \in active
  <2>1. /\ Exchanges(d, n).ok
        /\ Exchanges(d, n).next = [devices EXCEPT ![d] = Rotate(r, verdict, now)]
    BY <1>4 DEF Exchanges
  <2>2. Good(TRUE, [devices EXCEPT ![d] = Rotate(r, verdict, now)])
    BY <1>1, <1>2, <1>3, <1>4 DEF IsLive
  <2> QED BY <2>1, <2>2
<1>5. CASE ~(accepted /\ r.account \in active) /\ verdict = "reused"
  <2>1. Exchanges(d, n).ok = FALSE /\ Exchanges(d, n).next = gone
    BY <1>5 DEF Exchanges
  <2>2. Good(FALSE, gone)
    BY <1>1 DEF InStore
  <2> QED BY <2>1, <2>2
<1>6. CASE ~(accepted /\ r.account \in active) /\ verdict # "reused"
  <2>1. Exchanges(d, n).ok = FALSE /\ Exchanges(d, n).next = devices
    BY <1>6 DEF Exchanges
  <2>2. Good(FALSE, devices)
    BY <1>1, <1>2, <1>6
  <2> QED BY <2>1, <2>2
<1> QED BY <1>4, <1>5, <1>6

(* A credential that is presented, and one not before it that the client has: *)
(* the directory goes on knowing the latter, as long as the family lives; it  *)
(* knows the one that it answers with; and what it knows it refuses only with *)
(* the family.                                                                *)
LEMMA ExchangeKeeps ==
  ASSUME DirectoryTyped, NEW d \in Device, NEW n \in Nat, NEW k \in Nat, n <= k,
         n = k \/ IssuedKept > 1, KnownRecord(devices[d], k)
  PROVE  LET ok == Exchanges(d, n).ok  next == Exchanges(d, n).next
         IN  /\ IsLive(next[d], now) => KnownRecord(next[d], k)
             /\ ok => KnownRecord(next[d], next[d].cred)
             /\ n = k /\ ~ok /\ devices[d].account \in active => ~IsLive(next[d], now)
<1> DEFINE r == devices[d]
           verdict == Classify(r, n, now)
           accepted == verdict \in {"current", "grace"}
           gone == RevokeAll(devices, {d}, now)
<1>1. r \in DeviceRecord /\ ~IsLive(gone[d], now) /\ devices \in [Device -> DeviceRecord]
  BY RevokeAllFacts DEF DirectoryTyped
<1>2. CASE accepted /\ r.account \in active
  <2> DEFINE R == Rotate(r, verdict, now)
  <2>1. Exchanges(d, n).ok /\ Exchanges(d, n).next[d] = R
    BY <1>1, <1>2 DEF Exchanges
  <2>2. /\ R.cred = r.cred + 1
        /\ R.issued = {m \in r.issued \cup {r.cred + 1} : m + IssuedKept > r.cred + 1}
        /\ verdict = "current" => n = r.cred /\ R.prev = r.cred
        /\ verdict = "grace" => n = r.prev /\ n # 0 /\ r.prevUses > 0
                                /\ R.prev = r.prev /\ R.prevUses = 0
    BY <1>2 DEF Classify, Rotate
  <2>3. /\ r.cred \in Nat /\ r.prev \in Nat /\ r.issued \subseteq Nat /\ IssuedKept \in Nat \ {0}
        /\ r.prevUses \in Nat
    BY <1>1, LimitsAssumption DEF DeviceRecord
  <2>4. R.cred \in R.issued /\ R.prev < R.cred
    BY <1>2, <2>2, <2>3 DEF KnownRecord
  <2>5. KnownRecord(R, k)
    <3>1. CASE n = k
      BY <1>2, <2>2, <2>3, <2>4, <3>1 DEF KnownRecord
    <3>2. CASE n < k /\ IssuedKept > 1
      <4>1. verdict = "grace" /\ k = r.cred
        BY <1>2, <2>2, <2>3, <3>2 DEF KnownRecord
      <4> QED BY <2>2, <2>3, <2>4, <3>2, <4>1 DEF KnownRecord
    <3> QED BY <3>1, <3>2
  <2>6. KnownRecord(R, R.cred)
    BY <2>2, <2>3, <2>4 DEF KnownRecord
  <2> HIDE DEF R
  <2> QED BY <2>1, <2>5, <2>6
<1>3. CASE ~(accepted /\ r.account \in active) /\ verdict = "reused"
  <2>1. Exchanges(d, n).ok = FALSE /\ Exchanges(d, n).next = gone
    BY <1>3 DEF Exchanges
  <2> QED BY <1>1, <2>1
<1>4. CASE ~(accepted /\ r.account \in active) /\ verdict # "reused"
  <2>1. Exchanges(d, n).ok = FALSE /\ Exchanges(d, n).next = devices
    BY <1>4 DEF Exchanges
  <2>2. n = k /\ r.account \in active => ~IsLive(r, now)
    BY <1>1, <1>4 DEF Classify, KnownRecord, IsLive, DeviceRecord
  <2> QED BY <2>1, <2>2
<1> QED BY <1>2, <1>3, <1>4

(* What a request and a write come to. *)
Told(d) == TellDirectory(d, TRUE)
NotTold(d) == TellDirectory(d, FALSE)
Recorded(d) == AddPendingRevoke(d, TRUE)
NotRecorded(d) == AddPendingRevoke(d, FALSE)

(* Whatever is done to the list of sign-outs owed keeps it within its limit. *)
LEMMA OwedStays ==
  ASSUME OwedTyped, NEW d \in Device
  PROVE  /\ \A ok \in BOOLEAN : AddPendingRevoke(d, ok) => OwedTyped'
         /\ Recorded(d) => OwedTyped'
         /\ NotRecorded(d) => OwedTyped'
         /\ RemovePendingRevoke(d) => OwedTyped'
         /\ owed' = {} => OwedTyped'
         /\ owed' = owed => OwedTyped'
<1>1. IsFiniteSet(owed \ {d}) /\ Cardinality(owed \ {d}) \in Nat /\ Cardinality(owed) \in Nat
      /\ Cardinality(owed \ {d}) <= Cardinality(owed)
  BY FS_Subset, FS_CardinalityType DEF OwedTyped
<1>2. /\ IsFiniteSet((owed \ {d}) \cup {d})
      /\ Cardinality((owed \ {d}) \cup {d}) = Cardinality(owed \ {d}) + 1
  BY <1>1, FS_AddElement
<1>3. (owed \ {d}) \cup {d} = owed \cup {d}
  OBVIOUS
<1>4. MaxOwed \in Nat
  BY LoginFlowAssumption
<1>5. owed' = owed \cup {d} /\ Cardinality(owed \ {d}) < MaxOwed => OwedTyped'
  BY <1>1, <1>2, <1>3, <1>4 DEF OwedTyped
<1>6. owed' = owed \ {d} => OwedTyped'
  BY <1>1, <1>4 DEF OwedTyped
<1>7. owed' = {} => OwedTyped'
  BY <1>4, FS_EmptySet DEF OwedTyped
<1>8. owed' = owed => OwedTyped'
  BY DEF OwedTyped
<1>9. \A ok \in BOOLEAN : AddPendingRevoke(d, ok) => OwedTyped'
  BY <1>5, <1>8 DEF AddPendingRevoke
<1>10. RemovePendingRevoke(d) => OwedTyped'
  BY <1>6, <1>8 DEF RemovePendingRevoke
<1>11. (Recorded(d) \/ NotRecorded(d)) => OwedTyped'
  BY <1>5, <1>8 DEF AddPendingRevoke, Recorded, NotRecorded
<1> QED BY <1>7, <1>8, <1>9, <1>10, <1>11

(* A new family is alive, with the first credential. *)
LEMMA NewFamilyFacts ==
  ASSUME DirectoryTyped, NEW d \in Device, NEW a \in Account
  PROVE  LET next == CreateFamily(devices, a, d, 1 + Cardinality(minted), now)
         IN  /\ next \in [Device -> DeviceRecord]
             /\ \A o \in Device \ {d} : next[o] = devices[o]
             /\ next[d].cred = 1 /\ next[d].account = a
             /\ KnownRecord(next[d], 1)
             /\ IsFiniteSet(minted \cup {d})
<1>1. Cardinality(minted) \in Nat /\ IsFiniteSet(minted \cup {d})
  BY FS_CardinalityType, FS_AddElement DEF DirectoryTyped
<1> QED BY <1>1 DEF CreateFamily, DirectoryTyped, DeviceRecord, KnownRecord

-----------------------------------------------------------------------------
(* What a step does to its worker *)

OthersStay(s) == \A r \in Slot : r # s => work'[r] = work[r]

(* It goes on, with these for what it knows. *)
Turns(s, at, dev, n, account, other, ended, queue) ==
  /\ OthersStay(s) /\ DOMAIN work' = Slot /\ DOMAIN work'[s] = DOMAIN work[s]
  /\ work'[s].at = at /\ work'[s].dev = dev /\ work'[s].n = n
  /\ work'[s].account = account /\ work'[s].other = other
  /\ work'[s].ended = ended /\ work'[s].queue = queue
  /\ work'[s].op = work[s].op /\ work'[s].win = work[s].win /\ work'[s].mine = work[s].mine
  /\ work'[s].gen = work[s].gen /\ work'[s].overtaken = work[s].overtaken

Moves(s, place) ==
  Turns(s, place, work[s].dev, work[s].n, work[s].account, work[s].other, work[s].ended,
        work[s].queue)

Stops(s) == OthersStay(s) /\ DOMAIN work' = Slot /\ work'[s] = Idle

(* A place is all that most steps change of a worker. *)
LEMMA WorkerMoves ==
  ASSUME WorkTyped, NEW s \in Slot
  PROVE  /\ \A place : GoesTo(s, place) => Moves(s, place)
         /\ Done(s) => Stops(s)
<1>1. ASSUME NEW place, GoesTo(s, place) PROVE Moves(s, place)
  BY <1>1 DEF GoesTo, Becomes, Moves, Turns, OthersStay, WorkTyped, WorkerShape
<1>2. ASSUME Done(s) PROVE Stops(s)
  BY <1>2 DEF Done, Becomes, Stops, OthersStay, WorkTyped
<1> QED BY <1>1, <1>2

(* What a worker that changes more than its place becomes. *)
LEMMA SetsListed ==
  ASSUME WorkTyped, NEW s \in Slot
  PROVE  \A d : Becomes(s, [work[s] EXCEPT !.at = "listed", !.dev = d, !.n = 1])
           => Turns(s, "listed", d, 1, work[s].account, work[s].other, work[s].ended,
                    work[s].queue)
  BY DEF WorkTyped, WorkerShape, Becomes, Turns, OthersStay

LEMMA SetsBump ==
  ASSUME WorkTyped, NEW s \in Slot
  PROVE  \A o : Becomes(s, [work[s] EXCEPT !.at = "bump", !.other = o])
           => Turns(s, "bump", work[s].dev, work[s].n, work[s].account, o, work[s].ended,
                    work[s].queue)
  BY DEF WorkTyped, WorkerShape, Becomes, Turns, OthersStay

LEMMA SetsTellPrevious ==
  ASSUME WorkTyped, NEW s \in Slot
  PROVE  \A o : Becomes(s, [work[s] EXCEPT !.at = "tell_previous", !.other = o])
           => Turns(s, "tell_previous", work[s].dev, work[s].n, work[s].account, o,
                    work[s].ended, work[s].queue)
  BY DEF WorkTyped, WorkerShape, Becomes, Turns, OthersStay

LEMMA SetsRemember ==
  ASSUME WorkTyped, NEW s \in Slot
  PROVE  \A o : Becomes(s, [work[s] EXCEPT !.at = "remember", !.ended = o, !.other = None])
           => Turns(s, "remember", work[s].dev, work[s].n, work[s].account, None, o,
                    work[s].queue)
  BY DEF WorkTyped, WorkerShape, Becomes, Turns, OthersStay

LEMMA SetsSettling ==
  ASSUME WorkTyped, NEW s \in Slot
  PROVE  \A q : Becomes(s, [work[s] EXCEPT !.at = "settling", !.queue = q])
           => Turns(s, "settling", work[s].dev, work[s].n, work[s].account, work[s].other,
                    work[s].ended, q)
  BY DEF WorkTyped, WorkerShape, Becomes, Turns, OthersStay

LEMMA SetsSettled ==
  ASSUME WorkTyped, NEW s \in Slot
  PROVE  \A d : Becomes(s, [work[s] EXCEPT !.at = "settled", !.queue = @ \ {d}, !.other = d])
           => Turns(s, "settled", work[s].dev, work[s].n, work[s].account, d, work[s].ended,
                    work[s].queue \ {d})
  BY DEF WorkTyped, WorkerShape, Becomes, Turns, OthersStay

LEMMA SetsQueue ==
  ASSUME WorkTyped, NEW s \in Slot
  PROVE  \A d : Becomes(s, [work[s] EXCEPT !.queue = @ \ {d}])
           => Turns(s, work[s].at, work[s].dev, work[s].n, work[s].account, work[s].other,
                    work[s].ended, work[s].queue \ {d})
  BY DEF WorkTyped, WorkerShape, Becomes, Turns, OthersStay

LEMMA SetsUnsettled ==
  ASSUME WorkTyped, NEW s \in Slot
  PROVE  Becomes(s, [work[s] EXCEPT !.at = "settling", !.other = None])
           => Turns(s, "settling", work[s].dev, work[s].n, work[s].account, None,
                    work[s].ended, work[s].queue)
  BY DEF WorkTyped, WorkerShape, Becomes, Turns, OthersStay

LEMMA SetsComeBack ==
  ASSUME WorkTyped, NEW s \in Slot
  PROVE  Becomes(s, [work[s] EXCEPT !.at = "come_back", !.tries = @ + 1])
           => Moves(s, "come_back")
  BY DEF WorkTyped, WorkerShape, Becomes, Turns, Moves, OthersStay

LEMMA SetsRefresh ==
  ASSUME WorkTyped, NEW s \in Slot
  PROVE  \A d, n, a : Becomes(s, [work[s] EXCEPT !.at = "refresh", !.dev = d, !.n = n, !.account = a])
           => Turns(s, "refresh", d, n, a, work[s].other, work[s].ended, work[s].queue)
  BY DEF WorkTyped, WorkerShape, Becomes, Turns, OthersStay

LEMMA SetsSave ==
  ASSUME WorkTyped, NEW s \in Slot
  PROVE  \A n : Becomes(s, [work[s] EXCEPT !.at = "save", !.n = n])
           => Turns(s, "save", work[s].dev, n, work[s].account, work[s].other, work[s].ended,
                    work[s].queue)
  BY DEF WorkTyped, WorkerShape, Becomes, Turns, OthersStay

LEMMA SetsErase ==
  ASSUME WorkTyped, NEW s \in Slot
  PROVE  \A d : Becomes(s, [work[s] EXCEPT !.at = "erase", !.dev = d])
           => Turns(s, "erase", d, work[s].n, work[s].account, work[s].other, work[s].ended,
                    work[s].queue)
  BY DEF WorkTyped, WorkerShape, Becomes, Turns, OthersStay

LEMMA SetsTellUnrecorded ==
  ASSUME WorkTyped, NEW s \in Slot
  PROVE  \A d : Becomes(s, [work[s] EXCEPT !.at = "tell_unrecorded", !.dev = d])
           => Turns(s, "tell_unrecorded", d, work[s].n, work[s].account, work[s].other,
                    work[s].ended, work[s].queue)
  BY DEF WorkTyped, WorkerShape, Becomes, Turns, OthersStay
-----------------------------------------------------------------------------
(* What the steps that change more than a place do, the worker by its fields *)

(* directory_login_with_device: issued, signed in without, or not at all. *)
LEMMA DirectoryLoginDoes ==
  ASSUME WorkTyped, NEW s \in Slot, DirectoryLogin(s)
  PROVE  /\ At(s, "login")
         /\ \/ \E d \in Device \ minted :
                 /\ work[s].account \in active /\ minted' = minted \cup {d}
                 /\ devices' = CreateFamily(devices, work[s].account, d,
                                            1 + Cardinality(minted), now)
                 /\ \/ /\ Turns(s, "listed", d, 1, work[s].account, work[s].other,
                                work[s].ended, work[s].queue)
                       /\ UNCHANGED disowned
                    \/ Stops(s) /\ disowned' = disowned \cup {d}
            \/ /\ (Moves(s, "listed") /\ Fault("older")) \/ Stops(s)
               /\ UNCHANGED <<minted, devices, disowned>>
         /\ UNCHANGED <<now, active, late, files, holder, user, last>>
  BY WorkerMoves, SetsListed, Zenon DEF DirectoryLogin

(* The first half of remember_sign_in. *)
LEMMA ReplaceDoes ==
  ASSUME WorkTyped, NEW s \in Slot, Replace(s)
  PROVE  LET w      == work[s]
             stored == IF cred.dev = w.dev THEN None ELSE cred.dev
             Bumps(other) == Turns(s, "bump", w.dev, w.n, w.account, other, w.ended, w.queue)
         IN  /\ At(s, "replace") /\ Holds(s)
             /\ \/ /\ stored \in {None, w.ended} /\ Bumps(stored)
                   /\ UNCHANGED <<owed, holder>>
                \/ /\ stored # None /\ Moves(s, "bump") /\ Fault("read")
                   /\ UNCHANGED <<owed, holder>>
                \/ /\ stored \notin {None, w.ended}
                   /\ Recorded(stored) /\ Bumps(stored) /\ UNCHANGED holder
                \/ /\ stored \notin {None, w.ended}
                   /\ NotRecorded(stored) /\ LetsGo
                   /\ IF w.ended # None THEN NotKept(s)
                      ELSE Turns(s, "tell_previous", w.dev, w.n, w.account, stored, w.ended,
                                 w.queue)
             /\ UNCHANGED <<directory, cred, aside, gen, user, history>>
  BY WorkerMoves, SetsBump, SetsTellPrevious, Zenon DEF Replace, Recorded, NotRecorded

(* The sign-in stored before is told to the directory, or nothing is kept. *)
LEMMA TellPreviousDoes ==
  ASSUME WorkTyped, NEW s \in Slot, TellPrevious(s)
  PROVE  LET w == work[s] IN
         /\ At(s, "tell_previous")
         /\ \/ /\ Told(w.other)
               /\ Turns(s, "remember", w.dev, w.n, w.account, None, w.other, w.queue)
            \/ NotTold(w.other) /\ NotKept(s)
         /\ UNCHANGED <<files, holder, user, history>>
  BY SetsRemember, Zenon DEF TellPrevious, Told, NotTold

(* The list is copied, or passed over. *)
LEMMA SettleOwedSignOutsDoes ==
  ASSUME WorkTyped, NEW s \in Slot, SettleOwedSignOuts(s)
  PROVE  LET w == work[s] IN
         /\ At(s, "settle")
         /\ \/ Turns(s, "settling", w.dev, w.n, w.account, w.other, w.ended, owed)
            \/ Moves(s, "adopt") \/ Moves(s, "come_back")
         /\ UNCHANGED <<directory, files, holder, user, history>>
  BY WorkerMoves, SetsSettling, Zenon DEF SettleOwedSignOuts

(* One of the list is told, or it is gone through. *)
LEMMA SettleOneDoes ==
  ASSUME WorkTyped, NEW s \in Slot, SettleOne(s)
  PROVE  LET w == work[s] IN
         /\ At(s, "settling")
         /\ \/ (Moves(s, "adopt") \/ Moves(s, "come_back")) /\ UNCHANGED directory
            \/ \E d \in w.queue :
                 \/ /\ Told(d)
                    /\ Turns(s, "settled", w.dev, w.n, w.account, d, w.ended, w.queue \ {d})
                 \/ /\ NotTold(d)
                    /\ Turns(s, w.at, w.dev, w.n, w.account, w.other, w.ended, w.queue \ {d})
         /\ UNCHANGED <<files, holder, user, history>>
<1>1. ASSUME NEW d \in work[s].queue, NEW ended \in BOOLEAN, TellDirectory(d, ended), ended
      PROVE  Told(d)
  BY <1>1 DEF TellDirectory, Told
<1>2. ASSUME NEW d \in work[s].queue, NEW ended \in BOOLEAN, TellDirectory(d, ended), ~ended
      PROVE  NotTold(d)
  BY <1>2 DEF TellDirectory, NotTold
<1> QED BY <1>1, <1>2, WorkerMoves, SetsSettled, SetsQueue, Zenon DEF SettleOne

(* end_unkept_device tells the directory first, *)
LEMMA EndUnkeptDeviceDoes ==
  ASSUME WorkTyped, NEW s \in Slot, EndUnkeptDevice(s)
  PROVE  /\ At(s, "unkept")
         /\ \/ Told(work[s].dev) /\ Stops(s)
            \/ NotTold(work[s].dev) /\ Moves(s, "record_unkept")
         /\ UNCHANGED <<files, holder, user, history>>
  BY WorkerMoves, Zenon DEF EndUnkeptDevice, Told, NotTold

(* and writes down what it could not tell. *)
LEMMA RecordUnkeptDeviceDoes ==
  ASSUME WorkTyped, NEW s \in Slot, RecordUnkeptDevice(s)
  PROVE  /\ At(s, "record_unkept") /\ Stops(s)
         /\ \/ Recorded(work[s].dev) /\ UNCHANGED disowned
            \/ /\ NotRecorded(work[s].dev) \/ UNCHANGED owed
               /\ disowned' = disowned \cup {work[s].dev}
         /\ UNCHANGED <<directory, cred, aside, gen, holder, user, last>>
  BY WorkerMoves, Zenon DEF RecordUnkeptDevice, Recorded, NotRecorded

(* The end of sign_out. *)
LEMMA TellSignOutDoes ==
  ASSUME WorkTyped, NEW s \in Slot, TellSignOut(s)
  PROVE  /\ \/ At(s, "tell_erased") /\ Told(work[s].dev) /\ Moves(s, "clear")
            \/ At(s, "tell_unrecorded") /\ Told(work[s].dev) /\ Moves(s, "erase_ended")
            \/ At(s, "tell_kept") /\ Told(work[s].dev) /\ Stops(s)
            \/ /\ work[s].at \in {"tell_erased", "tell_unrecorded", "tell_kept"}
               /\ NotTold(work[s].dev) /\ Stops(s)
         /\ UNCHANGED <<files, holder, user, history>>
  BY WorkerMoves, Zenon DEF TellSignOut, Told, NotTold

(* What the directory has ended goes from the list. *)
LEMMA RemoveSettledDoes ==
  ASSUME WorkTyped, NEW s \in Slot, RemoveSettled(s)
  PROVE  LET w == work[s] IN
         /\ At(s, "settled")
         /\ Turns(s, "settling", w.dev, w.n, w.account, None, w.ended, w.queue)
         /\ RemovePendingRevoke(w.other) \/ UNCHANGED owed
         /\ UNCHANGED <<directory, cred, aside, gen, holder, user, history>>
  BY SetsUnsettled, Zenon DEF RemoveSettled

(* Tried again, or given up. *)
LEMMA ComesLaterDoes ==
  ASSUME WorkTyped, NEW s \in Slot, ComesLater(s)
  PROVE  Moves(s, "come_back") \/ Stops(s)
  BY WorkerMoves, SetsComeBack, Zenon DEF ComesLater

(* No session. *)
LEMMA ComesToNothingDoes ==
  ASSUME WorkTyped, NEW s \in Slot, ComesToNothing(s)
  PROVE  Moves(s, "drop") \/ Stops(s)
  BY WorkerMoves, Zenon DEF ComesToNothing

(* come_back, up to the request. *)
LEMMA ComeBackDoes ==
  ASSUME WorkTyped, NEW s \in Slot, ComeBack(s)
  PROVE  LET w == work[s] IN
         /\ At(s, "come_back")
         /\ \/ /\ Moves(s, "come_back") \/ Moves(s, "drop") \/ Stops(s)
               /\ UNCHANGED <<cred, gen, holder>>
            \/ /\ cred.dev \in owed /\ Free /\ UNCHANGED holder
               /\ Moves(s, "drop") \/ Stops(s)
               /\ \/ BumpGeneration(gen + 1) /\ cred' = NoCred
                  \/ BumpGeneration(0) /\ UNCHANGED cred
                  \/ UNCHANGED cred /\ gen' = gen + 1
            \/ /\ cred.dev \notin owed \cup {None} /\ Takes(s) /\ UNCHANGED <<cred, gen>>
               /\ Turns(s, "refresh", cred.dev, cred.n, cred.account, w.other, w.ended, w.queue)
         /\ UNCHANGED <<directory, owed, aside, user, history>>
<1>1. Erase(FALSE) => UNCHANGED cred
  BY DEF Erase, Save
<1> QED BY <1>1, ComesLaterDoes, ComesToNothingDoes, SetsRefresh, Zenon DEF ComeBack

(* The request of come_back, and its answer. *)
LEMMA RefreshDoes ==
  ASSUME WorkTyped, NEW s \in Slot, Refresh(s)
  PROVE  LET w == work[s]
             exchange == Exchanges(w.dev, w.n)
         IN  /\ At(s, "refresh") /\ Holds(s)
             /\ \/ /\ devices' = exchange.next /\ UNCHANGED late
                   /\ \/ /\ exchange.ok /\ UNCHANGED holder
                         /\ Turns(s, "save", w.dev, exchange.next[w.dev].cred, w.account, w.other,
                                  w.ended, w.queue)
                      \/ ~exchange.ok /\ Moves(s, "refused") /\ UNCHANGED holder
                      \/ (Moves(s, "come_back") \/ Stops(s)) /\ LetsGo
                \/ /\ Moves(s, "come_back") \/ Moves(s, "drop") \/ Stops(s)
                   /\ LetsGo /\ UNCHANGED devices
                   /\ (late' = late) \/ (Fault("late") /\ late' = late \cup {<<w.dev, w.n>>})
             /\ UNCHANGED <<now, minted, active, files, user, history>>
  BY WorkerMoves, ComesLaterDoes, ComesToNothingDoes, SetsSave, Zenon DEF Refresh

(* retire_under_lock, up to the erasing. *)
LEMMA RetireDoes ==
  ASSUME WorkTyped, NEW s \in Slot, Retire(s)
  PROVE  LET w == work[s] IN
         /\ At(s, "retire") /\ Holds(s)
         /\ \/ /\ cred.dev = None /\ Stops(s) /\ LetsGo /\ last' = None
               /\ UNCHANGED <<cred, owed, disowned>>
            \/ /\ cred.dev # None /\ Stops(s) /\ LetsGo /\ UNCHANGED owed
               /\ \/ cred' = NoCred /\ last' = None /\ disowned' = disowned \cup {cred.dev}
                  \/ UNCHANGED <<cred, last, disowned>>
            \/ /\ cred.dev # None /\ Recorded(cred.dev)
               /\ Turns(s, "erase", cred.dev, w.n, w.account, w.other, w.ended, w.queue)
               /\ UNCHANGED <<cred, holder, last, disowned>>
            \/ /\ cred.dev # None /\ NotRecorded(cred.dev) /\ LetsGo
               /\ Turns(s, "tell_unrecorded", cred.dev, w.n, w.account, w.other, w.ended,
                        w.queue)
               /\ UNCHANGED <<cred, last, disowned>>
         /\ UNCHANGED <<directory, aside, gen, user>>
  BY WorkerMoves, SetsErase, SetsTellUnrecorded, Zenon DEF Retire, Recorded, NotRecorded

(* Another worker goes on as it was, but for its window's epoch. *)
Stays(r) ==
  /\ DOMAIN work'[r] = DOMAIN work[r] /\ work'[r].at = work[r].at
  /\ work'[r].win = work[r].win /\ work'[r].gen = work[r].gen
  /\ work'[r].account = work[r].account /\ work'[r].dev = work[r].dev
  /\ work'[r].n = work[r].n /\ work'[r].other = work[r].other
  /\ work'[r].ended = work[r].ended /\ work'[r].queue = work[r].queue
  /\ work'[r].op = work[r].op /\ work'[r].overtaken = work[r].overtaken
  /\ work'[r].mine \in BOOLEAN

Launches(s, place, w, account) ==
  /\ DOMAIN work' = Slot /\ \A r \in Slot \ {s} : Stays(r)
  /\ DOMAIN work'[s] = DOMAIN work[s] /\ work'[s].at = place /\ work'[s].win = w
  /\ work'[s].mine = TRUE /\ work'[s].gen = 0 /\ work'[s].account = account
  /\ work'[s].dev = None /\ work'[s].n = 0 /\ work'[s].other = None
  /\ work'[s].ended = None /\ work'[s].queue = {} /\ work'[s].overtaken = FALSE

Begins(s, place, w, account) ==
  At(s, "idle") /\ Launches(s, place, w, account)
  /\ UNCHANGED <<directory, files, holder, faults, history>>

(* What a user asks of a window launches a worker. *)
LEMMA BeginsDo ==
  ASSUME WorkTyped, NEW s \in Slot, NEW w \in Window
  PROVE  /\ \A a \in Account : BeginLogin(s, w, a) => Begins(s, "begin", w, a)
         /\ BeginAutoLogin(s, w) => Begins(s, "settle", w, None)
         /\ BeginRefreshHosts(s, w) => Begins(s, "come_back", w, win[w].account)
         /\ BeginSignOut(s, w) => Begins(s, "sign_out", w, None)
<1>1. /\ DOMAIN work = Slot
      /\ \A r \in Slot :
           /\ DOMAIN work[r] = {"op", "at", "win", "mine", "gen", "account", "dev", "n", "other",
                                "ended", "queue", "tries", "overtaken"}
           /\ work[r].mine \in BOOLEAN
  BY DEF WorkTyped, WorkerShape
<1>2. \A r \in Slot \ {s} : /\ DOMAIN NewEpoch(w) = Slot
                            /\ DOMAIN NewEpoch(w)[r] = DOMAIN work[r]
  BY <1>1 DEF NewEpoch
<1>3. ASSUME NEW op, NEW place, NEW a, NEW others, DOMAIN others = Slot,
             \A r \in Slot \ {s} : others[r] = work[r],
             Launch(s, w, op, place, a, others)
      PROVE  Begins(s, place, w, a)
  BY <1>1, <1>3 DEF Begins, Launch, Launches, Stays, Idle
<1>4. ASSUME NEW op, NEW place, NEW a, Launch(s, w, op, place, a, NewEpoch(w))
      PROVE  Begins(s, place, w, a)
  BY <1>1, <1>4 DEF Begins, Launch, Launches, Stays, Idle, NewEpoch
<1>5. \A a \in Account : BeginLogin(s, w, a) => Begins(s, "begin", w, a)
  BY <1>4, Zenon DEF BeginLogin
<1>6. BeginAutoLogin(s, w) => Begins(s, "settle", w, None)
  BY <1>4, Zenon DEF BeginAutoLogin
<1>7. BeginRefreshHosts(s, w) => Begins(s, "come_back", w, win[w].account)
  BY <1>1, <1>3, Zenon DEF BeginRefreshHosts
<1>8. BeginSignOut(s, w) => Begins(s, "sign_out", w, None)
  BY <1>4, Zenon DEF BeginSignOut
<1> QED BY <1>5, <1>6, <1>7, <1>8

(* What was asked before is late. *)
Overtakes(s, place, v) ==
  /\ DOMAIN work' = Slot
  /\ \A r \in Slot :
       /\ DOMAIN work'[r] = DOMAIN work[r] /\ work'[r].win = work[r].win
       /\ work'[r].mine = work[r].mine /\ work'[r].account = work[r].account
       /\ work'[r].dev = work[r].dev /\ work'[r].n = work[r].n /\ work'[r].other = work[r].other
       /\ work'[r].ended = work[r].ended /\ work'[r].queue = work[r].queue
       /\ work'[r].op = work[r].op
  /\ \A r \in Slot \ {s} :
       /\ work'[r].at = work[r].at /\ work'[r].gen = work[r].gen
       /\ work'[r].overtaken = (work[r].overtaken \/ work[r].gen # 0)
  /\ work'[s].at = place /\ work'[s].gen = v /\ work'[s].overtaken = work[s].overtaken

(* A sign-in or a sign-out leaves the others behind. *)
LEMMA OvertakingDoes ==
  ASSUME WorkTyped, NEW s \in Slot
  PROVE  /\ \A v : work' = [Overtaken(s) EXCEPT ![s].at = "login", ![s].gen = v]
                     => Overtakes(s, "login", v)
         /\ work' = [Overtaken(s) EXCEPT ![s].at = "retire"]
              => Overtakes(s, "retire", work[s].gen)
<1> DEFINE all == {"op", "at", "win", "mine", "gen", "account", "dev", "n", "other",
                   "ended", "queue", "tries", "overtaken"}
<1>1. /\ DOMAIN work = Slot
      /\ \A r \in Slot : DOMAIN work[r] = all /\ work[r].overtaken \in BOOLEAN
  BY DEF WorkTyped, WorkerShape
<1>2. /\ DOMAIN Overtaken(s) = Slot
      /\ \A r \in Slot :
           Overtaken(s)[r] = [work[r] EXCEPT !.overtaken = @ \/ (r # s /\ work[r].gen # 0)]
  BY DEF Overtaken
<1>3. \A r \in Slot :
        LET o == Overtaken(s)[r] IN
        /\ DOMAIN o = all /\ o.win = work[r].win /\ o.mine = work[r].mine
        /\ o.account = work[r].account /\ o.dev = work[r].dev /\ o.n = work[r].n
        /\ o.other = work[r].other /\ o.ended = work[r].ended /\ o.queue = work[r].queue
        /\ o.op = work[r].op /\ o.at = work[r].at /\ o.gen = work[r].gen
        /\ o.overtaken = (work[r].overtaken \/ (r # s /\ work[r].gen # 0))
  BY <1>1, <1>2
<1> HIDE DEF all
<1>4. ASSUME NEW v, work' = [Overtaken(s) EXCEPT ![s].at = "login", ![s].gen = v]
      PROVE  Overtakes(s, "login", v)
  BY <1>1, <1>2, <1>3, <1>4 DEF Overtakes, all
<1>5. ASSUME work' = [Overtaken(s) EXCEPT ![s].at = "retire"]
      PROVE  Overtakes(s, "retire", work[s].gen)
  BY <1>1, <1>2, <1>3, <1>5 DEF Overtakes, all
<1> QED BY <1>4, <1>5

(* begin_sign_in and sign_out move the counter first. *)
LEMMA AsksDo ==
  ASSUME WorkTyped, NEW s \in Slot
  PROVE  /\ BeginSignIn(s) =>
              /\ At(s, "begin")
              /\ \/ Stops(s) /\ UNCHANGED gen
                 \/ \E v \in 0 .. gen + 1 :
                      BumpGeneration(v) /\ Free /\ IF v = 0 THEN Stops(s) ELSE Overtakes(s, "login", v)
              /\ UNCHANGED <<directory, cred, owed, aside, holder, user, history>>
         /\ SignOut(s) =>
              /\ At(s, "sign_out")
              /\ \/ Stops(s) /\ UNCHANGED <<gen, holder>>
                 \/ \E v \in 0 .. gen + 1 :
                      /\ BumpGeneration(v) /\ Free
                      /\ IF v = 0 THEN Stops(s) /\ UNCHANGED holder
                         ELSE holder' = s /\ Overtakes(s, "retire", work[s].gen)
              /\ UNCHANGED <<directory, cred, owed, aside, user, history>>
<1>1. BeginSignIn(s) =>
              /\ At(s, "begin")
              /\ \/ Stops(s) /\ UNCHANGED gen
                 \/ \E v \in 0 .. gen + 1 :
                      BumpGeneration(v) /\ Free /\ IF v = 0 THEN Stops(s) ELSE Overtakes(s, "login", v)
              /\ UNCHANGED <<directory, cred, owed, aside, holder, user, history>>
  BY OvertakingDoes, WorkerMoves, Zenon DEF BeginSignIn
<1>2. SignOut(s) =>
              /\ At(s, "sign_out")
              /\ \/ Stops(s) /\ UNCHANGED <<gen, holder>>
                 \/ \E v \in 0 .. gen + 1 :
                      /\ BumpGeneration(v) /\ Free
                      /\ IF v = 0 THEN Stops(s) /\ UNCHANGED holder
                         ELSE holder' = s /\ Overtakes(s, "retire", work[s].gen)
              /\ UNCHANGED <<directory, cred, owed, aside, user, history>>
  BY OvertakingDoes, WorkerMoves, Zenon DEF SignOut
<1> QED BY <1>1, <1>2

(* A worker goes, and what it was. *)
Goes(s) == DOMAIN work' = Slot /\ work'[s] = Idle /\ \A r \in Slot \ {s} : Stays(r)

LEMMA StopsStay ==
  ASSUME WorkTyped, NEW s \in Slot, Stops(s)
  PROVE  Goes(s)
  BY DEF Goes, Stops, Stays, OthersStay, WorkTyped, WorkerShape

(* A window that was signed in shows that it is not. *)
LEMMA DropDoes ==
  ASSUME WorkTyped, NEW s \in Slot, Drop(s)
  PROVE  At(s, "drop") /\ Goes(s) /\ UNCHANGED <<directory, files, holder, asked, faults, history>>
<1>1. ASSUME NEW w, work' = [NewEpoch(w) EXCEPT ![s] = Idle]
      PROVE  Goes(s)
  BY <1>1 DEF NewEpoch, Goes, Stays, WorkTyped, WorkerShape
<1>2. Done(s) => Goes(s)
  BY WorkerMoves, StopsStay
<1> QED BY <1>1, <1>2, Zenon DEF Drop

(* A process dies. *)
LEMMA CrashDoes ==
  ASSUME WorkTyped, NEW w \in Window, Crash(w)
  PROVE  /\ DOMAIN work' = Slot
         /\ \A s \in Slot : /\ work[s].win = w => work'[s] = Idle
                            /\ work[s].win # w => work'[s] = work[s]
         /\ holder' = IF holder \in Slot /\ work[holder].win = w THEN None ELSE holder
         /\ disowned' = disowned \cup
              ({work[s].dev : s \in {r \in Slot : work[r].win = w /\ work[r].at \in Unkept}}
               \ {None})
         /\ UNCHANGED <<directory, files, asked, last>>
<1>1. {r \in {s \in Slot : work[s].win = w} : work[r].at \in Unkept}
        = {r \in Slot : work[r].win = w /\ work[r].at \in Unkept}
  OBVIOUS
<1> QED BY <1>1 DEF Crash, Unkept
-----------------------------------------------------------------------------
(* A worker that keeps its shape keeps that of all *)

(* Where a worker may go on. *)
Onward == Places \ {"idle", "begin", "login"}

(* A worker that goes on with what it may know. *)
LEMMA TurnsTyped ==
  ASSUME WorkTyped, NEW s \in Slot, NEW at \in Onward,
         NEW dev \in MaybeDevice, NEW n \in Nat, NEW account \in MaybeAccount,
         NEW other \in MaybeDevice, NEW ended \in MaybeDevice, NEW queue \in SUBSET Device,
         Turns(s, at, dev, n, account, other, ended, queue),
         at \in HasDevice => dev # None, at \in HasOther => other # None
  PROVE  WorkTyped'
<1>1. WorkerShape(work'[s])
  BY DEF WorkTyped, WorkerShape, Turns, Onward
<1> QED BY <1>1 DEF WorkTyped, Turns, OthersStay

LEMMA MovesTyped ==
  ASSUME WorkTyped, NEW s \in Slot, NEW at \in Onward, Moves(s, at),
         at \in HasDevice => work[s].dev # None, at \in HasOther => work[s].other # None
  PROVE  WorkTyped'
<1>1. WorkerShape(work'[s])
  BY DEF WorkTyped, WorkerShape, Moves, Turns, Onward
<1> QED BY <1>1 DEF WorkTyped, Moves, Turns, OthersStay

LEMMA StaysTyped ==
  ASSUME WorkTyped, NEW r \in Slot, Stays(r)
  PROVE  WorkerShape(work'[r])
  BY DEF WorkTyped, WorkerShape, Stays

LEMMA IdleTyped == WorkerShape(Idle)
  BY DEF Idle, WorkerShape, Places, MaybeDevice, MaybeAccount, HasDevice, HasOther

LEMMA GoesTyped ==
  ASSUME WorkTyped, NEW s \in Slot, Goes(s)
  PROVE  WorkTyped'
  BY StaysTyped, IdleTyped DEF WorkTyped, Goes

LEMMA BeginsTyped ==
  ASSUME WorkTyped, NEW s \in Slot, NEW w \in Window, NEW account \in MaybeAccount,
         NEW place \in {"begin", "settle", "come_back", "sign_out"},
         place = "begin" => account # None, Begins(s, place, w, account)
  PROVE  WorkTyped'
<1>1. /\ place \in Places /\ place \notin HasDevice \cup HasOther \cup {"login"}
      /\ None \in MaybeDevice /\ 0 \in Nat
  BY DEF Places, HasDevice, HasOther, MaybeDevice
<1>2. WorkerShape(work'[s])
  BY <1>1 DEF WorkTyped, WorkerShape, Begins, Launches
<1> QED BY <1>2, StaysTyped DEF WorkTyped, Begins, Launches

LEMMA OvertakesTyped ==
  ASSUME WorkTyped, NEW s \in Slot, NEW v \in Nat, NEW place \in {"login", "retire"},
         place = "login" => work[s].account # None /\ work[s].dev = None, Overtakes(s, place, v)
  PROVE  WorkTyped'
<1>1. place \in Places /\ place \notin HasDevice \cup HasOther \cup {"idle", "begin"}
  BY DEF Places, Locked, HasDevice, HasOther
<1>2. WorkerShape(work'[s])
  BY <1>1 DEF WorkTyped, WorkerShape, Overtakes
<1>3. \A r \in Slot \ {s} : work[r].overtaken \in BOOLEAN /\ work'[r].overtaken \in BOOLEAN
  BY DEF WorkTyped, WorkerShape, Overtakes
<1>4. \A r \in Slot \ {s} : WorkerShape(work'[r])
  BY <1>3 DEF WorkTyped, WorkerShape, Overtakes
<1> QED BY <1>2, <1>4 DEF WorkTyped, Overtakes

LEMMA StopsTyped ==
  ASSUME WorkTyped, NEW s \in Slot, Stops(s)
  PROVE  WorkTyped'
  BY StopsStay, GoesTyped
-----------------------------------------------------------------------------
(* What becomes of the devices *)

(* A device that is alive is known of as before. *)
KnownAsBefore ==
  \A d \in Device : d \notin Ended' =>
    /\ devices'[d].prevUses = devices[d].prevUses
    /\ \A n : KnownRecord(devices[d], n) <=> KnownRecord(devices'[d], n)

(* No device is given out, none comes to life, and no credential changes. *)
EndsOnly ==
  /\ minted' = minted /\ Ended \subseteq Ended'
  /\ \A d \in Device :
       /\ devices'[d].cred = devices[d].cred /\ devices'[d].prev = devices[d].prev
       /\ devices'[d].account = devices[d].account
  /\ KnownAsBefore

(* What only ends devices. *)
LEMMA EndsFacts ==
  ASSUME Typed
  PROVE  /\ UNCHANGED directory => EndsOnly
         /\ \A d \in Device : Told(d) => EndsOnly /\ d \in Ended'
         /\ \A d \in Device : NotTold(d) => EndsOnly
         /\ \A d \in Device : EndElsewhere(d) => EndsOnly
         /\ Tick => EndsOnly
<1>1. DirectoryTyped
  BY DEF Typed
<1>2. UNCHANGED directory => EndsOnly
  BY DEF directory, EndsOnly, Ended, KnownAsBefore
<1>3. ASSUME NEW d \in Device, devices' = RevokeAll(devices, {d}, now), minted' = minted, now' = now
      PROVE  EndsOnly /\ d \in Ended'
  <2>1. KnownAsBefore
    <3> SUFFICES ASSUME NEW o \in Device, o \notin Ended' PROVE devices'[o] = devices[o]
      BY DEF KnownAsBefore
    <3> QED BY <1>1, <1>3, RevokeAllFacts DEF Ended, RevokeAll
  <2> QED BY <1>1, <1>3, <2>1, RevokeAllFacts DEF EndsOnly, Ended
<1>4. \A d \in Device : Told(d) => EndsOnly /\ d \in Ended'
  BY <1>3 DEF Told, TellDirectory
<1>5. \A d \in Device : NotTold(d) => EndsOnly
  <2> SUFFICES ASSUME NEW d \in Device, NotTold(d) PROVE EndsOnly
    OBVIOUS
  <2>1. /\ minted' = minted /\ now' = now
        /\ devices' = devices \/ devices' = RevokeAll(devices, {d}, now)
    BY DEF NotTold, TellDirectory
  <2>2. devices' = devices => EndsOnly
    BY <2>1 DEF EndsOnly, Ended, KnownAsBefore
  <2> QED BY <2>1, <2>2, <1>3
<1>6. \A d \in Device : EndElsewhere(d) => EndsOnly
  BY <1>3 DEF EndElsewhere
<1>7. Tick => EndsOnly
  <2> SUFFICES ASSUME Tick PROVE EndsOnly
    OBVIOUS
  <2>1. now' = now + 1 /\ minted' = minted /\ devices' = devices /\ now \in Nat
    BY <1>1 DEF Tick, DirectoryTyped
  <2>2. \A d \in Device : IsLive(devices[d], now + 1) => IsLive(devices[d], now)
    <3>1. \A d \in Device : ExpiresAt(devices[d]) \in Nat
      BY <1>1, LimitsAssumption DEF DirectoryTyped, DeviceRecord, ExpiresAt
    <3> QED BY <2>1, <3>1 DEF IsLive
  <2> QED BY <2>1, <2>2 DEF EndsOnly, Ended, KnownAsBefore
<1> QED BY <1>2, <1>4, <1>5, <1>6, <1>7

(* A device is given out to one who signs in. *)
Joins(s, d) ==
  /\ d \in Device /\ d \notin minted /\ minted' = minted \cup {d} /\ now' = now
  /\ work[s].account \in active
  /\ devices'[d].cred = 1 /\ devices'[d].account = work[s].account
  /\ KnownRecord(devices'[d], 1)
  /\ \A o \in Device \ {d} : devices'[o] = devices[o]

(* A sign-in gives out a device, or changes nothing. *)
LEMMA LoginJoins ==
  ASSUME Typed, NEW s \in Slot, DirectoryLogin(s)
  PROVE  /\ UNCHANGED <<now, active, late, files, holder, user, last>>
         /\ \/ /\ EndsOnly /\ UNCHANGED disowned
               /\ Moves(s, "listed") \/ Stops(s)
            \/ \E d \in Device :
                 /\ Joins(s, d)
                 /\ \/ /\ Turns(s, "listed", d, 1, work[s].account, work[s].other, work[s].ended,
                                work[s].queue)
                       /\ UNCHANGED disowned
                    \/ Stops(s) /\ disowned' = disowned \cup {d}
<1>1. WorkTyped /\ DirectoryTyped
  BY DEF Typed
<1>2. \A d \in Device :
        LET next == CreateFamily(devices, work[s].account, d, 1 + Cardinality(minted), now)
        IN  work[s].account \in active =>
              /\ next[d].cred = 1 /\ next[d].account = work[s].account
              /\ KnownRecord(next[d], 1)
              /\ \A o \in Device \ {d} : next[o] = devices[o]
  BY <1>1, NewFamilyFacts DEF DirectoryTyped
<1>3. UNCHANGED <<now, minted, devices>> => EndsOnly
  BY DEF EndsOnly, Ended, KnownAsBefore
<1> QED BY <1>1, <1>2, <1>3, DirectoryLoginDoes DEF Joins

(* The directory rotates the credential that is stored, or ends its device, *)
(* or has nothing to do with it.                                            *)
Exchanged(s, ok) ==
  LET d == work[s].dev IN
  /\ minted' = minted /\ now' = now /\ devices' \in [Device -> DeviceRecord]
  /\ \A o \in Device \ {d} : devices'[o] = devices[o]
  /\ devices'[d].account = devices[d].account
  /\ IsLive(devices'[d], now) => IsLive(devices[d], now)
  /\ devices'[d].cred # 0 => devices[d].cred # 0
  /\ ok => devices'[d].cred = devices[d].cred + 1
  /\ ~ok => devices'[d].cred = devices[d].cred
  /\ KnownRecord(devices[d], work[s].n) =>
       /\ IsLive(devices'[d], now) => KnownRecord(devices'[d], work[s].n)
       /\ ok => KnownRecord(devices'[d], devices'[d].cred)
       /\ ~ok /\ devices[d].account \in active => ~IsLive(devices'[d], now)

(* A refresh exchanges a credential, or changes nothing. *)
LEMMA RefreshExchanges ==
  ASSUME Typed, NEW s \in Slot, Refresh(s)
  PROVE  LET w == work[s] IN
         /\ At(s, "refresh") /\ Holds(s) /\ w.dev \in Device
         /\ \/ /\ Exchanged(s, TRUE) /\ UNCHANGED holder
               /\ Turns(s, "save", w.dev, devices'[w.dev].cred, w.account, w.other, w.ended, w.queue)
            \/ Exchanged(s, FALSE) /\ Moves(s, "refused") /\ UNCHANGED holder
            \/ /\ Exchanged(s, TRUE) \/ Exchanged(s, FALSE) \/ EndsOnly
               /\ Moves(s, "come_back") \/ Moves(s, "drop") \/ Stops(s)
               /\ LetsGo
         /\ \/ late' = late
            \/ "late" \in Faults /\ late' = late \cup {<<w.dev, w.n>>} /\ UNCHANGED devices
         /\ UNCHANGED <<now, minted, active, files, user, history>>
<1> DEFINE w == work[s]
           exchange == Exchanges(w.dev, w.n)
<1>1. WorkTyped /\ DirectoryTyped
  BY DEF Typed
<1>2. At(s, "refresh") /\ w.dev \in Device /\ w.n \in Nat
  BY <1>1, RefreshDoes DEF At, WorkTyped, WorkerShape, HasDevice, MaybeDevice
<1>3. UNCHANGED <<now, minted, active, files, user, history>>
  BY <1>1, RefreshDoes
<1>4. ASSUME devices' = exchange.next, exchange.ok PROVE Exchanged(s, TRUE)
  BY <1>1, <1>2, <1>3, <1>4, ExchangeFacts, ExchangeKeeps DEF Exchanged, InStore
<1>5. ASSUME devices' = exchange.next, ~exchange.ok PROVE Exchanged(s, FALSE)
  BY <1>1, <1>2, <1>3, <1>5, ExchangeFacts, ExchangeKeeps DEF Exchanged, InStore
<1>6. devices' = devices => EndsOnly
  BY <1>3 DEF EndsOnly, Ended, KnownAsBefore
<1>7. \/ late' = late
      \/ "late" \in Faults /\ late' = late \cup {<<w.dev, w.n>>} /\ UNCHANGED devices
  BY <1>1, RefreshDoes, Zenon DEF Fault
<1> HIDE DEF exchange
<1> QED BY <1>1, <1>2, <1>3, <1>4, <1>5, <1>6, <1>7, RefreshDoes, Zenon DEF exchange

(* A request that comes late does what it would have done. *)
LEMMA LateExchanges ==
  ASSUME Typed, NEW d \in Device, NEW n \in 1 .. MaxCred, LateRefresh(d, n)
  PROVE  /\ <<d, n>> \in late /\ late' \subseteq late
         /\ minted' = minted /\ Ended \subseteq Ended'
         /\ \A o \in Device \ {d} : devices'[o] = devices[o]
         /\ \A o \in Device : /\ InStore(devices'[o]) => InStore(devices[o])
                              /\ devices'[o].account = devices[o].account
         /\ UNCHANGED <<now, minted, active, files, holder, user, work, history>>
         /\ \A k \in Nat :
              /\ n <= k /\ (n = k \/ IssuedKept > 1) /\ KnownRecord(devices[d], k)
              => (IsLive(devices'[d], now) => KnownRecord(devices'[d], k))
<1>1. DirectoryTyped /\ n \in Nat /\ devices' = Exchanges(d, n).next /\ now' = now
  BY LoginFlowAssumption DEF Typed, LateRefresh
<1>2. Ended \subseteq Ended'
  BY <1>1, ExchangeFacts DEF Ended
<1>3. \A k \in Nat :
        /\ n <= k /\ (n = k \/ IssuedKept > 1) /\ KnownRecord(devices[d], k)
        => (IsLive(devices'[d], now) => KnownRecord(devices'[d], k))
  BY <1>1, ExchangeKeeps
<1> QED BY <1>1, <1>2, <1>3, ExchangeFacts DEF LateRefresh

(* What was issued is ended, if anything was. *)
LEMMA NotKeptDoes ==
  ASSUME WorkTyped, NEW s \in Slot, NotKept(s)
  PROVE  \/ work[s].dev = None /\ Stops(s)
         \/ work[s].dev # None /\ Moves(s, "unkept")
  BY WorkerMoves DEF NotKept

(* The steps that tell the directory, by the device that is ended. *)
LEMMA TellPreviousTells ==
  ASSUME Typed, NEW s \in Slot, TellPrevious(s)
  PROVE  LET w == work[s] IN
         /\ At(s, "tell_previous") /\ EndsOnly /\ UNCHANGED <<files, holder, user, history>>
         /\ \/ /\ w.other \in Ended'
               /\ Turns(s, "remember", w.dev, w.n, w.account, None, w.other, w.queue)
            \/ w.dev = None /\ Stops(s)
            \/ w.dev # None /\ Moves(s, "unkept")
<1>1. WorkTyped
  BY DEF Typed
<1>2. work[s].other \in Device
  BY <1>1, TellPreviousDoes DEF At, WorkTyped, WorkerShape, HasOther, MaybeDevice
<1> QED BY <1>1, <1>2, TellPreviousDoes, NotKeptDoes, EndsFacts

LEMMA EndUnkeptDeviceTells ==
  ASSUME Typed, NEW s \in Slot, EndUnkeptDevice(s)
  PROVE  /\ At(s, "unkept") /\ EndsOnly /\ UNCHANGED <<files, holder, user, history>>
         /\ \/ work[s].dev \in Ended' /\ Stops(s)
            \/ Moves(s, "record_unkept")
<1>1. WorkTyped
  BY DEF Typed
<1>2. work[s].dev \in Device
  BY <1>1, EndUnkeptDeviceDoes DEF At, WorkTyped, WorkerShape, HasDevice, MaybeDevice
<1> QED BY <1>1, <1>2, EndUnkeptDeviceDoes, EndsFacts

LEMMA SettleOneTells ==
  ASSUME Typed, NEW s \in Slot, SettleOne(s)
  PROVE  LET w == work[s] IN
         /\ At(s, "settling") /\ EndsOnly /\ UNCHANGED <<files, holder, user, history>>
         /\ \/ Moves(s, "adopt") \/ Moves(s, "come_back")
            \/ \E d \in w.queue :
                 \/ /\ d \in Ended'
                    /\ Turns(s, "settled", w.dev, w.n, w.account, d, w.ended, w.queue \ {d})
                 \/ Turns(s, "settling", w.dev, w.n, w.account, w.other, w.ended, w.queue \ {d})
<1>1. WorkTyped
  BY DEF Typed
<1>2. work[s].queue \subseteq Device
  BY <1>1 DEF WorkTyped, WorkerShape
<1>3. At(s, "settling") => work[s].at = "settling"
  BY DEF At
<1> QED BY <1>1, <1>2, <1>3, SettleOneDoes, EndsFacts

LEMMA TellSignOutTells ==
  ASSUME Typed, NEW s \in Slot, TellSignOut(s)
  PROVE  /\ EndsOnly /\ UNCHANGED <<files, holder, user, history>>
         /\ work[s].at \in {"tell_erased", "tell_unrecorded", "tell_kept"}
         /\ \/ /\ work[s].dev \in Ended'
               /\ Moves(s, "clear") \/ Moves(s, "erase_ended")
            \/ Stops(s)
<1>1. WorkTyped
  BY DEF Typed
<1>2. work[s].at \in {"tell_erased", "tell_unrecorded", "tell_kept"}
  BY <1>1, TellSignOutDoes DEF At
<1>3. work[s].dev \in Device
  BY <1>1, <1>2 DEF WorkTyped, WorkerShape, HasDevice, MaybeDevice
<1> QED BY <1>1, <1>2, <1>3, TellSignOutDoes, EndsFacts

(* The steps that write to the list, by the device that is written down. *)
LEMMA RetireTakes ==
  ASSUME Typed, NEW s \in Slot, Retire(s)
  PROVE  LET w == work[s] IN
         /\ At(s, "retire") /\ Holds(s) /\ EndsOnly
         /\ \/ /\ cred.dev = None /\ Stops(s) /\ UNCHANGED <<cred, owed, disowned>>
            \/ /\ cred.dev # None /\ Stops(s) /\ UNCHANGED owed
               /\ \/ cred' = NoCred /\ disowned' = disowned \cup {cred.dev}
                  \/ UNCHANGED <<cred, disowned>>
            \/ /\ cred.dev # None /\ owed' = owed \cup {cred.dev}
               /\ Turns(s, "erase", cred.dev, w.n, w.account, w.other, w.ended, w.queue)
               /\ UNCHANGED <<cred, disowned>>
            \/ /\ cred.dev # None /\ UNCHANGED owed
               /\ Turns(s, "tell_unrecorded", cred.dev, w.n, w.account, w.other, w.ended,
                        w.queue)
               /\ UNCHANGED <<cred, disowned>>
         /\ UNCHANGED <<aside, gen, user>>
<1>1. WorkTyped
  BY DEF Typed
<1>2. Recorded(cred.dev) => owed' = owed \cup {cred.dev}
  BY DEF Recorded, AddPendingRevoke
<1>3. NotRecorded(cred.dev) => owed' = owed
  BY DEF NotRecorded, AddPendingRevoke
<1> QED BY <1>1, <1>2, <1>3, RetireDoes, EndsFacts

LEMMA ReplaceTakes ==
  ASSUME Typed, NEW s \in Slot, Replace(s)
  PROVE  LET w == work[s]
             Bumps(other) == Turns(s, "bump", w.dev, w.n, w.account, other, w.ended, w.queue)
         IN  /\ At(s, "replace") /\ Holds(s) /\ EndsOnly
             /\ \/ Bumps(None) /\ UNCHANGED owed
                \/ Bumps(cred.dev) /\ cred.dev = w.ended /\ UNCHANGED owed
                \/ Moves(s, "bump") /\ UNCHANGED owed
                \/ /\ cred.dev # None /\ owed' = owed \cup {cred.dev} /\ Bumps(cred.dev)
                \/ /\ cred.dev # None /\ UNCHANGED owed
                   /\ Turns(s, "tell_previous", w.dev, w.n, w.account, cred.dev, w.ended,
                            w.queue)
                \/ w.dev = None /\ Stops(s) /\ UNCHANGED owed
                \/ w.dev # None /\ Moves(s, "unkept") /\ UNCHANGED owed
             /\ UNCHANGED <<cred, aside, gen, user, history>>
<1>1. WorkTyped
  BY DEF Typed
<1>2. Recorded(cred.dev) => owed' = owed \cup {cred.dev}
  BY DEF Recorded, AddPendingRevoke
<1>3. NotRecorded(cred.dev) => owed' = owed
  BY DEF NotRecorded, AddPendingRevoke
<1> QED BY <1>1, <1>2, <1>3, ReplaceDoes, NotKeptDoes, EndsFacts

LEMMA RecordUnkeptDeviceTakes ==
  ASSUME Typed, NEW s \in Slot, RecordUnkeptDevice(s)
  PROVE  /\ At(s, "record_unkept") /\ Stops(s) /\ EndsOnly
         /\ \/ owed' = owed \cup {work[s].dev} /\ UNCHANGED disowned
            \/ owed' = owed /\ disowned' = disowned \cup {work[s].dev}
         /\ UNCHANGED <<cred, aside, gen, holder, user, last>>
<1>1. WorkTyped
  BY DEF Typed
<1>2. Recorded(work[s].dev) => owed' = owed \cup {work[s].dev}
  BY DEF Recorded, AddPendingRevoke
<1>3. NotRecorded(work[s].dev) => owed' = owed
  BY DEF NotRecorded, AddPendingRevoke
<1> QED BY <1>1, <1>2, <1>3, RecordUnkeptDeviceDoes, EndsFacts

(* What is known of a credential goes where the credential goes. *)
KnownMoves ==
  /\ \/ cred'.dev = None
     \/ cred' = cred
     \/ \E s \in Slot :
          work[s].at \in {"keep", "save"} /\ cred'.dev = work[s].dev /\ cred'.n = work[s].n
  /\ \A r \in Slot : work'[r].at \in Knowing /\ work'[r].dev # None =>
       work[r].at \in Knowing /\ work'[r].dev = work[r].dev /\ work'[r].n = work[r].n
-----------------------------------------------------------------------------
(* Every step keeps the types *)

(* The directory's variables: the clock, the devices, who may use them. *)
LEMMA DirectoryStep ==
  ASSUME Typed, [Next]_vars
  PROVE  DirectoryTyped'
<1>1. ASSUME NEW s \in Slot, NEW w \in Window, NEW a \in Account, BeginLogin(s, w, a)
      PROVE  DirectoryTyped'
  BY <1>1 DEF BeginLogin, Launch, directory, Typed, DirectoryTyped
<1>2. ASSUME NEW s \in Slot, NEW w \in Window, BeginAutoLogin(s, w) PROVE DirectoryTyped'
  BY <1>2 DEF BeginAutoLogin, Launch, directory, Typed, DirectoryTyped
<1>3. ASSUME NEW s \in Slot, NEW w \in Window, BeginRefreshHosts(s, w) PROVE DirectoryTyped'
  BY <1>3 DEF BeginRefreshHosts, Launch, directory, Typed, DirectoryTyped
<1>4. ASSUME NEW s \in Slot, NEW w \in Window, BeginSignOut(s, w) PROVE DirectoryTyped'
  BY <1>4 DEF BeginSignOut, Launch, directory, Typed, DirectoryTyped
<1>5. ASSUME NEW s \in Slot, BeginSignIn(s) PROVE DirectoryTyped'
  BY <1>5 DEF BeginSignIn, directory, Typed, DirectoryTyped
<1>6. ASSUME NEW s \in Slot, DirectoryLogin(s) PROVE DirectoryTyped'
  BY <1>6, DirectoryLoginDoes, NewFamilyFacts DEF Typed, DirectoryTyped
<1>7. ASSUME NEW s \in Slot, Listed(s) PROVE DirectoryTyped'
  BY <1>7 DEF Listed, directory, Typed, DirectoryTyped
<1>8. ASSUME NEW s \in Slot, Remember(s) PROVE DirectoryTyped'
  BY <1>8 DEF Remember, directory, Typed, DirectoryTyped
<1>9. ASSUME NEW s \in Slot, Replace(s) PROVE DirectoryTyped'
  BY <1>9 DEF Replace, directory, Typed, DirectoryTyped
<1>10. ASSUME NEW s \in Slot, TellPrevious(s) PROVE DirectoryTyped'
  BY <1>10, RevokeAllFacts, ExchangeFacts, NewFamilyFacts DEF TellPrevious, At, NotKept, files,
     Typed, DirectoryTyped, TellDirectory, WorkTyped, WorkerShape, HasDevice, HasOther,
     MaybeDevice, MaybeAccount
<1>11. ASSUME NEW s \in Slot, BumpBeforeKeeping(s) PROVE DirectoryTyped'
  BY <1>11 DEF BumpBeforeKeeping, directory, Typed, DirectoryTyped
<1>12. ASSUME NEW s \in Slot, Keep(s) PROVE DirectoryTyped'
  BY <1>12 DEF Keep, directory, Typed, DirectoryTyped
<1>13. ASSUME NEW s \in Slot, EndUnkeptDevice(s) PROVE DirectoryTyped'
  BY <1>13, RevokeAllFacts, ExchangeFacts, NewFamilyFacts DEF EndUnkeptDevice, At, files, Typed,
     DirectoryTyped, TellDirectory, WorkTyped, WorkerShape, HasDevice, HasOther, MaybeDevice,
     MaybeAccount
<1>14. ASSUME NEW s \in Slot, RecordUnkeptDevice(s) PROVE DirectoryTyped'
  BY <1>14 DEF RecordUnkeptDevice, directory, Typed, DirectoryTyped
<1>15. ASSUME NEW s \in Slot, Adopt(s) PROVE DirectoryTyped'
  BY <1>15 DEF Adopt, directory, Typed, DirectoryTyped
<1>16. ASSUME NEW s \in Slot, SettleOwedSignOuts(s) PROVE DirectoryTyped'
  BY <1>16 DEF SettleOwedSignOuts, directory, Typed, DirectoryTyped
<1>17. ASSUME NEW s \in Slot, SettleOne(s) PROVE DirectoryTyped'
  <2>1. UNCHANGED directory \/ \E d \in work[s].queue : Told(d) \/ NotTold(d)
    BY <1>17, SettleOneDoes DEF Typed
  <2> QED BY <2>1, RevokeAllFacts
          DEF Typed, DirectoryTyped, directory, Told, NotTold, TellDirectory
<1>18. ASSUME NEW s \in Slot, RemoveSettled(s) PROVE DirectoryTyped'
  BY <1>18 DEF RemoveSettled, directory, Typed, DirectoryTyped
<1>19. ASSUME NEW s \in Slot, ComeBack(s) PROVE DirectoryTyped'
  BY <1>19 DEF ComeBack, directory, Typed, DirectoryTyped
<1>20. ASSUME NEW s \in Slot, Refresh(s) PROVE DirectoryTyped'
  BY <1>20, RevokeAllFacts, ExchangeFacts, NewFamilyFacts DEF Refresh, At, Holds, LetsGo,
     ComesLater, ComesToNothing, files, Typed, DirectoryTyped, WorkTyped, WorkerShape, HasDevice,
     HasOther, MaybeDevice, MaybeAccount
<1>21. ASSUME NEW s \in Slot, SaveNext(s) PROVE DirectoryTyped'
  BY <1>21 DEF SaveNext, directory, Typed, DirectoryTyped
<1>22. ASSUME NEW s \in Slot, EraseRefused(s) PROVE DirectoryTyped'
  BY <1>22 DEF EraseRefused, directory, Typed, DirectoryTyped
<1>23. ASSUME NEW s \in Slot, Relisted(s) PROVE DirectoryTyped'
  BY <1>23 DEF Relisted, directory, Typed, DirectoryTyped
<1>24. ASSUME NEW s \in Slot, Drop(s) PROVE DirectoryTyped'
  BY <1>24 DEF Drop, directory, Typed, DirectoryTyped
<1>25. ASSUME NEW s \in Slot, SignOut(s) PROVE DirectoryTyped'
  BY <1>25 DEF SignOut, directory, Typed, DirectoryTyped
<1>26. ASSUME NEW s \in Slot, Retire(s) PROVE DirectoryTyped'
  BY <1>26 DEF Retire, directory, Typed, DirectoryTyped
<1>27. ASSUME NEW s \in Slot, EraseRetired(s) PROVE DirectoryTyped'
  BY <1>27 DEF EraseRetired, directory, Typed, DirectoryTyped
<1>28. ASSUME NEW s \in Slot, TellSignOut(s) PROVE DirectoryTyped'
  BY <1>28, RevokeAllFacts, ExchangeFacts, NewFamilyFacts DEF TellSignOut, At, files, Typed,
     DirectoryTyped, TellDirectory, WorkTyped, WorkerShape, HasDevice, HasOther, MaybeDevice,
     MaybeAccount
<1>29. ASSUME NEW s \in Slot, ClearRecord(s) PROVE DirectoryTyped'
  BY <1>29 DEF ClearRecord, directory, Typed, DirectoryTyped
<1>30. ASSUME NEW s \in Slot, EraseEnded(s) PROVE DirectoryTyped'
  BY <1>30 DEF EraseEnded, directory, Typed, DirectoryTyped
<1>31. ASSUME NEW w \in Window, Crash(w) PROVE DirectoryTyped'
  BY <1>31 DEF Crash, directory, Typed, DirectoryTyped
<1>32. ASSUME NEW w \in Window, CloseWindow(w) PROVE DirectoryTyped'
  BY <1>32 DEF CloseWindow, directory, Typed, DirectoryTyped
<1>33. CASE Tick
  BY <1>33, RevokeAllFacts, ExchangeFacts, NewFamilyFacts DEF Tick, files, Typed, DirectoryTyped,
     WorkTyped, WorkerShape, HasDevice, HasOther, MaybeDevice, MaybeAccount
<1>34. ASSUME NEW d \in Device, EndElsewhere(d) PROVE DirectoryTyped'
  BY <1>34, RevokeAllFacts, ExchangeFacts, NewFamilyFacts DEF EndElsewhere, files, Typed,
     DirectoryTyped, WorkTyped, WorkerShape, HasDevice, HasOther, MaybeDevice, MaybeAccount
<1>35. ASSUME NEW d \in Device, NEW n \in 1 .. MaxCred, LateRefresh(d, n) PROVE DirectoryTyped'
  <2>1. n \in Nat
    BY LoginFlowAssumption
  <2> QED BY <1>35, <2>1, ExchangeFacts DEF LateRefresh, Typed, DirectoryTyped
<1>36. ASSUME NEW a \in Account, DisableAccount(a) PROVE DirectoryTyped'
  BY <1>36, RevokeAllFacts, ExchangeFacts, NewFamilyFacts DEF DisableAccount, files, Typed,
     DirectoryTyped, WorkTyped, WorkerShape, HasDevice, HasOther, MaybeDevice, MaybeAccount
<1>37. ASSUME NEW a \in Account, EnableAccount(a) PROVE DirectoryTyped'
  BY <1>37, RevokeAllFacts, ExchangeFacts, NewFamilyFacts DEF EnableAccount, files, Typed,
     DirectoryTyped, WorkTyped, WorkerShape, HasDevice, HasOther, MaybeDevice, MaybeAccount
<1>38. CASE UNCHANGED vars
  BY <1>38 DEF vars, directory, files, history, user, Typed, DirectoryTyped, WorkTyped,
     WorkerShape, HasDevice, HasOther, MaybeDevice, MaybeAccount
<1> QED
  BY <1>1, <1>2, <1>3, <1>4, <1>5, <1>6, <1>7, <1>8, <1>9, <1>10, <1>11, <1>12, <1>13, <1>14,
     <1>15, <1>16, <1>17, <1>18, <1>19, <1>20, <1>21, <1>22, <1>23, <1>24, <1>25, <1>26, <1>27,
     <1>28, <1>29, <1>30, <1>31, <1>32, <1>33, <1>34, <1>35, <1>36, <1>37, <1>38
     DEF Next, User, Worker, World

(* The three files. *)
LEMMA FilesStep ==
  ASSUME Typed, [Next]_vars
  PROVE  FilesTyped'
<1>1. ASSUME NEW s \in Slot, NEW w \in Window, NEW a \in Account, BeginLogin(s, w, a)
      PROVE  FilesTyped'
  BY <1>1 DEF BeginLogin, Launch, files, Typed, FilesTyped, OwedTyped
<1>2. ASSUME NEW s \in Slot, NEW w \in Window, BeginAutoLogin(s, w) PROVE FilesTyped'
  BY <1>2 DEF BeginAutoLogin, Launch, files, Typed, FilesTyped, OwedTyped
<1>3. ASSUME NEW s \in Slot, NEW w \in Window, BeginRefreshHosts(s, w) PROVE FilesTyped'
  BY <1>3 DEF BeginRefreshHosts, Launch, files, Typed, FilesTyped, OwedTyped
<1>4. ASSUME NEW s \in Slot, NEW w \in Window, BeginSignOut(s, w) PROVE FilesTyped'
  BY <1>4 DEF BeginSignOut, Launch, files, Typed, FilesTyped, OwedTyped
<1>5. ASSUME NEW s \in Slot, BeginSignIn(s) PROVE FilesTyped'
  BY <1>5, AsksDo DEF Typed, FilesTyped, OwedTyped, BumpGeneration
<1>6. ASSUME NEW s \in Slot, DirectoryLogin(s) PROVE FilesTyped'
  BY <1>6 DEF DirectoryLogin, files, Typed, FilesTyped, OwedTyped
<1>7. ASSUME NEW s \in Slot, Listed(s) PROVE FilesTyped'
  BY <1>7 DEF Listed, files, Typed, FilesTyped, OwedTyped
<1>8. ASSUME NEW s \in Slot, Remember(s) PROVE FilesTyped'
  BY <1>8, OwedStays DEF Remember, At, NotKept, Free, Takes, Typed, FilesTyped, OwedTyped,
     WorkTyped, WorkerShape, HasDevice, HasOther, MaybeDevice, MaybeAccount
<1>9. ASSUME NEW s \in Slot, Replace(s) PROVE FilesTyped'
  BY <1>9, OwedStays DEF Replace, At, Holds, LetsGo, NotKept, Typed, FilesTyped, OwedTyped,
     WorkTyped, WorkerShape, HasDevice, HasOther, MaybeDevice, MaybeAccount
<1>10. ASSUME NEW s \in Slot, TellPrevious(s) PROVE FilesTyped'
  BY <1>10 DEF TellPrevious, files, Typed, FilesTyped, OwedTyped
<1>11. ASSUME NEW s \in Slot, BumpBeforeKeeping(s) PROVE FilesTyped'
  BY <1>11, OwedStays DEF BumpBeforeKeeping, At, Holds, LetsGo, NotKept, BumpGeneration, Typed,
     FilesTyped, OwedTyped, WorkTyped, WorkerShape, HasDevice, HasOther, MaybeDevice, MaybeAccount
<1>12. ASSUME NEW s \in Slot, Keep(s) PROVE FilesTyped'
  BY <1>12, OwedStays DEF Keep, At, Holds, LetsGo, NotKept, Save, Typed, FilesTyped, OwedTyped,
     NoCred, WorkTyped, WorkerShape, HasDevice, HasOther, MaybeDevice, MaybeAccount
<1>13. ASSUME NEW s \in Slot, EndUnkeptDevice(s) PROVE FilesTyped'
  BY <1>13 DEF EndUnkeptDevice, files, Typed, FilesTyped, OwedTyped
<1>14. ASSUME NEW s \in Slot, RecordUnkeptDevice(s) PROVE FilesTyped'
  BY <1>14, OwedStays DEF RecordUnkeptDevice, At, Free, Busy, Typed, FilesTyped, OwedTyped,
     WorkTyped, WorkerShape, HasDevice, HasOther, MaybeDevice, MaybeAccount
<1>15. ASSUME NEW s \in Slot, Adopt(s) PROVE FilesTyped'
  BY <1>15 DEF Adopt, files, Typed, FilesTyped, OwedTyped
<1>16. ASSUME NEW s \in Slot, SettleOwedSignOuts(s) PROVE FilesTyped'
  BY <1>16 DEF SettleOwedSignOuts, files, Typed, FilesTyped, OwedTyped
<1>17. ASSUME NEW s \in Slot, SettleOne(s) PROVE FilesTyped'
  BY <1>17 DEF SettleOne, files, Typed, FilesTyped, OwedTyped
<1>18. ASSUME NEW s \in Slot, RemoveSettled(s) PROVE FilesTyped'
  BY <1>18, OwedStays DEF RemoveSettled, At, Free, Busy, Typed, FilesTyped, OwedTyped, WorkTyped,
     WorkerShape, HasDevice, HasOther, MaybeDevice, MaybeAccount
<1>19. ASSUME NEW s \in Slot, ComeBack(s) PROVE FilesTyped'
  BY <1>19, OwedStays DEF ComeBack, At, Busy, Free, Takes, ComesLater, ComesToNothing,
     BumpGeneration, Erase, Save, Typed, FilesTyped, OwedTyped, NoCred, WorkTyped, WorkerShape,
     HasDevice, HasOther, MaybeDevice, MaybeAccount
<1>20. ASSUME NEW s \in Slot, Refresh(s) PROVE FilesTyped'
  BY <1>20 DEF Refresh, files, Typed, FilesTyped, OwedTyped
<1>21. ASSUME NEW s \in Slot, SaveNext(s) PROVE FilesTyped'
  BY <1>21, OwedStays DEF SaveNext, At, Holds, LetsGo, ComesToNothing, Save, Typed, FilesTyped,
     OwedTyped, WorkTyped, WorkerShape, HasDevice, HasOther, MaybeDevice, MaybeAccount
<1>22. ASSUME NEW s \in Slot, EraseRefused(s) PROVE FilesTyped'
  BY <1>22, OwedStays DEF EraseRefused, At, Holds, LetsGo, ComesToNothing, BumpGeneration, Erase,
     Save, Typed, FilesTyped, OwedTyped, NoCred, WorkTyped, WorkerShape, HasDevice, HasOther,
     MaybeDevice, MaybeAccount
<1>23. ASSUME NEW s \in Slot, Relisted(s) PROVE FilesTyped'
  BY <1>23 DEF Relisted, files, Typed, FilesTyped, OwedTyped
<1>24. ASSUME NEW s \in Slot, Drop(s) PROVE FilesTyped'
  BY <1>24 DEF Drop, files, Typed, FilesTyped, OwedTyped
<1>25. ASSUME NEW s \in Slot, SignOut(s) PROVE FilesTyped'
  BY <1>25, OwedStays DEF SignOut, At, Busy, Free, BumpGeneration, Overtaken, Typed, FilesTyped,
     OwedTyped, WorkTyped, WorkerShape, HasDevice, HasOther, MaybeDevice, MaybeAccount
<1>26. ASSUME NEW s \in Slot, Retire(s) PROVE FilesTyped'
  <2>1. /\ cred' = cred \/ cred' = NoCred
        /\ \/ owed' = owed
           \/ cred.dev # None /\ (Recorded(cred.dev) \/ NotRecorded(cred.dev))
        /\ UNCHANGED <<aside, gen>>
    BY <1>26, RetireDoes DEF Typed
  <2>2. OwedTyped'
    <3>1. CASE owed' = owed
      BY <3>1 DEF OwedTyped, Typed, FilesTyped
    <3>2. CASE cred.dev # None /\ (Recorded(cred.dev) \/ NotRecorded(cred.dev))
      <4>1. cred.dev \in Device /\ OwedTyped
        BY <3>2 DEF Typed, FilesTyped, MaybeDevice
      <4> QED BY <3>2, <4>1, OwedStays
    <3> QED BY <2>1, <3>1, <3>2
  <2> QED BY <2>1, <2>2 DEF Typed, FilesTyped, NoCred, MaybeDevice, MaybeAccount
<1>27. ASSUME NEW s \in Slot, EraseRetired(s) PROVE FilesTyped'
  BY <1>27, OwedStays DEF EraseRetired, At, Holds, LetsGo, Erase, Save, Typed, FilesTyped,
     OwedTyped, NoCred, WorkTyped, WorkerShape, HasDevice, HasOther, MaybeDevice, MaybeAccount
<1>28. ASSUME NEW s \in Slot, TellSignOut(s) PROVE FilesTyped'
  BY <1>28 DEF TellSignOut, files, Typed, FilesTyped, OwedTyped
<1>29. ASSUME NEW s \in Slot, ClearRecord(s) PROVE FilesTyped'
  BY <1>29, OwedStays DEF ClearRecord, At, Free, Busy, Typed, FilesTyped, OwedTyped, WorkTyped,
     WorkerShape, HasDevice, HasOther, MaybeDevice, MaybeAccount
<1>30. ASSUME NEW s \in Slot, EraseEnded(s) PROVE FilesTyped'
  BY <1>30, OwedStays DEF EraseEnded, At, Free, Busy, Erase, Save, Typed, FilesTyped, OwedTyped,
     NoCred, WorkTyped, WorkerShape, HasDevice, HasOther, MaybeDevice, MaybeAccount
<1>31. ASSUME NEW w \in Window, Crash(w) PROVE FilesTyped'
  BY <1>31 DEF Crash, files, Typed, FilesTyped, OwedTyped
<1>32. ASSUME NEW w \in Window, CloseWindow(w) PROVE FilesTyped'
  BY <1>32 DEF CloseWindow, files, Typed, FilesTyped, OwedTyped
<1>33. CASE Tick
  BY <1>33 DEF Tick, files, Typed, FilesTyped, OwedTyped
<1>34. ASSUME NEW d \in Device, EndElsewhere(d) PROVE FilesTyped'
  BY <1>34 DEF EndElsewhere, files, Typed, FilesTyped, OwedTyped
<1>35. ASSUME NEW d \in Device, NEW n \in 1 .. MaxCred, LateRefresh(d, n) PROVE FilesTyped'
  BY <1>35 DEF LateRefresh, files, Typed, FilesTyped, OwedTyped
<1>36. ASSUME NEW a \in Account, DisableAccount(a) PROVE FilesTyped'
  BY <1>36 DEF DisableAccount, files, Typed, FilesTyped, OwedTyped
<1>37. ASSUME NEW a \in Account, EnableAccount(a) PROVE FilesTyped'
  BY <1>37 DEF EnableAccount, files, Typed, FilesTyped, OwedTyped
<1>38. CASE UNCHANGED vars
  BY <1>38 DEF vars, directory, files, history, user, Typed, FilesTyped, OwedTyped, WorkTyped,
     WorkerShape, HasDevice, HasOther, MaybeDevice, MaybeAccount
<1> QED
  BY <1>1, <1>2, <1>3, <1>4, <1>5, <1>6, <1>7, <1>8, <1>9, <1>10, <1>11, <1>12, <1>13, <1>14,
     <1>15, <1>16, <1>17, <1>18, <1>19, <1>20, <1>21, <1>22, <1>23, <1>24, <1>25, <1>26, <1>27,
     <1>28, <1>29, <1>30, <1>31, <1>32, <1>33, <1>34, <1>35, <1>36, <1>37, <1>38
     DEF Next, User, Worker, World

(* The windows and the history. *)
LEMMA UserStep ==
  ASSUME Typed, [Next]_vars
  PROVE  UserTyped'
<1>1. ASSUME NEW s \in Slot, NEW w \in Window, NEW a \in Account, BeginLogin(s, w, a)
      PROVE  UserTyped'
  BY <1>1 DEF BeginLogin, Asks, Launch, At, NewEpoch, Typed, UserTyped, FilesTyped, SignedOff,
     history, WorkTyped, WorkerShape, HasDevice, HasOther, MaybeDevice, MaybeAccount
<1>2. ASSUME NEW s \in Slot, NEW w \in Window, BeginAutoLogin(s, w) PROVE UserTyped'
  BY <1>2 DEF BeginAutoLogin, Launch, user, history, Typed, UserTyped
<1>3. ASSUME NEW s \in Slot, NEW w \in Window, BeginRefreshHosts(s, w) PROVE UserTyped'
  BY <1>3 DEF BeginRefreshHosts, Launch, user, history, Typed, UserTyped
<1>4. ASSUME NEW s \in Slot, NEW w \in Window, BeginSignOut(s, w) PROVE UserTyped'
  BY <1>4 DEF BeginSignOut, Asks, Launch, At, NewEpoch, Typed, UserTyped, FilesTyped, SignedOff,
     history, WorkTyped, WorkerShape, HasDevice, HasOther, MaybeDevice, MaybeAccount
<1>5. ASSUME NEW s \in Slot, BeginSignIn(s) PROVE UserTyped'
  BY <1>5 DEF BeginSignIn, user, history, Typed, UserTyped
<1>6. ASSUME NEW s \in Slot, DirectoryLogin(s) PROVE UserTyped'
  BY <1>6 DEF DirectoryLogin, At, Typed, UserTyped, FilesTyped, user, WorkTyped, WorkerShape,
     HasDevice, HasOther, MaybeDevice, MaybeAccount
<1>7. ASSUME NEW s \in Slot, Listed(s) PROVE UserTyped'
  BY <1>7 DEF Listed, user, history, Typed, UserTyped
<1>8. ASSUME NEW s \in Slot, Remember(s) PROVE UserTyped'
  BY <1>8 DEF Remember, user, history, Typed, UserTyped
<1>9. ASSUME NEW s \in Slot, Replace(s) PROVE UserTyped'
  BY <1>9 DEF Replace, user, history, Typed, UserTyped
<1>10. ASSUME NEW s \in Slot, TellPrevious(s) PROVE UserTyped'
  BY <1>10 DEF TellPrevious, user, history, Typed, UserTyped
<1>11. ASSUME NEW s \in Slot, BumpBeforeKeeping(s) PROVE UserTyped'
  BY <1>11 DEF BumpBeforeKeeping, user, history, Typed, UserTyped
<1>12. ASSUME NEW s \in Slot, Keep(s) PROVE UserTyped'
  BY <1>12 DEF Keep, At, Holds, LetsGo, NotKept, Save, Typed, UserTyped, FilesTyped, user,
     WorkTyped, WorkerShape, HasDevice, HasOther, MaybeDevice, MaybeAccount
<1>13. ASSUME NEW s \in Slot, EndUnkeptDevice(s) PROVE UserTyped'
  BY <1>13 DEF EndUnkeptDevice, user, history, Typed, UserTyped
<1>14. ASSUME NEW s \in Slot, RecordUnkeptDevice(s) PROVE UserTyped'
  BY <1>14 DEF RecordUnkeptDevice, At, Free, Busy, Typed, UserTyped, FilesTyped, user, WorkTyped,
     WorkerShape, HasDevice, HasOther, MaybeDevice, MaybeAccount
<1>15. ASSUME NEW s \in Slot, Adopt(s) PROVE UserTyped'
  BY <1>15 DEF Adopt, At, Typed, UserTyped, FilesTyped, history, WorkTyped, WorkerShape,
     HasDevice, HasOther, MaybeDevice, MaybeAccount
<1>16. ASSUME NEW s \in Slot, SettleOwedSignOuts(s) PROVE UserTyped'
  BY <1>16 DEF SettleOwedSignOuts, user, history, Typed, UserTyped
<1>17. ASSUME NEW s \in Slot, SettleOne(s) PROVE UserTyped'
  BY <1>17 DEF SettleOne, user, history, Typed, UserTyped
<1>18. ASSUME NEW s \in Slot, RemoveSettled(s) PROVE UserTyped'
  BY <1>18 DEF RemoveSettled, user, history, Typed, UserTyped
<1>19. ASSUME NEW s \in Slot, ComeBack(s) PROVE UserTyped'
  BY <1>19 DEF ComeBack, user, history, Typed, UserTyped
<1>20. ASSUME NEW s \in Slot, Refresh(s) PROVE UserTyped'
  BY <1>20 DEF Refresh, user, history, Typed, UserTyped
<1>21. ASSUME NEW s \in Slot, SaveNext(s) PROVE UserTyped'
  BY <1>21 DEF SaveNext, user, history, Typed, UserTyped
<1>22. ASSUME NEW s \in Slot, EraseRefused(s) PROVE UserTyped'
  BY <1>22 DEF EraseRefused, user, history, Typed, UserTyped
<1>23. ASSUME NEW s \in Slot, Relisted(s) PROVE UserTyped'
  BY <1>23 DEF Relisted, user, history, Typed, UserTyped
<1>24. ASSUME NEW s \in Slot, Drop(s) PROVE UserTyped'
  BY <1>24 DEF Drop, At, NewEpoch, Typed, UserTyped, FilesTyped, SignedOff, history, WorkTyped,
     WorkerShape, HasDevice, HasOther, MaybeDevice, MaybeAccount
<1>25. ASSUME NEW s \in Slot, SignOut(s) PROVE UserTyped'
  BY <1>25 DEF SignOut, user, history, Typed, UserTyped
<1>26. ASSUME NEW s \in Slot, Retire(s) PROVE UserTyped'
  BY <1>26 DEF Retire, At, Holds, LetsGo, Typed, UserTyped, FilesTyped, user, WorkTyped,
     WorkerShape, HasDevice, HasOther, MaybeDevice, MaybeAccount
<1>27. ASSUME NEW s \in Slot, EraseRetired(s) PROVE UserTyped'
  BY <1>27 DEF EraseRetired, At, Holds, LetsGo, Erase, Save, Typed, UserTyped, FilesTyped,
     SignedOutOf, user, WorkTyped, WorkerShape, HasDevice, HasOther, MaybeDevice, MaybeAccount
<1>28. ASSUME NEW s \in Slot, TellSignOut(s) PROVE UserTyped'
  BY <1>28 DEF TellSignOut, user, history, Typed, UserTyped
<1>29. ASSUME NEW s \in Slot, ClearRecord(s) PROVE UserTyped'
  BY <1>29 DEF ClearRecord, user, history, Typed, UserTyped
<1>30. ASSUME NEW s \in Slot, EraseEnded(s) PROVE UserTyped'
  BY <1>30 DEF EraseEnded, At, Free, Busy, Erase, Save, Typed, UserTyped, FilesTyped, SignedOutOf,
     user, WorkTyped, WorkerShape, HasDevice, HasOther, MaybeDevice, MaybeAccount
<1>31. ASSUME NEW w \in Window, Crash(w) PROVE UserTyped'
  BY <1>31 DEF Crash, Typed, UserTyped, FilesTyped, SignedOff, WorkTyped, WorkerShape, HasDevice,
     HasOther, MaybeDevice, MaybeAccount
<1>32. ASSUME NEW w \in Window, CloseWindow(w) PROVE UserTyped'
  BY <1>32 DEF CloseWindow, Typed, UserTyped, FilesTyped, SignedOff, history, WorkTyped,
     WorkerShape, HasDevice, HasOther, MaybeDevice, MaybeAccount
<1>33. CASE Tick
  BY <1>33 DEF Tick, user, history, Typed, UserTyped
<1>34. ASSUME NEW d \in Device, EndElsewhere(d) PROVE UserTyped'
  BY <1>34 DEF EndElsewhere, user, history, Typed, UserTyped
<1>35. ASSUME NEW d \in Device, NEW n \in 1 .. MaxCred, LateRefresh(d, n) PROVE UserTyped'
  BY <1>35 DEF LateRefresh, user, history, Typed, UserTyped
<1>36. ASSUME NEW a \in Account, DisableAccount(a) PROVE UserTyped'
  BY <1>36 DEF DisableAccount, user, history, Typed, UserTyped
<1>37. ASSUME NEW a \in Account, EnableAccount(a) PROVE UserTyped'
  BY <1>37 DEF EnableAccount, user, history, Typed, UserTyped
<1>38. CASE UNCHANGED vars
  BY <1>38 DEF vars, directory, files, history, user, Typed, UserTyped, FilesTyped, WorkTyped,
     WorkerShape, HasDevice, HasOther, MaybeDevice, MaybeAccount
<1> QED
  BY <1>1, <1>2, <1>3, <1>4, <1>5, <1>6, <1>7, <1>8, <1>9, <1>10, <1>11, <1>12, <1>13, <1>14,
     <1>15, <1>16, <1>17, <1>18, <1>19, <1>20, <1>21, <1>22, <1>23, <1>24, <1>25, <1>26, <1>27,
     <1>28, <1>29, <1>30, <1>31, <1>32, <1>33, <1>34, <1>35, <1>36, <1>37, <1>38
     DEF Next, User, Worker, World

(* The workers. *)
LEMMA WorkStep ==
  ASSUME Typed, [Next]_vars
  PROVE  WorkTyped'
<1>1. ASSUME NEW s \in Slot, NEW w \in Window, NEW a \in Account, BeginLogin(s, w, a)
      PROVE  WorkTyped'
  BY <1>1, NoneAssumption, BeginsDo, BeginsTyped
     DEF Typed, UserTyped, MaybeAccount
<1>2. ASSUME NEW s \in Slot, NEW w \in Window, BeginAutoLogin(s, w) PROVE WorkTyped'
  BY <1>2, NoneAssumption, BeginsDo, BeginsTyped
     DEF Typed, UserTyped, MaybeAccount
<1>3. ASSUME NEW s \in Slot, NEW w \in Window, BeginRefreshHosts(s, w) PROVE WorkTyped'
  BY <1>3, NoneAssumption, BeginsDo, BeginsTyped
     DEF Typed, UserTyped, MaybeAccount
<1>4. ASSUME NEW s \in Slot, NEW w \in Window, BeginSignOut(s, w) PROVE WorkTyped'
  BY <1>4, NoneAssumption, BeginsDo, BeginsTyped
     DEF Typed, UserTyped, MaybeAccount
<1>5. ASSUME NEW s \in Slot, BeginSignIn(s) PROVE WorkTyped'
  BY <1>5, AsksDo, WorkerMoves, OvertakesTyped, StopsTyped, MovesTyped
     DEF At, Typed, UserTyped, FilesTyped, OwedTyped, WorkTyped, WorkerShape, HasDevice,
         HasOther, Onward, Places, Locked, Unkept, MaybeDevice, MaybeAccount, BumpGeneration
<1>6. ASSUME NEW s \in Slot, DirectoryLogin(s) PROVE WorkTyped'
  <2>0. /\ WorkTyped /\ work[s].n \in Nat /\ work[s].dev \in MaybeDevice
        /\ work[s].other \in MaybeDevice /\ work[s].ended \in MaybeDevice
        /\ work[s].account \in MaybeAccount /\ work[s].queue \in SUBSET Device
        /\ None \in MaybeDevice /\ 1 \in Nat
        /\ work[s].at \in HasDevice => work[s].dev # None
        /\ work[s].at \in HasOther => work[s].other # None
    BY DEF Typed, WorkTyped, WorkerShape, MaybeDevice
  <2>1. /\ {"listed"} \subseteq Onward
        /\ {"listed"} \cap (HasDevice \cup HasOther) = {}
    BY DEF Onward, Places, Locked, Unkept, HasDevice, HasOther
  <2>2. Device \subseteq MaybeDevice
    BY DEF MaybeDevice
  <2> QED BY <1>6, <2>0, <2>1, <2>2, DirectoryLoginDoes, StopsTyped, MovesTyped, TurnsTyped
<1>7. ASSUME NEW s \in Slot, Listed(s) PROVE WorkTyped'
  BY <1>7, WorkerMoves, StopsTyped, MovesTyped
     DEF At, Typed, UserTyped, FilesTyped, OwedTyped, WorkTyped, WorkerShape, HasDevice,
         HasOther, Onward, Places, Locked, Unkept, MaybeDevice, MaybeAccount, NotKept, Listed
<1>8. ASSUME NEW s \in Slot, Remember(s) PROVE WorkTyped'
  BY <1>8, WorkerMoves, StopsTyped, MovesTyped
     DEF At, Typed, UserTyped, FilesTyped, OwedTyped, WorkTyped, WorkerShape, HasDevice,
         HasOther, Onward, Places, Locked, Unkept, MaybeDevice, MaybeAccount, NotKept, Remember
<1>9. ASSUME NEW s \in Slot, Replace(s) PROVE WorkTyped'
  <2>0. /\ WorkTyped /\ work[s].n \in Nat /\ work[s].dev \in MaybeDevice
        /\ work[s].other \in MaybeDevice /\ work[s].ended \in MaybeDevice
        /\ work[s].account \in MaybeAccount /\ work[s].queue \in SUBSET Device
        /\ None \in MaybeDevice /\ 1 \in Nat
        /\ work[s].at \in HasDevice => work[s].dev # None
        /\ work[s].at \in HasOther => work[s].other # None
    BY DEF Typed, WorkTyped, WorkerShape, MaybeDevice
  <2>1. /\ {"bump", "tell_previous", "unkept"} \subseteq Onward
        /\ {"bump"} \cap (HasDevice \cup HasOther) = {}
    BY DEF Onward, Places, Locked, Unkept, HasDevice, HasOther
  <2>2. /\ "unkept" \notin HasOther /\ "tell_previous" \notin HasDevice
        /\ cred.dev \in MaybeDevice /\ (IF cred.dev = work[s].dev THEN None ELSE cred.dev) \in MaybeDevice
    BY DEF HasOther, HasDevice, Typed, FilesTyped, MaybeDevice
  <2>3. NotKept(s) => WorkTyped'
    BY <2>0, <2>1, <2>2, WorkerMoves, StopsTyped, MovesTyped DEF NotKept
  <2> QED BY <1>9, <2>0, <2>1, <2>2, <2>3, ReplaceDoes, MovesTyped, TurnsTyped
<1>10. ASSUME NEW s \in Slot, TellPrevious(s) PROVE WorkTyped'
  <2>0. /\ WorkTyped /\ work[s].n \in Nat /\ work[s].dev \in MaybeDevice
        /\ work[s].other \in MaybeDevice /\ work[s].ended \in MaybeDevice
        /\ work[s].account \in MaybeAccount /\ work[s].queue \in SUBSET Device
        /\ None \in MaybeDevice /\ 1 \in Nat
        /\ work[s].at \in HasDevice => work[s].dev # None
        /\ work[s].at \in HasOther => work[s].other # None
    BY DEF Typed, WorkTyped, WorkerShape, MaybeDevice
  <2>1. /\ {"remember", "unkept"} \subseteq Onward
        /\ {"remember"} \cap (HasDevice \cup HasOther) = {}
    BY DEF Onward, Places, Locked, Unkept, HasDevice, HasOther
  <2>2. "unkept" \notin HasOther
    BY DEF HasOther
  <2>3. NotKept(s) => WorkTyped'
    BY <2>0, <2>1, <2>2, WorkerMoves, StopsTyped, MovesTyped DEF NotKept
  <2> QED BY <1>10, <2>0, <2>1, <2>3, TellPreviousDoes, TurnsTyped
<1>11. ASSUME NEW s \in Slot, BumpBeforeKeeping(s) PROVE WorkTyped'
  BY <1>11, WorkerMoves, StopsTyped, MovesTyped
     DEF At, Typed, UserTyped, FilesTyped, OwedTyped, WorkTyped, WorkerShape, HasDevice,
         HasOther, Onward, Places, Locked, Unkept, MaybeDevice, MaybeAccount, NotKept,
         BumpBeforeKeeping
<1>12. ASSUME NEW s \in Slot, Keep(s) PROVE WorkTyped'
  BY <1>12, WorkerMoves, StopsTyped, MovesTyped
     DEF At, Typed, UserTyped, FilesTyped, OwedTyped, WorkTyped, WorkerShape, HasDevice,
         HasOther, Onward, Places, Locked, Unkept, MaybeDevice, MaybeAccount, NotKept, Keep
<1>13. ASSUME NEW s \in Slot, EndUnkeptDevice(s) PROVE WorkTyped'
  BY <1>13, EndUnkeptDeviceDoes, WorkerMoves, StopsTyped, MovesTyped
     DEF At, Typed, UserTyped, FilesTyped, OwedTyped, WorkTyped, WorkerShape, HasDevice,
         HasOther, Onward, Places, Locked, Unkept, MaybeDevice, MaybeAccount
<1>14. ASSUME NEW s \in Slot, RecordUnkeptDevice(s) PROVE WorkTyped'
  BY <1>14, RecordUnkeptDeviceDoes, WorkerMoves, StopsTyped, MovesTyped
     DEF At, Typed, UserTyped, FilesTyped, OwedTyped, WorkTyped, WorkerShape, HasDevice,
         HasOther, Onward, Places, Locked, Unkept, MaybeDevice, MaybeAccount
<1>15. ASSUME NEW s \in Slot, Adopt(s) PROVE WorkTyped'
  BY <1>15, WorkerMoves, StopsTyped, MovesTyped
     DEF At, Typed, UserTyped, FilesTyped, OwedTyped, WorkTyped, WorkerShape, HasDevice,
         HasOther, Onward, Places, Locked, Unkept, MaybeDevice, MaybeAccount, Adopt
<1>16. ASSUME NEW s \in Slot, SettleOwedSignOuts(s) PROVE WorkTyped'
  BY <1>16, SettleOwedSignOutsDoes, WorkerMoves, StopsTyped, MovesTyped, TurnsTyped
     DEF At, Typed, UserTyped, FilesTyped, OwedTyped, WorkTyped, WorkerShape, HasDevice,
         HasOther, Onward, Places, Locked, Unkept, MaybeDevice, MaybeAccount
<1>17. ASSUME NEW s \in Slot, SettleOne(s) PROVE WorkTyped'
  <2>0. /\ WorkTyped /\ work[s].n \in Nat /\ work[s].dev \in MaybeDevice
        /\ work[s].other \in MaybeDevice /\ work[s].ended \in MaybeDevice
        /\ work[s].account \in MaybeAccount /\ work[s].queue \in SUBSET Device
        /\ None \in MaybeDevice /\ 1 \in Nat
        /\ work[s].at \in HasDevice => work[s].dev # None
        /\ work[s].at \in HasOther => work[s].other # None
    BY DEF Typed, WorkTyped, WorkerShape, MaybeDevice
  <2>1. /\ {"adopt", "come_back", "settling", "settled"} \subseteq Onward
        /\ {"adopt", "come_back", "settling"} \cap (HasDevice \cup HasOther) = {}
    BY DEF Onward, Places, Locked, Unkept, HasDevice, HasOther
  <2>2. "settled" \notin HasDevice /\ None \notin Device /\ Device \subseteq MaybeDevice
        /\ \A d : work[s].queue \ {d} \in SUBSET Device
    BY <2>0, NoneAssumption DEF HasDevice, MaybeDevice
  <2>3. work[s].at = "settling"
    BY <1>17, Zenon DEF SettleOne, At
  <2> DEFINE w == work[s]
  <2>4. ASSUME NEW d \in w.queue,
               Turns(s, "settled", w.dev, w.n, w.account, d, w.ended, w.queue \ {d})
        PROVE  WorkTyped'
    BY <2>0, <2>1, <2>2, <2>4, TurnsTyped
  <2>5. ASSUME NEW d \in w.queue,
               Turns(s, w.at, w.dev, w.n, w.account, w.other, w.ended, w.queue \ {d})
        PROVE  WorkTyped'
    BY <2>0, <2>1, <2>2, <2>3, <2>5, TurnsTyped
  <2>6. Moves(s, "adopt") \/ Moves(s, "come_back") => WorkTyped'
    BY <2>0, <2>1, MovesTyped
  <2> QED BY <1>17, <2>0, <2>4, <2>5, <2>6, SettleOneDoes, Zenon
<1>18. ASSUME NEW s \in Slot, RemoveSettled(s) PROVE WorkTyped'
  <2>0. /\ WorkTyped /\ work[s].n \in Nat /\ work[s].dev \in MaybeDevice
        /\ work[s].other \in MaybeDevice /\ work[s].ended \in MaybeDevice
        /\ work[s].account \in MaybeAccount /\ work[s].queue \in SUBSET Device
        /\ None \in MaybeDevice /\ 1 \in Nat
        /\ work[s].at \in HasDevice => work[s].dev # None
        /\ work[s].at \in HasOther => work[s].other # None
    BY DEF Typed, WorkTyped, WorkerShape, MaybeDevice
  <2>1. /\ {"settling"} \subseteq Onward
        /\ {"settling"} \cap (HasDevice \cup HasOther) = {}
    BY DEF Onward, Places, Locked, Unkept, HasDevice, HasOther
  <2> QED BY <1>18, <2>0, <2>1, RemoveSettledDoes, TurnsTyped
<1>19. ASSUME NEW s \in Slot, ComeBack(s) PROVE WorkTyped'
  <2>0. /\ WorkTyped /\ work[s].n \in Nat /\ work[s].dev \in MaybeDevice
        /\ work[s].other \in MaybeDevice /\ work[s].ended \in MaybeDevice
        /\ work[s].account \in MaybeAccount /\ work[s].queue \in SUBSET Device
        /\ None \in MaybeDevice /\ 1 \in Nat
        /\ work[s].at \in HasDevice => work[s].dev # None
        /\ work[s].at \in HasOther => work[s].other # None
    BY DEF Typed, WorkTyped, WorkerShape, MaybeDevice
  <2>1. /\ {"come_back", "drop", "refresh"} \subseteq Onward
        /\ {"come_back", "drop"} \cap (HasDevice \cup HasOther) = {}
    BY DEF Onward, Places, Locked, Unkept, HasDevice, HasOther
  <2>2. /\ cred.dev \in MaybeDevice /\ cred.n \in Nat /\ cred.account \in MaybeAccount
        /\ "refresh" \notin HasOther
    BY DEF Typed, FilesTyped, HasOther
  <2> QED BY <1>19, <2>0, <2>1, <2>2, ComeBackDoes, StopsTyped, MovesTyped, TurnsTyped
<1>20. ASSUME NEW s \in Slot, Refresh(s) PROVE WorkTyped'
  <2>0. /\ WorkTyped /\ work[s].n \in Nat /\ work[s].dev \in MaybeDevice
        /\ work[s].other \in MaybeDevice /\ work[s].ended \in MaybeDevice
        /\ work[s].account \in MaybeAccount /\ work[s].queue \in SUBSET Device
        /\ None \in MaybeDevice /\ 1 \in Nat
        /\ work[s].at \in HasDevice => work[s].dev # None
        /\ work[s].at \in HasOther => work[s].other # None
    BY DEF Typed, WorkTyped, WorkerShape, MaybeDevice
  <2>1. /\ {"come_back", "drop", "save", "refused"} \subseteq Onward
        /\ {"come_back", "drop"} \cap (HasDevice \cup HasOther) = {}
    BY DEF Onward, Places, Locked, Unkept, HasDevice, HasOther
  <2>2. /\ "save" \in HasDevice \ HasOther /\ "refused" \in HasDevice \ HasOther
        /\ work[s].at = "refresh"  /\ "refresh" \in HasDevice
    BY <1>20, RefreshDoes DEF Typed, At, HasDevice, HasOther
  <2>3. Exchanges(work[s].dev, work[s].n).next[work[s].dev].cred \in Nat
    BY <2>0, <2>2, ExchangeFacts DEF Typed, DeviceRecord, MaybeDevice
  <2> QED BY <1>20, <2>0, <2>1, <2>2, <2>3, RefreshDoes, StopsTyped, MovesTyped, TurnsTyped
<1>21. ASSUME NEW s \in Slot, SaveNext(s) PROVE WorkTyped'
  BY <1>21, ComesToNothingDoes, WorkerMoves, StopsTyped, MovesTyped
     DEF At, Typed, UserTyped, FilesTyped, OwedTyped, WorkTyped, WorkerShape, HasDevice,
         HasOther, Onward, Places, Locked, Unkept, MaybeDevice, MaybeAccount, SaveNext
<1>22. ASSUME NEW s \in Slot, EraseRefused(s) PROVE WorkTyped'
  BY <1>22, ComesToNothingDoes, WorkerMoves, StopsTyped, MovesTyped
     DEF At, Typed, UserTyped, FilesTyped, OwedTyped, WorkTyped, WorkerShape, HasDevice,
         HasOther, Onward, Places, Locked, Unkept, MaybeDevice, MaybeAccount, EraseRefused
<1>23. ASSUME NEW s \in Slot, Relisted(s) PROVE WorkTyped'
  BY <1>23, WorkerMoves, StopsTyped, MovesTyped
     DEF At, Typed, UserTyped, FilesTyped, OwedTyped, WorkTyped, WorkerShape, HasDevice,
         HasOther, Onward, Places, Locked, Unkept, MaybeDevice, MaybeAccount, Relisted
<1>24. ASSUME NEW s \in Slot, Drop(s) PROVE WorkTyped'
  BY <1>24, DropDoes, GoesTyped
     DEF At, Typed, UserTyped, FilesTyped, OwedTyped, WorkTyped, WorkerShape, HasDevice,
         HasOther, Places, Locked, Unkept, MaybeDevice, MaybeAccount
<1>25. ASSUME NEW s \in Slot, SignOut(s) PROVE WorkTyped'
  BY <1>25, AsksDo, WorkerMoves, OvertakesTyped, StopsTyped, MovesTyped
     DEF At, Typed, UserTyped, FilesTyped, OwedTyped, WorkTyped, WorkerShape, HasDevice,
         HasOther, Onward, Places, Locked, Unkept, MaybeDevice, MaybeAccount, BumpGeneration
<1>26. ASSUME NEW s \in Slot, Retire(s) PROVE WorkTyped'
  <2>0. /\ WorkTyped /\ work[s].n \in Nat /\ work[s].dev \in MaybeDevice
        /\ work[s].other \in MaybeDevice /\ work[s].ended \in MaybeDevice
        /\ work[s].account \in MaybeAccount /\ work[s].queue \in SUBSET Device
        /\ None \in MaybeDevice /\ 1 \in Nat
        /\ work[s].at \in HasDevice => work[s].dev # None
        /\ work[s].at \in HasOther => work[s].other # None
    BY DEF Typed, WorkTyped, WorkerShape, MaybeDevice
  <2>1. /\ {"erase", "tell_unrecorded"} \subseteq Onward
        /\ {} \cap (HasDevice \cup HasOther) = {}
    BY DEF Onward, Places, Locked, Unkept, HasDevice, HasOther
  <2>2. cred.dev \in MaybeDevice /\ "erase" \notin HasOther /\ "tell_unrecorded" \notin HasOther
    BY DEF Typed, FilesTyped, HasOther
  <2> QED BY <1>26, <2>0, <2>1, <2>2, RetireDoes, StopsTyped, TurnsTyped
<1>27. ASSUME NEW s \in Slot, EraseRetired(s) PROVE WorkTyped'
  BY <1>27, WorkerMoves, StopsTyped, MovesTyped
     DEF At, Typed, UserTyped, FilesTyped, OwedTyped, WorkTyped, WorkerShape, HasDevice,
         HasOther, Onward, Places, Locked, Unkept, MaybeDevice, MaybeAccount, EraseRetired
<1>28. ASSUME NEW s \in Slot, TellSignOut(s) PROVE WorkTyped'
  BY <1>28, TellSignOutDoes, WorkerMoves, StopsTyped, MovesTyped
     DEF At, Typed, UserTyped, FilesTyped, OwedTyped, WorkTyped, WorkerShape, HasDevice,
         HasOther, Onward, Places, Locked, Unkept, MaybeDevice, MaybeAccount
<1>29. ASSUME NEW s \in Slot, ClearRecord(s) PROVE WorkTyped'
  BY <1>29, WorkerMoves, StopsTyped, MovesTyped
     DEF At, Typed, UserTyped, FilesTyped, OwedTyped, WorkTyped, WorkerShape, HasDevice,
         HasOther, Onward, Places, Locked, Unkept, MaybeDevice, MaybeAccount, ClearRecord
<1>30. ASSUME NEW s \in Slot, EraseEnded(s) PROVE WorkTyped'
  BY <1>30, WorkerMoves, StopsTyped, MovesTyped
     DEF At, Typed, UserTyped, FilesTyped, OwedTyped, WorkTyped, WorkerShape, HasDevice,
         HasOther, Onward, Places, Locked, Unkept, MaybeDevice, MaybeAccount, EraseEnded
<1>31. ASSUME NEW w \in Window, Crash(w) PROVE WorkTyped'
  BY <1>31, CrashDoes, IdleTyped DEF Typed, WorkTyped
<1>32. ASSUME NEW w \in Window, CloseWindow(w) PROVE WorkTyped'
  BY <1>32 DEF CloseWindow, Typed, WorkTyped, WorkerShape
<1>33. CASE Tick
  BY <1>33 DEF Tick, Typed, WorkTyped, WorkerShape
<1>34. ASSUME NEW d \in Device, EndElsewhere(d) PROVE WorkTyped'
  BY <1>34 DEF EndElsewhere, Typed, WorkTyped, WorkerShape
<1>35. ASSUME NEW d \in Device, NEW n \in 1 .. MaxCred, LateRefresh(d, n) PROVE WorkTyped'
  BY <1>35 DEF LateRefresh, Typed, WorkTyped, WorkerShape
<1>36. ASSUME NEW a \in Account, DisableAccount(a) PROVE WorkTyped'
  BY <1>36 DEF DisableAccount, Typed, WorkTyped, WorkerShape
<1>37. ASSUME NEW a \in Account, EnableAccount(a) PROVE WorkTyped'
  BY <1>37 DEF EnableAccount, Typed, WorkTyped, WorkerShape
<1>38. CASE UNCHANGED vars
  BY <1>38 DEF vars, directory, files, history, user, Typed, WorkTyped, WorkerShape
<1> QED
  BY <1>1, <1>2, <1>3, <1>4, <1>5, <1>6, <1>7, <1>8, <1>9, <1>10, <1>11, <1>12, <1>13, <1>14,
     <1>15, <1>16, <1>17, <1>18, <1>19, <1>20, <1>21, <1>22, <1>23, <1>24, <1>25, <1>26, <1>27,
     <1>28, <1>29, <1>30, <1>31, <1>32, <1>33, <1>34, <1>35, <1>36, <1>37, <1>38
     DEF Next, User, Worker, World

(* The lock is taken where it is free and let go of by who has it. *)
LEMMA LockStep ==
  ASSUME Typed, [Next]_vars
  PROVE  LockHeld'
<1>1. ASSUME NEW s \in Slot, NEW w \in Window, NEW a \in Account, BeginLogin(s, w, a)
      PROVE  LockHeld'
  <2>1. Begins(s, "begin", w, a)
    BY <1>1, BeginsDo DEF Typed
  <2> QED BY <2>1, LoginFlowAssumption
          DEF Begins, At, Launches, Stays, Typed, LockHeld, Locked
<1>2. ASSUME NEW s \in Slot, NEW w \in Window, BeginAutoLogin(s, w) PROVE LockHeld'
  <2>1. Begins(s, "settle", w, None)
    BY <1>2, BeginsDo DEF Typed
  <2> QED BY <2>1, LoginFlowAssumption
          DEF Begins, At, Launches, Stays, Typed, LockHeld, Locked
<1>3. ASSUME NEW s \in Slot, NEW w \in Window, BeginRefreshHosts(s, w) PROVE LockHeld'
  <2>1. Begins(s, "come_back", w, win[w].account)
    BY <1>3, BeginsDo DEF Typed
  <2> QED BY <2>1, LoginFlowAssumption
          DEF Begins, At, Launches, Stays, Typed, LockHeld, Locked
<1>4. ASSUME NEW s \in Slot, NEW w \in Window, BeginSignOut(s, w) PROVE LockHeld'
  <2>1. Begins(s, "sign_out", w, None)
    BY <1>4, BeginsDo DEF Typed
  <2> QED BY <2>1, LoginFlowAssumption
          DEF Begins, At, Launches, Stays, Typed, LockHeld, Locked
<1>5. ASSUME NEW s \in Slot, BeginSignIn(s) PROVE LockHeld'
  BY <1>5, LoginFlowAssumption, WorkerMoves, AsksDo DEF At, Free, BumpGeneration, Overtakes,
     Typed, LockHeld, Locked, WorkTyped, WorkerShape, Moves, Turns, OthersStay, Stops, Idle
<1>6. ASSUME NEW s \in Slot, DirectoryLogin(s) PROVE LockHeld'
  BY <1>6, LoginFlowAssumption, WorkerMoves, DirectoryLoginDoes DEF At, Typed, LockHeld, Locked,
     WorkTyped, WorkerShape, Moves, Turns, OthersStay, Stops, Idle
<1>7. ASSUME NEW s \in Slot, Listed(s) PROVE LockHeld'
  BY <1>7, LoginFlowAssumption, WorkerMoves DEF Listed, At, NotKept, Typed, LockHeld, Locked,
     WorkTyped, WorkerShape, Moves, Turns, OthersStay, Stops, Idle
<1>8. ASSUME NEW s \in Slot, Remember(s) PROVE LockHeld'
  BY <1>8, LoginFlowAssumption, WorkerMoves DEF Remember, At, NotKept, Free, Takes, Typed,
     LockHeld, Locked, WorkTyped, WorkerShape, Moves, Turns, OthersStay, Stops, Idle
<1>9. ASSUME NEW s \in Slot, Replace(s) PROVE LockHeld'
  BY <1>9, LoginFlowAssumption, WorkerMoves, ReplaceDoes DEF At, Holds, LetsGo, NotKept, Typed,
     LockHeld, Locked, WorkTyped, WorkerShape, Moves, Turns, OthersStay, Stops, Idle
<1>10. ASSUME NEW s \in Slot, TellPrevious(s) PROVE LockHeld'
  BY <1>10, LoginFlowAssumption, WorkerMoves, TellPreviousDoes DEF At, NotKept, Typed, LockHeld,
     Locked, WorkTyped, WorkerShape, Moves, Turns, OthersStay, Stops, Idle
<1>11. ASSUME NEW s \in Slot, BumpBeforeKeeping(s) PROVE LockHeld'
  BY <1>11, LoginFlowAssumption, WorkerMoves DEF BumpBeforeKeeping, At, Holds, LetsGo, NotKept,
     BumpGeneration, Typed, LockHeld, Locked, WorkTyped, WorkerShape, Moves, Turns, OthersStay,
     Stops, Idle
<1>12. ASSUME NEW s \in Slot, Keep(s) PROVE LockHeld'
  BY <1>12, LoginFlowAssumption, WorkerMoves DEF Keep, At, Holds, LetsGo, NotKept, Save, Typed,
     LockHeld, Locked, WorkTyped, WorkerShape, Moves, Turns, OthersStay, Stops, Idle
<1>13. ASSUME NEW s \in Slot, EndUnkeptDevice(s) PROVE LockHeld'
  BY <1>13, LoginFlowAssumption, WorkerMoves, EndUnkeptDeviceDoes DEF At, Typed, LockHeld, Locked,
     WorkTyped, WorkerShape, Moves, Turns, OthersStay, Stops, Idle
<1>14. ASSUME NEW s \in Slot, RecordUnkeptDevice(s) PROVE LockHeld'
  BY <1>14, LoginFlowAssumption, WorkerMoves, RecordUnkeptDeviceDoes DEF At, Typed, LockHeld,
     Locked, WorkTyped, WorkerShape, Moves, Turns, OthersStay, Stops, Idle
<1>15. ASSUME NEW s \in Slot, Adopt(s) PROVE LockHeld'
  BY <1>15, LoginFlowAssumption, WorkerMoves DEF Adopt, At, Typed, LockHeld, Locked, WorkTyped,
     WorkerShape, Moves, Turns, OthersStay, Stops, Idle
<1>16. ASSUME NEW s \in Slot, SettleOwedSignOuts(s) PROVE LockHeld'
  BY <1>16, LoginFlowAssumption, WorkerMoves, SettleOwedSignOutsDoes DEF At, Typed, LockHeld,
     Locked, WorkTyped, WorkerShape, Moves, Turns, OthersStay, Stops, Idle
<1>17. ASSUME NEW s \in Slot, SettleOne(s) PROVE LockHeld'
  BY <1>17, LoginFlowAssumption, WorkerMoves, SettleOneDoes DEF At, Typed, LockHeld, Locked,
     WorkTyped, WorkerShape, Moves, Turns, OthersStay, Stops, Idle
<1>18. ASSUME NEW s \in Slot, RemoveSettled(s) PROVE LockHeld'
  BY <1>18, LoginFlowAssumption, WorkerMoves, RemoveSettledDoes DEF At, Typed, LockHeld, Locked,
     WorkTyped, WorkerShape, Moves, Turns, OthersStay, Stops, Idle
<1>19. ASSUME NEW s \in Slot, ComeBack(s) PROVE LockHeld'
  BY <1>19, LoginFlowAssumption, WorkerMoves, ComeBackDoes DEF At, Free, Takes, BumpGeneration,
     Typed, LockHeld, Locked, WorkTyped, WorkerShape, Moves, Turns, OthersStay, Stops, Idle
<1>20. ASSUME NEW s \in Slot, Refresh(s) PROVE LockHeld'
  BY <1>20, LoginFlowAssumption, WorkerMoves, RefreshDoes DEF At, Holds, LetsGo, Typed, LockHeld,
     Locked, WorkTyped, WorkerShape, Moves, Turns, OthersStay, Stops, Idle
<1>21. ASSUME NEW s \in Slot, SaveNext(s) PROVE LockHeld'
  BY <1>21, LoginFlowAssumption, WorkerMoves, ComesToNothingDoes DEF SaveNext, At, Holds, LetsGo,
     Save, Typed, LockHeld, Locked, WorkTyped, WorkerShape, Moves, Turns, OthersStay, Stops, Idle
<1>22. ASSUME NEW s \in Slot, EraseRefused(s) PROVE LockHeld'
  BY <1>22, LoginFlowAssumption, WorkerMoves, ComesToNothingDoes DEF EraseRefused, At, Holds,
     LetsGo, BumpGeneration, Erase, Save, Typed, LockHeld, Locked, WorkTyped, WorkerShape, Moves,
     Turns, OthersStay, Stops, Idle
<1>23. ASSUME NEW s \in Slot, Relisted(s) PROVE LockHeld'
  BY <1>23, LoginFlowAssumption, WorkerMoves DEF Relisted, At, Typed, LockHeld, Locked, WorkTyped,
     WorkerShape, Moves, Turns, OthersStay, Stops, Idle
<1>24. ASSUME NEW s \in Slot, Drop(s) PROVE LockHeld'
  BY <1>24, LoginFlowAssumption, WorkerMoves, DropDoes DEF At, Goes, Stays, Typed, LockHeld,
     Locked, WorkTyped, WorkerShape, Moves, Turns, OthersStay, Stops, Idle
<1>25. ASSUME NEW s \in Slot, SignOut(s) PROVE LockHeld'
  BY <1>25, LoginFlowAssumption, WorkerMoves, AsksDo DEF At, Free, BumpGeneration, Overtakes,
     Typed, LockHeld, Locked, WorkTyped, WorkerShape, Moves, Turns, OthersStay, Stops, Idle
<1>26. ASSUME NEW s \in Slot, Retire(s) PROVE LockHeld'
  BY <1>26, LoginFlowAssumption, WorkerMoves, RetireDoes DEF At, Holds, LetsGo, Typed, LockHeld,
     Locked, WorkTyped, WorkerShape, Moves, Turns, OthersStay, Stops, Idle
<1>27. ASSUME NEW s \in Slot, EraseRetired(s) PROVE LockHeld'
  BY <1>27, LoginFlowAssumption, WorkerMoves DEF EraseRetired, At, Holds, LetsGo, Erase, Save,
     Typed, LockHeld, Locked, WorkTyped, WorkerShape, Moves, Turns, OthersStay, Stops, Idle
<1>28. ASSUME NEW s \in Slot, TellSignOut(s) PROVE LockHeld'
  BY <1>28, LoginFlowAssumption, WorkerMoves, TellSignOutDoes DEF At, Typed, LockHeld, Locked,
     WorkTyped, WorkerShape, Moves, Turns, OthersStay, Stops, Idle
<1>29. ASSUME NEW s \in Slot, ClearRecord(s) PROVE LockHeld'
  BY <1>29, LoginFlowAssumption, WorkerMoves DEF ClearRecord, At, Free, Busy, Typed, LockHeld,
     Locked, WorkTyped, WorkerShape, Moves, Turns, OthersStay, Stops, Idle
<1>30. ASSUME NEW s \in Slot, EraseEnded(s) PROVE LockHeld'
  BY <1>30, LoginFlowAssumption, WorkerMoves DEF EraseEnded, At, Free, Busy, Erase, Save, Typed,
     LockHeld, Locked, WorkTyped, WorkerShape, Moves, Turns, OthersStay, Stops, Idle
<1>31. ASSUME NEW w \in Window, Crash(w) PROVE LockHeld'
  BY <1>31, LoginFlowAssumption, WorkerMoves, CrashDoes DEF Typed, LockHeld, Locked, WorkTyped,
     WorkerShape, Moves, Turns, OthersStay, Stops, Idle
<1>32. ASSUME NEW w \in Window, CloseWindow(w) PROVE LockHeld'
  BY <1>32, LoginFlowAssumption, WorkerMoves DEF CloseWindow, Typed, LockHeld, Locked, WorkTyped,
     WorkerShape, Moves, Turns, OthersStay, Stops, Idle
<1>33. CASE Tick
  BY <1>33, LoginFlowAssumption, WorkerMoves DEF Tick, Typed, LockHeld, Locked, WorkTyped,
     WorkerShape, Moves, Turns, OthersStay, Stops, Idle
<1>34. ASSUME NEW d \in Device, EndElsewhere(d) PROVE LockHeld'
  BY <1>34, LoginFlowAssumption, WorkerMoves DEF EndElsewhere, Typed, LockHeld, Locked, WorkTyped,
     WorkerShape, Moves, Turns, OthersStay, Stops, Idle
<1>35. ASSUME NEW d \in Device, NEW n \in 1 .. MaxCred, LateRefresh(d, n) PROVE LockHeld'
  BY <1>35, LoginFlowAssumption, WorkerMoves DEF LateRefresh, Typed, LockHeld, Locked, WorkTyped,
     WorkerShape, Moves, Turns, OthersStay, Stops, Idle
<1>36. ASSUME NEW a \in Account, DisableAccount(a) PROVE LockHeld'
  BY <1>36, LoginFlowAssumption, WorkerMoves DEF DisableAccount, Typed, LockHeld, Locked,
     WorkTyped, WorkerShape, Moves, Turns, OthersStay, Stops, Idle
<1>37. ASSUME NEW a \in Account, EnableAccount(a) PROVE LockHeld'
  BY <1>37, LoginFlowAssumption, WorkerMoves DEF EnableAccount, Typed, LockHeld, Locked,
     WorkTyped, WorkerShape, Moves, Turns, OthersStay, Stops, Idle
<1>38. CASE UNCHANGED vars
  BY <1>38 DEF vars, directory, files, history, user, Typed, LockHeld, Locked, WorkTyped,
     WorkerShape
<1> QED
  BY <1>1, <1>2, <1>3, <1>4, <1>5, <1>6, <1>7, <1>8, <1>9, <1>10, <1>11, <1>12, <1>13, <1>14,
     <1>15, <1>16, <1>17, <1>18, <1>19, <1>20, <1>21, <1>22, <1>23, <1>24, <1>25, <1>26, <1>27,
     <1>28, <1>29, <1>30, <1>31, <1>32, <1>33, <1>34, <1>35, <1>36, <1>37, <1>38
     DEF Next, User, Worker, World

(* A worker that was overtaken stays behind the counter. *)
LEMMA LateStep ==
  ASSUME Typed, LateInv, "counter" \notin Faults, [Next]_vars
  PROVE  LateInv'
<1>1. ASSUME NEW s \in Slot, NEW w \in Window, NEW a \in Account, BeginLogin(s, w, a)
      PROVE  LateInv'
  <2>1. Begins(s, "begin", w, a)
    BY <1>1, BeginsDo DEF Typed
  <2> QED BY <2>1 DEF Begins, Launches, Stays, Typed, FilesTyped, LateInv, files
<1>2. ASSUME NEW s \in Slot, NEW w \in Window, BeginAutoLogin(s, w) PROVE LateInv'
  <2>1. Begins(s, "settle", w, None)
    BY <1>2, BeginsDo DEF Typed
  <2> QED BY <2>1 DEF Begins, Launches, Stays, Typed, FilesTyped, LateInv, files
<1>3. ASSUME NEW s \in Slot, NEW w \in Window, BeginRefreshHosts(s, w) PROVE LateInv'
  <2>1. Begins(s, "come_back", w, win[w].account)
    BY <1>3, BeginsDo DEF Typed
  <2> QED BY <2>1 DEF Begins, Launches, Stays, Typed, FilesTyped, LateInv, files
<1>4. ASSUME NEW s \in Slot, NEW w \in Window, BeginSignOut(s, w) PROVE LateInv'
  <2>1. Begins(s, "sign_out", w, None)
    BY <1>4, BeginsDo DEF Typed
  <2> QED BY <2>1 DEF Begins, Launches, Stays, Typed, FilesTyped, LateInv, files
<1>5. ASSUME NEW s \in Slot, BeginSignIn(s) PROVE LateInv'
  <2>1. /\ At(s, "begin")
        /\ \/ Stops(s) /\ gen' = gen
           \/ Stops(s) /\ gen' = gen /\ Free
           \/ Free /\ gen' = gen + 1 /\ Overtakes(s, "login", gen + 1)
    BY <1>5, AsksDo DEF Typed, FilesTyped, BumpGeneration, Fault
  <2>2. work[s].gen = 0 /\ \A r \in Slot : work[r].overtaken \in BOOLEAN /\ work[r].gen \in Nat
    BY <2>1 DEF Typed, WorkTyped, WorkerShape, At
  <2>3. CASE Stops(s) /\ gen' = gen
    BY <2>3 DEF Stops, OthersStay, Idle, Typed, FilesTyped, LateInv
  <2>4. CASE Free /\ gen' = gen + 1 /\ Overtakes(s, "login", gen + 1)
    <3>1. \A r \in Slot : work[r].at \notin Locked
      BY <2>4, LoginFlowAssumption DEF Free, Typed, LockHeld
    <3> QED BY <2>2, <2>4, <3>1 DEF Overtakes, Typed, FilesTyped, LateInv, Locked
  <2> QED BY <2>1, <2>3, <2>4
<1>6. ASSUME NEW s \in Slot, DirectoryLogin(s) PROVE LateInv'
  BY <1>6, WorkerMoves, DirectoryLoginDoes DEF At, files, Fault, Typed, LockHeld, FilesTyped,
     WorkTyped, WorkerShape, LateInv, Locked, Moves, Turns, OthersStay, Stops, Idle
<1>7. ASSUME NEW s \in Slot, Listed(s) PROVE LateInv'
  BY <1>7, WorkerMoves DEF Listed, At, NotKept, files, Typed, LockHeld, FilesTyped, WorkTyped,
     WorkerShape, LateInv, Locked, Moves, Turns, OthersStay, Stops, Idle
<1>8. ASSUME NEW s \in Slot, Remember(s) PROVE LateInv'
  BY <1>8, WorkerMoves DEF Remember, At, NotKept, Free, Takes, Fault, Typed, LockHeld, FilesTyped,
     WorkTyped, WorkerShape, LateInv, Locked, Moves, Turns, OthersStay, Stops, Idle
<1>9. ASSUME NEW s \in Slot, Replace(s) PROVE LateInv'
  BY <1>9, WorkerMoves, ReplaceDoes DEF At, Holds, LetsGo, NotKept, Fault, Typed, LockHeld,
     FilesTyped, WorkTyped, WorkerShape, LateInv, Locked, Moves, Turns, OthersStay, Stops, Idle
<1>10. ASSUME NEW s \in Slot, TellPrevious(s) PROVE LateInv'
  BY <1>10, WorkerMoves, TellPreviousDoes DEF At, NotKept, files, Typed, LockHeld, FilesTyped,
     WorkTyped, WorkerShape, LateInv, Locked, Moves, Turns, OthersStay, Stops, Idle
<1>11. ASSUME NEW s \in Slot, BumpBeforeKeeping(s) PROVE LateInv'
  BY <1>11, WorkerMoves DEF BumpBeforeKeeping, At, Holds, LetsGo, NotKept, BumpGeneration, Fault,
     Typed, LockHeld, FilesTyped, WorkTyped, WorkerShape, LateInv, Locked, Moves, Turns,
     OthersStay, Stops, Idle
<1>12. ASSUME NEW s \in Slot, Keep(s) PROVE LateInv'
  BY <1>12, WorkerMoves DEF Keep, At, Holds, LetsGo, NotKept, Save, Fault, Typed, LockHeld,
     FilesTyped, WorkTyped, WorkerShape, LateInv, Locked, Moves, Turns, OthersStay, Stops, Idle
<1>13. ASSUME NEW s \in Slot, EndUnkeptDevice(s) PROVE LateInv'
  BY <1>13, WorkerMoves, EndUnkeptDeviceDoes DEF At, files, Typed, LockHeld, FilesTyped,
     WorkTyped, WorkerShape, LateInv, Locked, Moves, Turns, OthersStay, Stops, Idle
<1>14. ASSUME NEW s \in Slot, RecordUnkeptDevice(s) PROVE LateInv'
  BY <1>14, WorkerMoves, RecordUnkeptDeviceDoes DEF At, Typed, LockHeld, FilesTyped, WorkTyped,
     WorkerShape, LateInv, Locked, Moves, Turns, OthersStay, Stops, Idle
<1>15. ASSUME NEW s \in Slot, Adopt(s) PROVE LateInv'
  BY <1>15, WorkerMoves DEF Adopt, At, files, Typed, LockHeld, FilesTyped, WorkTyped, WorkerShape,
     LateInv, Locked, Moves, Turns, OthersStay, Stops, Idle
<1>16. ASSUME NEW s \in Slot, SettleOwedSignOuts(s) PROVE LateInv'
  BY <1>16, WorkerMoves, SettleOwedSignOutsDoes DEF At, files, Typed, LockHeld, FilesTyped,
     WorkTyped, WorkerShape, LateInv, Locked, Moves, Turns, OthersStay, Stops, Idle
<1>17. ASSUME NEW s \in Slot, SettleOne(s) PROVE LateInv'
  BY <1>17, WorkerMoves, SettleOneDoes DEF At, files, Typed, LockHeld, FilesTyped, WorkTyped,
     WorkerShape, LateInv, Locked, Moves, Turns, OthersStay, Stops, Idle
<1>18. ASSUME NEW s \in Slot, RemoveSettled(s) PROVE LateInv'
  BY <1>18, WorkerMoves, RemoveSettledDoes DEF At, Typed, LockHeld, FilesTyped, WorkTyped,
     WorkerShape, LateInv, Locked, Moves, Turns, OthersStay, Stops, Idle
<1>19. ASSUME NEW s \in Slot, ComeBack(s) PROVE LateInv'
  <2>1. \/ Moves(s, "come_back") \/ Moves(s, "drop") \/ Stops(s)
           \/ \E d, n, a : Turns(s, "refresh", d, n, a, work[s].other, work[s].ended, work[s].queue)
    BY <1>19, ComeBackDoes DEF Typed
  <2>2. \/ gen' = gen
        \/ gen' = gen + 1 /\ \A r \in Slot : work[r].at \notin Locked
    <3>1. \A r \in Slot : Free => work[r].at \notin Locked
      BY LoginFlowAssumption DEF Free, Typed, LockHeld
    <3> QED BY <1>19, <3>1, ComeBackDoes DEF Typed, FilesTyped, BumpGeneration, Fault
  <2> QED BY <2>1, <2>2
          DEF Moves, Turns, Stops, OthersStay, Idle, Typed, FilesTyped, WorkTyped, WorkerShape,
              LateInv, Locked
<1>20. ASSUME NEW s \in Slot, Refresh(s) PROVE LateInv'
  BY <1>20, WorkerMoves, RefreshDoes DEF At, Holds, LetsGo, files, Fault, Typed, LockHeld,
     FilesTyped, WorkTyped, WorkerShape, LateInv, Locked, Moves, Turns, OthersStay, Stops, Idle
<1>21. ASSUME NEW s \in Slot, SaveNext(s) PROVE LateInv'
  BY <1>21, WorkerMoves, ComesToNothingDoes DEF SaveNext, At, Holds, LetsGo, Save, Fault, Typed,
     LockHeld, FilesTyped, WorkTyped, WorkerShape, LateInv, Locked, Moves, Turns, OthersStay,
     Stops, Idle
<1>22. ASSUME NEW s \in Slot, EraseRefused(s) PROVE LateInv'
  BY <1>22, WorkerMoves, ComesToNothingDoes DEF EraseRefused, At, Holds, LetsGo, BumpGeneration,
     Erase, Save, Fault, Typed, LockHeld, FilesTyped, WorkTyped, WorkerShape, LateInv, Locked,
     Moves, Turns, OthersStay, Stops, Idle
<1>23. ASSUME NEW s \in Slot, Relisted(s) PROVE LateInv'
  BY <1>23, WorkerMoves DEF Relisted, At, files, Typed, LockHeld, FilesTyped, WorkTyped,
     WorkerShape, LateInv, Locked, Moves, Turns, OthersStay, Stops, Idle
<1>24. ASSUME NEW s \in Slot, Drop(s) PROVE LateInv'
  BY <1>24, WorkerMoves, DropDoes DEF At, Goes, Stays, files, Typed, LockHeld, FilesTyped,
     WorkTyped, WorkerShape, LateInv, Locked, Moves, Turns, OthersStay, Stops, Idle
<1>25. ASSUME NEW s \in Slot, SignOut(s) PROVE LateInv'
  <2>1. \/ Stops(s) /\ gen' = gen
        \/ Free /\ gen' = gen + 1 /\ Overtakes(s, "retire", work[s].gen)
    BY <1>25, AsksDo DEF Typed, FilesTyped, BumpGeneration, Fault
  <2>2. \A r \in Slot : work[r].overtaken \in BOOLEAN /\ work[r].gen \in Nat
    BY DEF Typed, WorkTyped, WorkerShape
  <2>3. CASE Stops(s) /\ gen' = gen
    BY <2>3 DEF Stops, OthersStay, Idle, Typed, FilesTyped, LateInv
  <2>4. CASE Free /\ gen' = gen + 1 /\ Overtakes(s, "retire", work[s].gen)
    <3>1. \A r \in Slot : work[r].at \notin Locked
      BY <2>4, LoginFlowAssumption DEF Free, Typed, LockHeld
    <3> QED BY <2>2, <2>4, <3>1 DEF Overtakes, Typed, FilesTyped, LateInv, Locked
  <2> QED BY <2>1, <2>3, <2>4
<1>26. ASSUME NEW s \in Slot, Retire(s) PROVE LateInv'
  BY <1>26, WorkerMoves, RetireDoes DEF At, Holds, LetsGo, Typed, LockHeld, FilesTyped, WorkTyped,
     WorkerShape, LateInv, Locked, Moves, Turns, OthersStay, Stops, Idle
<1>27. ASSUME NEW s \in Slot, EraseRetired(s) PROVE LateInv'
  BY <1>27, WorkerMoves DEF EraseRetired, At, Holds, LetsGo, Erase, Save, Fault, Typed, LockHeld,
     FilesTyped, WorkTyped, WorkerShape, LateInv, Locked, Moves, Turns, OthersStay, Stops, Idle
<1>28. ASSUME NEW s \in Slot, TellSignOut(s) PROVE LateInv'
  BY <1>28, WorkerMoves, TellSignOutDoes DEF At, files, Typed, LockHeld, FilesTyped, WorkTyped,
     WorkerShape, LateInv, Locked, Moves, Turns, OthersStay, Stops, Idle
<1>29. ASSUME NEW s \in Slot, ClearRecord(s) PROVE LateInv'
  BY <1>29, WorkerMoves DEF ClearRecord, At, Free, Busy, Typed, LockHeld, FilesTyped, WorkTyped,
     WorkerShape, LateInv, Locked, Moves, Turns, OthersStay, Stops, Idle
<1>30. ASSUME NEW s \in Slot, EraseEnded(s) PROVE LateInv'
  BY <1>30, WorkerMoves DEF EraseEnded, At, Free, Busy, Erase, Save, Fault, Typed, LockHeld,
     FilesTyped, WorkTyped, WorkerShape, LateInv, Locked, Moves, Turns, OthersStay, Stops, Idle
<1>31. ASSUME NEW w \in Window, Crash(w) PROVE LateInv'
  BY <1>31, WorkerMoves, CrashDoes DEF files, Typed, LockHeld, FilesTyped, WorkTyped, WorkerShape,
     LateInv, Locked, Moves, Turns, OthersStay, Stops, Idle
<1>32. ASSUME NEW w \in Window, CloseWindow(w) PROVE LateInv'
  BY <1>32, WorkerMoves DEF CloseWindow, files, Typed, LockHeld, FilesTyped, WorkTyped,
     WorkerShape, LateInv, Locked, Moves, Turns, OthersStay, Stops, Idle
<1>33. CASE Tick
  BY <1>33, WorkerMoves DEF Tick, files, Typed, LockHeld, FilesTyped, WorkTyped, WorkerShape,
     LateInv, Locked, Moves, Turns, OthersStay, Stops, Idle
<1>34. ASSUME NEW d \in Device, EndElsewhere(d) PROVE LateInv'
  BY <1>34, WorkerMoves DEF EndElsewhere, files, Fault, Typed, LockHeld, FilesTyped, WorkTyped,
     WorkerShape, LateInv, Locked, Moves, Turns, OthersStay, Stops, Idle
<1>35. ASSUME NEW d \in Device, NEW n \in 1 .. MaxCred, LateRefresh(d, n) PROVE LateInv'
  BY <1>35, WorkerMoves DEF LateRefresh, files, Typed, LockHeld, FilesTyped, WorkTyped,
     WorkerShape, LateInv, Locked, Moves, Turns, OthersStay, Stops, Idle
<1>36. ASSUME NEW a \in Account, DisableAccount(a) PROVE LateInv'
  BY <1>36, WorkerMoves DEF DisableAccount, files, Fault, Typed, LockHeld, FilesTyped, WorkTyped,
     WorkerShape, LateInv, Locked, Moves, Turns, OthersStay, Stops, Idle
<1>37. ASSUME NEW a \in Account, EnableAccount(a) PROVE LateInv'
  BY <1>37, WorkerMoves DEF EnableAccount, files, Typed, LockHeld, FilesTyped, WorkTyped,
     WorkerShape, LateInv, Locked, Moves, Turns, OthersStay, Stops, Idle
<1>38. CASE UNCHANGED vars
  BY <1>38 DEF vars, directory, files, history, user, Typed, LockHeld, FilesTyped, WorkTyped,
     WorkerShape, LateInv, Locked
<1> QED
  BY <1>1, <1>2, <1>3, <1>4, <1>5, <1>6, <1>7, <1>8, <1>9, <1>10, <1>11, <1>12, <1>13, <1>14,
     <1>15, <1>16, <1>17, <1>18, <1>19, <1>20, <1>21, <1>22, <1>23, <1>24, <1>25, <1>26, <1>27,
     <1>28, <1>29, <1>30, <1>31, <1>32, <1>33, <1>34, <1>35, <1>36, <1>37, <1>38
     DEF Next, User, Worker, World

(* What is stored stays the last sign-in kept. *)
LEMMA LastStep ==
  ASSUME Typed, LastInv, ~({"older", "read"} \subseteq Faults), [Next]_vars
  PROVE  LastInv'
<1>1. ASSUME NEW s \in Slot, NEW w \in Window, NEW a \in Account, BeginLogin(s, w, a)
      PROVE  LastInv'
  <2>1. Begins(s, "begin", w, a)
    BY <1>1, BeginsDo DEF Typed
  <2> QED BY <2>1 DEF Begins, Launches, Stays, Typed, LastInv, files, history, Unkept
<1>2. ASSUME NEW s \in Slot, NEW w \in Window, BeginAutoLogin(s, w) PROVE LastInv'
  <2>1. Begins(s, "settle", w, None)
    BY <1>2, BeginsDo DEF Typed
  <2> QED BY <2>1 DEF Begins, Launches, Stays, Typed, LastInv, files, history, Unkept
<1>3. ASSUME NEW s \in Slot, NEW w \in Window, BeginRefreshHosts(s, w) PROVE LastInv'
  <2>1. Begins(s, "come_back", w, win[w].account)
    BY <1>3, BeginsDo DEF Typed
  <2> QED BY <2>1 DEF Begins, Launches, Stays, Typed, LastInv, files, history, Unkept
<1>4. ASSUME NEW s \in Slot, NEW w \in Window, BeginSignOut(s, w) PROVE LastInv'
  <2>1. Begins(s, "sign_out", w, None)
    BY <1>4, BeginsDo DEF Typed
  <2> QED BY <2>1 DEF Begins, Launches, Stays, Typed, LastInv, files, history, Unkept
<1>5. ASSUME NEW s \in Slot, BeginSignIn(s) PROVE LastInv'
  BY <1>5, WorkerMoves, AsksDo DEF At, Free, BumpGeneration, Overtakes, history, Fault, Typed,
     LockHeld, FilesTyped, WorkTyped, WorkerShape, LastInv, Locked, Unkept, Moves, Turns,
     OthersStay, Stops, Idle
<1>6. ASSUME NEW s \in Slot, DirectoryLogin(s) PROVE LastInv'
  <2>1. /\ UNCHANGED <<cred, last>>
        /\ \/ \E d \in Device : Turns(s, "listed", d, 1, work[s].account, work[s].other,
                                  work[s].ended, work[s].queue)
           \/ Stops(s)
           \/ Moves(s, "listed") /\ Fault("older")
    BY <1>6, DirectoryLoginDoes DEF Typed, files
  <2> QED BY <2>1, NoneAssumption
          DEF Fault, Typed, LastInv, Unkept, Moves, Turns, OthersStay, Stops, Idle
<1>7. ASSUME NEW s \in Slot, Listed(s) PROVE LastInv'
  BY <1>7, WorkerMoves DEF Listed, At, NotKept, files, history, Typed, LockHeld, FilesTyped,
     WorkTyped, WorkerShape, LastInv, Locked, Unkept, Moves, Turns, OthersStay, Stops, Idle
<1>8. ASSUME NEW s \in Slot, Remember(s) PROVE LastInv'
  BY <1>8, WorkerMoves DEF Remember, At, NotKept, Free, Takes, history, Fault, Typed, LockHeld,
     FilesTyped, WorkTyped, WorkerShape, LastInv, Locked, Unkept, Moves, Turns, OthersStay, Stops,
     Idle
<1>9. ASSUME NEW s \in Slot, Replace(s) PROVE LastInv'
  BY <1>9, WorkerMoves, ReplaceDoes DEF At, Holds, LetsGo, NotKept, history, Fault, Typed,
     LockHeld, FilesTyped, WorkTyped, WorkerShape, LastInv, Locked, Unkept, Moves, Turns,
     OthersStay, Stops, Idle
<1>10. ASSUME NEW s \in Slot, TellPrevious(s) PROVE LastInv'
  BY <1>10, WorkerMoves, TellPreviousDoes DEF At, NotKept, files, history, Typed, LockHeld,
     FilesTyped, WorkTyped, WorkerShape, LastInv, Locked, Unkept, Moves, Turns, OthersStay, Stops,
     Idle
<1>11. ASSUME NEW s \in Slot, BumpBeforeKeeping(s) PROVE LastInv'
  BY <1>11, WorkerMoves DEF BumpBeforeKeeping, At, Holds, LetsGo, NotKept, BumpGeneration,
     history, Fault, Typed, LockHeld, FilesTyped, WorkTyped, WorkerShape, LastInv, Locked, Unkept,
     Moves, Turns, OthersStay, Stops, Idle
<1>12. ASSUME NEW s \in Slot, Keep(s) PROVE LastInv'
  BY <1>12, WorkerMoves DEF Keep, At, Holds, LetsGo, NotKept, Save, Fault, NoCred, Typed,
     LockHeld, FilesTyped, WorkTyped, WorkerShape, LastInv, Locked, Unkept, Moves, Turns,
     OthersStay, Stops, Idle
<1>13. ASSUME NEW s \in Slot, EndUnkeptDevice(s) PROVE LastInv'
  BY <1>13, WorkerMoves, EndUnkeptDeviceDoes DEF At, files, history, Typed, LockHeld, FilesTyped,
     WorkTyped, WorkerShape, LastInv, Locked, Unkept, Moves, Turns, OthersStay, Stops, Idle
<1>14. ASSUME NEW s \in Slot, RecordUnkeptDevice(s) PROVE LastInv'
  BY <1>14, WorkerMoves, RecordUnkeptDeviceDoes DEF At, Typed, LockHeld, FilesTyped, WorkTyped,
     WorkerShape, LastInv, Locked, Unkept, Moves, Turns, OthersStay, Stops, Idle
<1>15. ASSUME NEW s \in Slot, Adopt(s) PROVE LastInv'
  BY <1>15, WorkerMoves DEF Adopt, At, files, history, Typed, LockHeld, FilesTyped, WorkTyped,
     WorkerShape, LastInv, Locked, Unkept, Moves, Turns, OthersStay, Stops, Idle
<1>16. ASSUME NEW s \in Slot, SettleOwedSignOuts(s) PROVE LastInv'
  BY <1>16, WorkerMoves, SettleOwedSignOutsDoes DEF At, files, history, Typed, LockHeld,
     FilesTyped, WorkTyped, WorkerShape, LastInv, Locked, Unkept, Moves, Turns, OthersStay, Stops,
     Idle
<1>17. ASSUME NEW s \in Slot, SettleOne(s) PROVE LastInv'
  BY <1>17, WorkerMoves, SettleOneDoes DEF At, files, history, Typed, LockHeld, FilesTyped,
     WorkTyped, WorkerShape, LastInv, Locked, Unkept, Moves, Turns, OthersStay, Stops, Idle
<1>18. ASSUME NEW s \in Slot, RemoveSettled(s) PROVE LastInv'
  BY <1>18, WorkerMoves, RemoveSettledDoes DEF At, history, Typed, LockHeld, FilesTyped,
     WorkTyped, WorkerShape, LastInv, Locked, Unkept, Moves, Turns, OthersStay, Stops, Idle
<1>19. ASSUME NEW s \in Slot, ComeBack(s) PROVE LastInv'
  <2>1. Free => \A r \in Slot : work[r].at \notin Locked
    BY LoginFlowAssumption DEF Free, Typed, LockHeld
  <2>2. /\ last' = last
        /\ \/ /\ Moves(s, "come_back") \/ Moves(s, "drop") \/ Stops(s)
              /\ cred' = cred \/ (Free /\ cred' = NoCred)
           \/ /\ cred' = cred
              /\ Turns(s, "refresh", cred.dev, cred.n, cred.account, work[s].other,
                       work[s].ended, work[s].queue)
    BY <1>19, ComeBackDoes DEF Typed, history
  <2> QED BY <2>1, <2>2
          DEF NoCred, Typed, LastInv, Unkept, Locked, Moves, Turns, OthersStay, Stops, Idle
<1>20. ASSUME NEW s \in Slot, Refresh(s) PROVE LastInv'
  BY <1>20, WorkerMoves, RefreshDoes DEF At, Holds, LetsGo, files, history, Fault, Typed,
     LockHeld, FilesTyped, WorkTyped, WorkerShape, LastInv, Locked, Unkept, Moves, Turns,
     OthersStay, Stops, Idle
<1>21. ASSUME NEW s \in Slot, SaveNext(s) PROVE LastInv'
  BY <1>21, WorkerMoves, ComesToNothingDoes DEF SaveNext, At, Holds, LetsGo, Save, history, Fault,
     Typed, LockHeld, FilesTyped, WorkTyped, WorkerShape, LastInv, Locked, Unkept, Moves, Turns,
     OthersStay, Stops, Idle
<1>22. ASSUME NEW s \in Slot, EraseRefused(s) PROVE LastInv'
  BY <1>22, WorkerMoves, ComesToNothingDoes DEF EraseRefused, At, Holds, LetsGo, BumpGeneration,
     Erase, Save, history, Fault, NoCred, Typed, LockHeld, FilesTyped, WorkTyped, WorkerShape,
     LastInv, Locked, Unkept, Moves, Turns, OthersStay, Stops, Idle
<1>23. ASSUME NEW s \in Slot, Relisted(s) PROVE LastInv'
  BY <1>23, WorkerMoves DEF Relisted, At, files, history, Typed, LockHeld, FilesTyped, WorkTyped,
     WorkerShape, LastInv, Locked, Unkept, Moves, Turns, OthersStay, Stops, Idle
<1>24. ASSUME NEW s \in Slot, Drop(s) PROVE LastInv'
  BY <1>24, WorkerMoves, DropDoes DEF At, Goes, Stays, files, history, Typed, LockHeld,
     FilesTyped, WorkTyped, WorkerShape, LastInv, Locked, Unkept, Moves, Turns, OthersStay, Stops,
     Idle
<1>25. ASSUME NEW s \in Slot, SignOut(s) PROVE LastInv'
  BY <1>25, WorkerMoves, AsksDo DEF At, Free, BumpGeneration, Overtakes, history, Fault, Typed,
     LockHeld, FilesTyped, WorkTyped, WorkerShape, LastInv, Locked, Unkept, Moves, Turns,
     OthersStay, Stops, Idle
<1>26. ASSUME NEW s \in Slot, Retire(s) PROVE LastInv'
  BY <1>26, WorkerMoves, RetireDoes DEF At, Holds, LetsGo, NoCred, Typed, LockHeld, FilesTyped,
     WorkTyped, WorkerShape, LastInv, Locked, Unkept, Moves, Turns, OthersStay, Stops, Idle
<1>27. ASSUME NEW s \in Slot, EraseRetired(s) PROVE LastInv'
  BY <1>27, WorkerMoves DEF EraseRetired, At, Holds, LetsGo, Erase, Save, Fault, NoCred, Typed,
     LockHeld, FilesTyped, WorkTyped, WorkerShape, LastInv, Locked, Unkept, Moves, Turns,
     OthersStay, Stops, Idle
<1>28. ASSUME NEW s \in Slot, TellSignOut(s) PROVE LastInv'
  BY <1>28, WorkerMoves, TellSignOutDoes DEF At, files, history, Typed, LockHeld, FilesTyped,
     WorkTyped, WorkerShape, LastInv, Locked, Unkept, Moves, Turns, OthersStay, Stops, Idle
<1>29. ASSUME NEW s \in Slot, ClearRecord(s) PROVE LastInv'
  BY <1>29, WorkerMoves DEF ClearRecord, At, Free, Busy, history, Typed, LockHeld, FilesTyped,
     WorkTyped, WorkerShape, LastInv, Locked, Unkept, Moves, Turns, OthersStay, Stops, Idle
<1>30. ASSUME NEW s \in Slot, EraseEnded(s) PROVE LastInv'
  <2>1. Free => \A r \in Slot : work[r].at \notin Locked
    BY LoginFlowAssumption DEF Free, Typed, LockHeld
  <2>2. /\ Stops(s)
        /\ \/ cred' = cred /\ last' = last
           \/ /\ cred' = cred /\ cred.dev # work[s].dev
              /\ last' = SignedOutOf(work[s].dev)
           \/ Free /\ cred' = NoCred /\ last' = SignedOutOf(work[s].dev)
    BY <1>30, WorkerMoves DEF EraseEnded, Erase, Save, Typed
  <2> QED BY <2>1, <2>2
          DEF SignedOutOf, NoCred, Typed, LastInv, Unkept, Locked, OthersStay, Stops, Idle
<1>31. ASSUME NEW w \in Window, Crash(w) PROVE LastInv'
  BY <1>31, WorkerMoves, CrashDoes DEF files, Typed, LockHeld, FilesTyped, WorkTyped, WorkerShape,
     LastInv, Locked, Unkept, Moves, Turns, OthersStay, Stops, Idle
<1>32. ASSUME NEW w \in Window, CloseWindow(w) PROVE LastInv'
  BY <1>32, WorkerMoves DEF CloseWindow, files, history, Typed, LockHeld, FilesTyped, WorkTyped,
     WorkerShape, LastInv, Locked, Unkept, Moves, Turns, OthersStay, Stops, Idle
<1>33. CASE Tick
  BY <1>33, WorkerMoves DEF Tick, files, history, Typed, LockHeld, FilesTyped, WorkTyped,
     WorkerShape, LastInv, Locked, Unkept, Moves, Turns, OthersStay, Stops, Idle
<1>34. ASSUME NEW d \in Device, EndElsewhere(d) PROVE LastInv'
  BY <1>34, WorkerMoves DEF EndElsewhere, files, history, Fault, Typed, LockHeld, FilesTyped,
     WorkTyped, WorkerShape, LastInv, Locked, Unkept, Moves, Turns, OthersStay, Stops, Idle
<1>35. ASSUME NEW d \in Device, NEW n \in 1 .. MaxCred, LateRefresh(d, n) PROVE LastInv'
  BY <1>35, WorkerMoves DEF LateRefresh, files, history, Typed, LockHeld, FilesTyped, WorkTyped,
     WorkerShape, LastInv, Locked, Unkept, Moves, Turns, OthersStay, Stops, Idle
<1>36. ASSUME NEW a \in Account, DisableAccount(a) PROVE LastInv'
  BY <1>36, WorkerMoves DEF DisableAccount, files, history, Fault, Typed, LockHeld, FilesTyped,
     WorkTyped, WorkerShape, LastInv, Locked, Unkept, Moves, Turns, OthersStay, Stops, Idle
<1>37. ASSUME NEW a \in Account, EnableAccount(a) PROVE LastInv'
  BY <1>37, WorkerMoves DEF EnableAccount, files, history, Typed, LockHeld, FilesTyped, WorkTyped,
     WorkerShape, LastInv, Locked, Unkept, Moves, Turns, OthersStay, Stops, Idle
<1>38. CASE UNCHANGED vars
  BY <1>38 DEF vars, directory, files, history, user, Typed, LockHeld, FilesTyped, WorkTyped,
     WorkerShape, LastInv, Locked, Unkept
<1> QED
  BY <1>1, <1>2, <1>3, <1>4, <1>5, <1>6, <1>7, <1>8, <1>9, <1>10, <1>11, <1>12, <1>13, <1>14,
     <1>15, <1>16, <1>17, <1>18, <1>19, <1>20, <1>21, <1>22, <1>23, <1>24, <1>25, <1>26, <1>27,
     <1>28, <1>29, <1>30, <1>31, <1>32, <1>33, <1>34, <1>35, <1>36, <1>37, <1>38
     DEF Next, User, Worker, World

(* Nobody is disabled, where that does not happen. *)
LEMMA UndisturbedStep ==
  ASSUME Typed, HeldInv, Forgiving, [Next]_vars
  PROVE  Undisturbed'
<1>1. ASSUME NEW s \in Slot, NEW w \in Window, NEW a \in Account, BeginLogin(s, w, a)
      PROVE  Undisturbed'
  BY <1>1 DEF BeginLogin, Asks, Launch, At, NewEpoch, directory, HeldInv, CoreInv, Undisturbed
<1>2. ASSUME NEW s \in Slot, NEW w \in Window, BeginAutoLogin(s, w) PROVE Undisturbed'
  BY <1>2 DEF BeginAutoLogin, Launch, At, NewEpoch, directory, HeldInv, CoreInv, Undisturbed
<1>3. ASSUME NEW s \in Slot, NEW w \in Window, BeginRefreshHosts(s, w) PROVE Undisturbed'
  BY <1>3 DEF BeginRefreshHosts, Launch, At, directory, HeldInv, CoreInv, Undisturbed
<1>4. ASSUME NEW s \in Slot, NEW w \in Window, BeginSignOut(s, w) PROVE Undisturbed'
  BY <1>4 DEF BeginSignOut, Asks, Launch, At, NewEpoch, directory, HeldInv, CoreInv, Undisturbed
<1>5. ASSUME NEW s \in Slot, BeginSignIn(s) PROVE Undisturbed'
  BY <1>5 DEF BeginSignIn, At, Busy, Free, BumpGeneration, Overtaken, directory, HeldInv, CoreInv,
     Undisturbed, Fault
<1>6. ASSUME NEW s \in Slot, DirectoryLogin(s) PROVE Undisturbed'
  BY <1>6 DEF DirectoryLogin, At, HeldInv, CoreInv, Undisturbed, Fault
<1>7. ASSUME NEW s \in Slot, Listed(s) PROVE Undisturbed'
  BY <1>7 DEF Listed, At, NotKept, directory, HeldInv, CoreInv, Undisturbed
<1>8. ASSUME NEW s \in Slot, Remember(s) PROVE Undisturbed'
  BY <1>8 DEF Remember, At, NotKept, Free, Takes, directory, HeldInv, CoreInv, Undisturbed, Fault
<1>9. ASSUME NEW s \in Slot, Replace(s) PROVE Undisturbed'
  BY <1>9 DEF Replace, At, Holds, LetsGo, NotKept, directory, HeldInv, CoreInv, Undisturbed, Fault
<1>10. ASSUME NEW s \in Slot, TellPrevious(s) PROVE Undisturbed'
  BY <1>10 DEF TellPrevious, At, NotKept, HeldInv, CoreInv, Undisturbed, Fault, TellDirectory
<1>11. ASSUME NEW s \in Slot, BumpBeforeKeeping(s) PROVE Undisturbed'
  BY <1>11 DEF BumpBeforeKeeping, At, Holds, LetsGo, NotKept, BumpGeneration, directory, HeldInv, CoreInv,
     Undisturbed, Fault
<1>12. ASSUME NEW s \in Slot, Keep(s) PROVE Undisturbed'
  BY <1>12 DEF Keep, At, Holds, LetsGo, NotKept, Save, directory, HeldInv, CoreInv, Undisturbed, Fault
<1>13. ASSUME NEW s \in Slot, EndUnkeptDevice(s) PROVE Undisturbed'
  BY <1>13 DEF EndUnkeptDevice, At, HeldInv, CoreInv, Undisturbed, Fault, TellDirectory
<1>14. ASSUME NEW s \in Slot, RecordUnkeptDevice(s) PROVE Undisturbed'
  BY <1>14 DEF RecordUnkeptDevice, At, Free, Busy, directory, HeldInv, CoreInv, Undisturbed
<1>15. ASSUME NEW s \in Slot, Adopt(s) PROVE Undisturbed'
  BY <1>15 DEF Adopt, At, directory, HeldInv, CoreInv, Undisturbed
<1>16. ASSUME NEW s \in Slot, SettleOwedSignOuts(s) PROVE Undisturbed'
  BY <1>16 DEF SettleOwedSignOuts, At, Free, Busy, directory, HeldInv, CoreInv, Undisturbed, Fault
<1>17. ASSUME NEW s \in Slot, SettleOne(s) PROVE Undisturbed'
  BY <1>17 DEF SettleOne, At, directory, HeldInv, CoreInv, Undisturbed, Fault, TellDirectory
<1>18. ASSUME NEW s \in Slot, RemoveSettled(s) PROVE Undisturbed'
  BY <1>18 DEF RemoveSettled, At, Free, Busy, directory, HeldInv, CoreInv, Undisturbed
<1>19. ASSUME NEW s \in Slot, ComeBack(s) PROVE Undisturbed'
  BY <1>19 DEF ComeBack, At, Busy, Free, Takes, ComesLater, ComesToNothing, BumpGeneration, Erase,
     Save, directory, HeldInv, CoreInv, Undisturbed, Fault
<1>20. ASSUME NEW s \in Slot, Refresh(s) PROVE Undisturbed'
  BY <1>20 DEF Refresh, Fault, Forgiving, HeldInv, CoreInv, Undisturbed
<1>21. ASSUME NEW s \in Slot, SaveNext(s) PROVE Undisturbed'
  BY <1>21 DEF SaveNext, At, Holds, LetsGo, ComesToNothing, Save, directory, HeldInv, CoreInv, Undisturbed,
     Fault
<1>22. ASSUME NEW s \in Slot, EraseRefused(s) PROVE Undisturbed'
  BY <1>22 DEF EraseRefused, At, Holds, LetsGo, ComesToNothing, BumpGeneration, Erase, Save,
     directory, HeldInv, CoreInv, Undisturbed, Fault
<1>23. ASSUME NEW s \in Slot, Relisted(s) PROVE Undisturbed'
  BY <1>23 DEF Relisted, At, directory, HeldInv, CoreInv, Undisturbed
<1>24. ASSUME NEW s \in Slot, Drop(s) PROVE Undisturbed'
  BY <1>24 DEF Drop, At, NewEpoch, directory, HeldInv, CoreInv, Undisturbed
<1>25. ASSUME NEW s \in Slot, SignOut(s) PROVE Undisturbed'
  BY <1>25 DEF SignOut, At, Busy, Free, BumpGeneration, Overtaken, directory, HeldInv, CoreInv,
     Undisturbed, Fault
<1>26. ASSUME NEW s \in Slot, Retire(s) PROVE Undisturbed'
  BY <1>26 DEF Retire, At, Holds, LetsGo, directory, HeldInv, CoreInv, Undisturbed, Fault
<1>27. ASSUME NEW s \in Slot, EraseRetired(s) PROVE Undisturbed'
  BY <1>27 DEF EraseRetired, At, Holds, LetsGo, Erase, Save, directory, HeldInv, CoreInv, Undisturbed, Fault
<1>28. ASSUME NEW s \in Slot, TellSignOut(s) PROVE Undisturbed'
  BY <1>28 DEF TellSignOut, At, HeldInv, CoreInv, Undisturbed, Fault, TellDirectory
<1>29. ASSUME NEW s \in Slot, ClearRecord(s) PROVE Undisturbed'
  BY <1>29 DEF ClearRecord, At, Free, Busy, directory, HeldInv, CoreInv, Undisturbed
<1>30. ASSUME NEW s \in Slot, EraseEnded(s) PROVE Undisturbed'
  BY <1>30 DEF EraseEnded, At, Free, Busy, Erase, Save, directory, HeldInv, CoreInv, Undisturbed, Fault
<1>31. ASSUME NEW w \in Window, Crash(w) PROVE Undisturbed'
  BY <1>31 DEF Crash, directory, HeldInv, CoreInv, Undisturbed, Fault
<1>32. ASSUME NEW w \in Window, CloseWindow(w) PROVE Undisturbed'
  BY <1>32 DEF CloseWindow, directory, HeldInv, CoreInv, Undisturbed
<1>33. CASE Tick
  BY <1>33 DEF Tick, HeldInv, CoreInv, Undisturbed
<1>34. ASSUME NEW d \in Device, EndElsewhere(d) PROVE Undisturbed'
  BY <1>34 DEF EndElsewhere, HeldInv, CoreInv, Undisturbed, Fault
<1>35. ASSUME NEW d \in Device, NEW n \in 1 .. MaxCred, LateRefresh(d, n) PROVE Undisturbed'
  BY <1>35 DEF LateRefresh, HeldInv, CoreInv, Undisturbed
<1>36. ASSUME NEW a \in Account, DisableAccount(a) PROVE Undisturbed'
  BY <1>36 DEF DisableAccount, Forgiving, Fault
<1>37. ASSUME NEW a \in Account, EnableAccount(a) PROVE Undisturbed'
  BY <1>37 DEF EnableAccount, HeldInv, CoreInv, Undisturbed
<1>38. CASE UNCHANGED vars
  BY <1>38 DEF vars, directory, files, history, user, HeldInv, CoreInv, Undisturbed
<1> QED
  BY <1>1, <1>2, <1>3, <1>4, <1>5, <1>6, <1>7, <1>8, <1>9, <1>10, <1>11, <1>12, <1>13, <1>14,
     <1>15, <1>16, <1>17, <1>18, <1>19, <1>20, <1>21, <1>22, <1>23, <1>24, <1>25, <1>26, <1>27,
     <1>28, <1>29, <1>30, <1>31, <1>32, <1>33, <1>34, <1>35, <1>36, <1>37, <1>38
     DEF Next, User, Worker, World

(* Only devices that were given out are named. *)
LEMMA NamedStep ==
  ASSUME Typed, CoreInv, [Next]_vars
  PROVE  Named'
<1>1. ASSUME NEW s \in Slot, NEW w \in Window, NEW a \in Account, BeginLogin(s, w, a) PROVE Named'
  <2>1. Begins(s, "begin", w, a)
    BY <1>1, BeginsDo DEF Typed
  <2>2. EndsOnly /\ work[s].at = "idle" /\ UNCHANGED <<cred, owed, aside, disowned>>
    BY <2>1, EndsFacts DEF At, Begins, files, history
  <2>3. Launches(s, "begin", w, a)
    BY <2>1 DEF Begins
  <2> QED BY <2>2, <2>3 DEF EndsOnly, Launches, Stays, Typed, DirectoryTyped, FilesTyped,
         OwedTyped, WorkTyped, WorkerShape, MaybeDevice, CoreInv, Named, InStore
<1>2. ASSUME NEW s \in Slot, NEW w \in Window, BeginAutoLogin(s, w) PROVE Named'
  <2>1. Begins(s, "settle", w, None)
    BY <1>2, BeginsDo DEF Typed
  <2>2. EndsOnly /\ work[s].at = "idle" /\ UNCHANGED <<cred, owed, aside, disowned>>
    BY <2>1, EndsFacts DEF At, Begins, files, history
  <2>3. Launches(s, "settle", w, None)
    BY <2>1 DEF Begins
  <2> QED BY <2>2, <2>3 DEF EndsOnly, Launches, Stays, Typed, DirectoryTyped, FilesTyped,
         OwedTyped, WorkTyped, WorkerShape, MaybeDevice, CoreInv, Named, InStore
<1>3. ASSUME NEW s \in Slot, NEW w \in Window, BeginRefreshHosts(s, w) PROVE Named'
  <2>1. Begins(s, "come_back", w, win[w].account)
    BY <1>3, BeginsDo DEF Typed
  <2>2. EndsOnly /\ work[s].at = "idle" /\ UNCHANGED <<cred, owed, aside, disowned>>
    BY <2>1, EndsFacts DEF At, Begins, files, history
  <2>3. Launches(s, "come_back", w, win[w].account)
    BY <2>1 DEF Begins
  <2> QED BY <2>2, <2>3 DEF EndsOnly, Launches, Stays, Typed, DirectoryTyped, FilesTyped,
         OwedTyped, WorkTyped, WorkerShape, MaybeDevice, CoreInv, Named, InStore
<1>4. ASSUME NEW s \in Slot, NEW w \in Window, BeginSignOut(s, w) PROVE Named'
  <2>1. Begins(s, "sign_out", w, None)
    BY <1>4, BeginsDo DEF Typed
  <2>2. EndsOnly /\ work[s].at = "idle" /\ UNCHANGED <<cred, owed, aside, disowned>>
    BY <2>1, EndsFacts DEF At, Begins, files, history
  <2>3. Launches(s, "sign_out", w, None)
    BY <2>1 DEF Begins
  <2> QED BY <2>2, <2>3 DEF EndsOnly, Launches, Stays, Typed, DirectoryTyped, FilesTyped,
         OwedTyped, WorkTyped, WorkerShape, MaybeDevice, CoreInv, Named, InStore
<1>5. ASSUME NEW s \in Slot, BeginSignIn(s) PROVE Named'
  BY <1>5, WorkerMoves, EndsFacts, AsksDo DEF At, Free, BumpGeneration, Overtakes, history,
     EndsOnly, Typed, DirectoryTyped, FilesTyped, OwedTyped, WorkTyped, WorkerShape, MaybeDevice,
     CoreInv, Named, InStore, Moves, Turns, OthersStay, Stops, Idle
<1>6. ASSUME NEW s \in Slot, DirectoryLogin(s) PROVE Named'
  BY <1>6, WorkerMoves, EndsFacts, LoginJoins DEF files, EndsOnly, Joins, Typed, DirectoryTyped,
     FilesTyped, OwedTyped, WorkTyped, WorkerShape, MaybeDevice, CoreInv, Named, InStore, Moves,
     Turns, OthersStay, Stops, Idle
<1>7. ASSUME NEW s \in Slot, Listed(s) PROVE Named'
  BY <1>7, WorkerMoves, EndsFacts, NotKeptDoes DEF Listed, At, files, history, EndsOnly, Typed,
     DirectoryTyped, FilesTyped, OwedTyped, WorkTyped, WorkerShape, MaybeDevice, CoreInv, Named,
     InStore, Moves, Turns, OthersStay, Stops, Idle
<1>8. ASSUME NEW s \in Slot, Remember(s) PROVE Named'
  BY <1>8, WorkerMoves, EndsFacts, NotKeptDoes DEF Remember, At, Free, Takes, history, EndsOnly,
     Typed, DirectoryTyped, FilesTyped, OwedTyped, WorkTyped, WorkerShape, MaybeDevice, CoreInv,
     Named, InStore, Moves, Turns, OthersStay, Stops, Idle
<1>9. ASSUME NEW s \in Slot, Replace(s) PROVE Named'
  BY <1>9, WorkerMoves, EndsFacts, ReplaceTakes DEF At, Holds, history, EndsOnly, Typed,
     DirectoryTyped, FilesTyped, OwedTyped, WorkTyped, WorkerShape, MaybeDevice, CoreInv, Named,
     InStore, Moves, Turns, OthersStay, Stops, Idle
<1>10. ASSUME NEW s \in Slot, TellPrevious(s) PROVE Named'
  BY <1>10, WorkerMoves, EndsFacts, TellPreviousTells DEF At, files, history, EndsOnly, Typed,
     DirectoryTyped, FilesTyped, OwedTyped, WorkTyped, WorkerShape, MaybeDevice, CoreInv, Named,
     InStore, Moves, Turns, OthersStay, Stops, Idle
<1>11. ASSUME NEW s \in Slot, BumpBeforeKeeping(s) PROVE Named'
  BY <1>11, WorkerMoves, EndsFacts, NotKeptDoes DEF BumpBeforeKeeping, At, Holds, LetsGo,
     BumpGeneration, history, EndsOnly, Typed, DirectoryTyped, FilesTyped, OwedTyped, WorkTyped,
     WorkerShape, MaybeDevice, CoreInv, Named, InStore, Moves, Turns, OthersStay, Stops, Idle
<1>12. ASSUME NEW s \in Slot, Keep(s) PROVE Named'
  BY <1>12, WorkerMoves, EndsFacts, NotKeptDoes DEF Keep, At, Holds, LetsGo, Save, EndsOnly,
     Typed, DirectoryTyped, FilesTyped, OwedTyped, WorkTyped, WorkerShape, MaybeDevice, CoreInv,
     Named, InStore, NoCred, Moves, Turns, OthersStay, Stops, Idle
<1>13. ASSUME NEW s \in Slot, EndUnkeptDevice(s) PROVE Named'
  BY <1>13, WorkerMoves, EndsFacts, EndUnkeptDeviceTells DEF At, files, history, EndsOnly, Typed,
     DirectoryTyped, FilesTyped, OwedTyped, WorkTyped, WorkerShape, MaybeDevice, CoreInv, Named,
     InStore, Moves, Turns, OthersStay, Stops, Idle
<1>14. ASSUME NEW s \in Slot, RecordUnkeptDevice(s) PROVE Named'
  <2>1. work[s].dev # None
    BY <1>14, RecordUnkeptDeviceTakes DEF At, Typed, WorkTyped, WorkerShape, HasDevice
  <2> QED BY <1>14, <2>1, RecordUnkeptDeviceTakes
          DEF EndsOnly, Typed, WorkTyped, WorkerShape, MaybeDevice, CoreInv, Named, InStore,
              OthersStay, Stops, Idle
<1>15. ASSUME NEW s \in Slot, Adopt(s) PROVE Named'
  BY <1>15, WorkerMoves, EndsFacts DEF Adopt, At, files, history, EndsOnly, Typed, DirectoryTyped,
     FilesTyped, OwedTyped, WorkTyped, WorkerShape, MaybeDevice, CoreInv, Named, InStore, Moves,
     Turns, OthersStay, Stops, Idle
<1>16. ASSUME NEW s \in Slot, SettleOwedSignOuts(s) PROVE Named'
  BY <1>16, WorkerMoves, EndsFacts, SettleOwedSignOutsDoes DEF At, files, history, EndsOnly,
     Typed, DirectoryTyped, FilesTyped, OwedTyped, WorkTyped, WorkerShape, MaybeDevice, CoreInv,
     Named, InStore, Moves, Turns, OthersStay, Stops, Idle
<1>17. ASSUME NEW s \in Slot, SettleOne(s) PROVE Named'
  BY <1>17, WorkerMoves, EndsFacts, SettleOneTells DEF At, files, history, EndsOnly, Typed,
     DirectoryTyped, FilesTyped, OwedTyped, WorkTyped, WorkerShape, MaybeDevice, CoreInv, Named,
     InStore, Moves, Turns, OthersStay, Stops, Idle
<1>18. ASSUME NEW s \in Slot, RemoveSettled(s) PROVE Named'
  BY <1>18, WorkerMoves, EndsFacts, RemoveSettledDoes DEF At, history, EndsOnly, Typed,
     DirectoryTyped, FilesTyped, OwedTyped, WorkTyped, WorkerShape, MaybeDevice, CoreInv, Named,
     InStore, RemovePendingRevoke, Moves, Turns, OthersStay, Stops, Idle
<1>19. ASSUME NEW s \in Slot, ComeBack(s) PROVE Named'
  BY <1>19, WorkerMoves, EndsFacts, ComeBackDoes DEF At, Free, Takes, BumpGeneration, history,
     EndsOnly, Typed, DirectoryTyped, FilesTyped, OwedTyped, WorkTyped, WorkerShape, MaybeDevice,
     CoreInv, Named, InStore, NoCred, Moves, Turns, OthersStay, Stops, Idle
<1>20. ASSUME NEW s \in Slot, Refresh(s) PROVE Named'
  BY <1>20, WorkerMoves, EndsFacts, RefreshExchanges DEF At, Holds, LetsGo, files, history,
     EndsOnly, Exchanged, Typed, DirectoryTyped, FilesTyped, OwedTyped, WorkTyped, WorkerShape,
     MaybeDevice, CoreInv, Named, InStore, Moves, Turns, OthersStay, Stops, Idle
<1>21. ASSUME NEW s \in Slot, SaveNext(s) PROVE Named'
  BY <1>21, WorkerMoves, EndsFacts, ComesToNothingDoes DEF SaveNext, At, Holds, LetsGo, Save,
     history, EndsOnly, Typed, DirectoryTyped, FilesTyped, OwedTyped, WorkTyped, WorkerShape,
     MaybeDevice, CoreInv, Named, InStore, Moves, Turns, OthersStay, Stops, Idle
<1>22. ASSUME NEW s \in Slot, EraseRefused(s) PROVE Named'
  BY <1>22, WorkerMoves, EndsFacts, ComesToNothingDoes DEF EraseRefused, At, Holds, LetsGo,
     BumpGeneration, Erase, Save, history, EndsOnly, Typed, DirectoryTyped, FilesTyped, OwedTyped,
     WorkTyped, WorkerShape, MaybeDevice, CoreInv, Named, InStore, NoCred, Moves, Turns,
     OthersStay, Stops, Idle
<1>23. ASSUME NEW s \in Slot, Relisted(s) PROVE Named'
  BY <1>23, WorkerMoves, EndsFacts DEF Relisted, At, files, history, EndsOnly, Typed,
     DirectoryTyped, FilesTyped, OwedTyped, WorkTyped, WorkerShape, MaybeDevice, CoreInv, Named,
     InStore, Moves, Turns, OthersStay, Stops, Idle
<1>24. ASSUME NEW s \in Slot, Drop(s) PROVE Named'
  BY <1>24, WorkerMoves, EndsFacts, DropDoes DEF At, Goes, Stays, files, history, EndsOnly, Typed,
     DirectoryTyped, FilesTyped, OwedTyped, WorkTyped, WorkerShape, MaybeDevice, CoreInv, Named,
     InStore, Moves, Turns, OthersStay, Stops, Idle
<1>25. ASSUME NEW s \in Slot, SignOut(s) PROVE Named'
  BY <1>25, WorkerMoves, EndsFacts, AsksDo DEF At, Free, BumpGeneration, Overtakes, history,
     EndsOnly, Typed, DirectoryTyped, FilesTyped, OwedTyped, WorkTyped, WorkerShape, MaybeDevice,
     CoreInv, Named, InStore, Moves, Turns, OthersStay, Stops, Idle
<1>26. ASSUME NEW s \in Slot, Retire(s) PROVE Named'
  BY <1>26, WorkerMoves, EndsFacts, RetireTakes DEF At, Holds, EndsOnly, Typed, DirectoryTyped,
     FilesTyped, OwedTyped, WorkTyped, WorkerShape, MaybeDevice, CoreInv, Named, InStore, NoCred,
     Moves, Turns, OthersStay, Stops, Idle
<1>27. ASSUME NEW s \in Slot, EraseRetired(s) PROVE Named'
  BY <1>27, WorkerMoves, EndsFacts DEF EraseRetired, At, Holds, LetsGo, Erase, Save, EndsOnly,
     Typed, DirectoryTyped, FilesTyped, OwedTyped, WorkTyped, WorkerShape, MaybeDevice, CoreInv,
     Named, InStore, NoCred, Moves, Turns, OthersStay, Stops, Idle
<1>28. ASSUME NEW s \in Slot, TellSignOut(s) PROVE Named'
  BY <1>28, WorkerMoves, EndsFacts, TellSignOutTells DEF files, history, EndsOnly, Typed,
     DirectoryTyped, FilesTyped, OwedTyped, WorkTyped, WorkerShape, MaybeDevice, CoreInv, Named,
     InStore, Moves, Turns, OthersStay, Stops, Idle
<1>29. ASSUME NEW s \in Slot, ClearRecord(s) PROVE Named'
  BY <1>29, WorkerMoves, EndsFacts DEF ClearRecord, At, Free, Busy, history, EndsOnly, Typed,
     DirectoryTyped, FilesTyped, OwedTyped, WorkTyped, WorkerShape, MaybeDevice, CoreInv, Named,
     InStore, RemovePendingRevoke, Moves, Turns, OthersStay, Stops, Idle
<1>30. ASSUME NEW s \in Slot, EraseEnded(s) PROVE Named'
  BY <1>30, WorkerMoves, EndsFacts DEF EraseEnded, At, Free, Busy, Erase, Save, EndsOnly, Typed,
     DirectoryTyped, FilesTyped, OwedTyped, WorkTyped, WorkerShape, MaybeDevice, CoreInv, Named,
     InStore, NoCred, Moves, Turns, OthersStay, Stops, Idle
<1>31. ASSUME NEW w \in Window, Crash(w) PROVE Named'
  BY <1>31, WorkerMoves, EndsFacts, CrashDoes DEF files, EndsOnly, Typed, DirectoryTyped,
     FilesTyped, OwedTyped, WorkTyped, WorkerShape, MaybeDevice, CoreInv, Named, InStore, Moves,
     Turns, OthersStay, Stops, Idle
<1>32. ASSUME NEW w \in Window, CloseWindow(w) PROVE Named'
  BY <1>32, WorkerMoves, EndsFacts DEF CloseWindow, files, history, EndsOnly, Typed,
     DirectoryTyped, FilesTyped, OwedTyped, WorkTyped, WorkerShape, MaybeDevice, CoreInv, Named,
     InStore, Moves, Turns, OthersStay, Stops, Idle
<1>33. CASE Tick
  BY <1>33, WorkerMoves, EndsFacts DEF Tick, files, history, EndsOnly, Typed, DirectoryTyped,
     FilesTyped, OwedTyped, WorkTyped, WorkerShape, MaybeDevice, CoreInv, Named, InStore, Moves,
     Turns, OthersStay, Stops, Idle
<1>34. ASSUME NEW d \in Device, EndElsewhere(d) PROVE Named'
  BY <1>34, WorkerMoves, EndsFacts DEF EndElsewhere, files, history, EndsOnly, Typed,
     DirectoryTyped, FilesTyped, OwedTyped, WorkTyped, WorkerShape, MaybeDevice, CoreInv, Named,
     InStore, Moves, Turns, OthersStay, Stops, Idle
<1>35. ASSUME NEW d \in Device, NEW n \in 1 .. MaxCred, LateRefresh(d, n) PROVE Named'
  BY <1>35, WorkerMoves, LateExchanges DEF LateRefresh, files, history, EndsOnly, Typed,
     DirectoryTyped, FilesTyped, OwedTyped, WorkTyped, WorkerShape, MaybeDevice, CoreInv, Named,
     InStore, Moves, Turns, OthersStay, Stops, Idle
<1>36. ASSUME NEW a \in Account, DisableAccount(a) PROVE Named'
  BY <1>36, WorkerMoves, EndsFacts DEF DisableAccount, Fault, files, history, EndsOnly, Typed,
     DirectoryTyped, FilesTyped, OwedTyped, WorkTyped, WorkerShape, MaybeDevice, CoreInv, Named,
     InStore, Moves, Turns, OthersStay, Stops, Idle
<1>37. ASSUME NEW a \in Account, EnableAccount(a) PROVE Named'
  BY <1>37, WorkerMoves, EndsFacts DEF EnableAccount, files, history, EndsOnly, Typed,
     DirectoryTyped, FilesTyped, OwedTyped, WorkTyped, WorkerShape, MaybeDevice, CoreInv, Named,
     InStore, Moves, Turns, OthersStay, Stops, Idle
<1>38. CASE UNCHANGED vars
  BY <1>38 DEF vars, directory, files, history, user, Typed, DirectoryTyped, FilesTyped,
     OwedTyped, WorkTyped, WorkerShape, MaybeDevice, CoreInv, Named, InStore
<1> QED
  BY <1>1, <1>2, <1>3, <1>4, <1>5, <1>6, <1>7, <1>8, <1>9, <1>10, <1>11, <1>12, <1>13, <1>14,
     <1>15, <1>16, <1>17, <1>18, <1>19, <1>20, <1>21, <1>22, <1>23, <1>24, <1>25, <1>26, <1>27,
     <1>28, <1>29, <1>30, <1>31, <1>32, <1>33, <1>34, <1>35, <1>36, <1>37, <1>38
     DEF Next, User, Worker, World

(* A device that was just given out is with one worker only. *)
LEMMA ApartStep ==
  ASSUME Typed, CoreInv, [Next]_vars
  PROVE  Apart'
<1>1. ASSUME NEW s \in Slot, NEW w \in Window, NEW a \in Account, BeginLogin(s, w, a) PROVE Apart'
  <2>1. Begins(s, "begin", w, a)
    BY <1>1, BeginsDo DEF Typed
  <2>2. EndsOnly /\ work[s].at = "idle" /\ UNCHANGED <<cred, owed, aside, disowned>>
    BY <2>1, EndsFacts DEF At, Begins, files, history
  <2>3. Launches(s, "begin", w, a)
    BY <2>1 DEF Begins
  <2> QED BY <2>2, <2>3 DEF EndsOnly, Launches, Stays, Typed, LockHeld, WorkTyped, FilesTyped,
         CoreInv, Named, Apart, AtTheStore, Unkept
<1>2. ASSUME NEW s \in Slot, NEW w \in Window, BeginAutoLogin(s, w) PROVE Apart'
  <2>1. Begins(s, "settle", w, None)
    BY <1>2, BeginsDo DEF Typed
  <2>2. EndsOnly /\ work[s].at = "idle" /\ UNCHANGED <<cred, owed, aside, disowned>>
    BY <2>1, EndsFacts DEF At, Begins, files, history
  <2>3. Launches(s, "settle", w, None)
    BY <2>1 DEF Begins
  <2> QED BY <2>2, <2>3 DEF EndsOnly, Launches, Stays, Typed, LockHeld, WorkTyped, FilesTyped,
         CoreInv, Named, Apart, AtTheStore, Unkept
<1>3. ASSUME NEW s \in Slot, NEW w \in Window, BeginRefreshHosts(s, w) PROVE Apart'
  <2>1. Begins(s, "come_back", w, win[w].account)
    BY <1>3, BeginsDo DEF Typed
  <2>2. EndsOnly /\ work[s].at = "idle" /\ UNCHANGED <<cred, owed, aside, disowned>>
    BY <2>1, EndsFacts DEF At, Begins, files, history
  <2>3. Launches(s, "come_back", w, win[w].account)
    BY <2>1 DEF Begins
  <2> QED BY <2>2, <2>3 DEF EndsOnly, Launches, Stays, Typed, LockHeld, WorkTyped, FilesTyped,
         CoreInv, Named, Apart, AtTheStore, Unkept
<1>4. ASSUME NEW s \in Slot, NEW w \in Window, BeginSignOut(s, w) PROVE Apart'
  <2>1. Begins(s, "sign_out", w, None)
    BY <1>4, BeginsDo DEF Typed
  <2>2. EndsOnly /\ work[s].at = "idle" /\ UNCHANGED <<cred, owed, aside, disowned>>
    BY <2>1, EndsFacts DEF At, Begins, files, history
  <2>3. Launches(s, "sign_out", w, None)
    BY <2>1 DEF Begins
  <2> QED BY <2>2, <2>3 DEF EndsOnly, Launches, Stays, Typed, LockHeld, WorkTyped, FilesTyped,
         CoreInv, Named, Apart, AtTheStore, Unkept
<1>5. ASSUME NEW s \in Slot, BeginSignIn(s) PROVE Apart'
  BY <1>5, WorkerMoves, EndsFacts, AsksDo DEF At, Free, BumpGeneration, Overtakes, history,
     EndsOnly, Typed, LockHeld, WorkTyped, FilesTyped, CoreInv, Named, Apart, AtTheStore, Unkept,
     Moves, Turns, OthersStay, Stops, Idle
<1>6. ASSUME NEW s \in Slot, DirectoryLogin(s) PROVE Apart'
  <2>1. /\ cred' = cred
        /\ \/ Stops(s)
           \/ Moves(s, "listed") /\ At(s, "login")
           \/ \E d \in Device \ minted : Turns(s, "listed", d, 1, work[s].account, work[s].other,
                                              work[s].ended, work[s].queue)
    BY <1>6, DirectoryLoginDoes DEF Typed, files
  <2>2. work[s].at = "login" => work[s].dev = None
    BY DEF Typed, WorkTyped, WorkerShape
  <2> QED BY <2>1, <2>2, NoneAssumption
          DEF At, CoreInv, Named, Apart, Unkept, Moves, Turns, Stops, OthersStay, Idle
<1>7. ASSUME NEW s \in Slot, Listed(s) PROVE Apart'
  BY <1>7, WorkerMoves, EndsFacts, NotKeptDoes DEF Listed, At, files, history, EndsOnly, Typed,
     LockHeld, WorkTyped, FilesTyped, CoreInv, Named, Apart, AtTheStore, Unkept, Moves, Turns,
     OthersStay, Stops, Idle
<1>8. ASSUME NEW s \in Slot, Remember(s) PROVE Apart'
  BY <1>8, WorkerMoves, EndsFacts, NotKeptDoes DEF Remember, At, Free, Takes, history, EndsOnly,
     Typed, LockHeld, WorkTyped, FilesTyped, CoreInv, Named, Apart, AtTheStore, Unkept, Moves,
     Turns, OthersStay, Stops, Idle
<1>9. ASSUME NEW s \in Slot, Replace(s) PROVE Apart'
  BY <1>9, WorkerMoves, EndsFacts, ReplaceTakes DEF At, Holds, history, EndsOnly, Typed, LockHeld,
     WorkTyped, FilesTyped, CoreInv, Named, Apart, AtTheStore, Unkept, Moves, Turns, OthersStay,
     Stops, Idle
<1>10. ASSUME NEW s \in Slot, TellPrevious(s) PROVE Apart'
  BY <1>10, WorkerMoves, EndsFacts, TellPreviousTells DEF At, files, history, EndsOnly, Typed,
     LockHeld, WorkTyped, FilesTyped, CoreInv, Named, Apart, AtTheStore, Unkept, Moves, Turns,
     OthersStay, Stops, Idle
<1>11. ASSUME NEW s \in Slot, BumpBeforeKeeping(s) PROVE Apart'
  BY <1>11, WorkerMoves, EndsFacts, NotKeptDoes DEF BumpBeforeKeeping, At, Holds, LetsGo,
     BumpGeneration, history, EndsOnly, Typed, LockHeld, WorkTyped, FilesTyped, CoreInv, Named,
     Apart, AtTheStore, Unkept, Moves, Turns, OthersStay, Stops, Idle
<1>12. ASSUME NEW s \in Slot, Keep(s) PROVE Apart'
  BY <1>12, WorkerMoves, EndsFacts, NotKeptDoes DEF Keep, At, Holds, LetsGo, Save, EndsOnly,
     Typed, LockHeld, WorkTyped, FilesTyped, CoreInv, Named, Apart, AtTheStore, NoCred, Unkept,
     Moves, Turns, OthersStay, Stops, Idle
<1>13. ASSUME NEW s \in Slot, EndUnkeptDevice(s) PROVE Apart'
  BY <1>13, WorkerMoves, EndsFacts, EndUnkeptDeviceTells DEF At, files, history, EndsOnly, Typed,
     LockHeld, WorkTyped, FilesTyped, CoreInv, Named, Apart, AtTheStore, Unkept, Moves, Turns,
     OthersStay, Stops, Idle
<1>14. ASSUME NEW s \in Slot, RecordUnkeptDevice(s) PROVE Apart'
  BY <1>14, WorkerMoves, EndsFacts, RecordUnkeptDeviceTakes DEF At, EndsOnly, Typed, LockHeld,
     WorkTyped, FilesTyped, CoreInv, Named, Apart, AtTheStore, Unkept, Moves, Turns, OthersStay,
     Stops, Idle
<1>15. ASSUME NEW s \in Slot, Adopt(s) PROVE Apart'
  BY <1>15, WorkerMoves, EndsFacts DEF Adopt, At, files, history, EndsOnly, Typed, LockHeld,
     WorkTyped, FilesTyped, CoreInv, Named, Apart, AtTheStore, Unkept, Moves, Turns, OthersStay,
     Stops, Idle
<1>16. ASSUME NEW s \in Slot, SettleOwedSignOuts(s) PROVE Apart'
  BY <1>16, WorkerMoves, EndsFacts, SettleOwedSignOutsDoes DEF At, files, history, EndsOnly,
     Typed, LockHeld, WorkTyped, FilesTyped, CoreInv, Named, Apart, AtTheStore, Unkept, Moves,
     Turns, OthersStay, Stops, Idle
<1>17. ASSUME NEW s \in Slot, SettleOne(s) PROVE Apart'
  BY <1>17, WorkerMoves, EndsFacts, SettleOneTells DEF At, files, history, EndsOnly, Typed,
     LockHeld, WorkTyped, FilesTyped, CoreInv, Named, Apart, AtTheStore, Unkept, Moves, Turns,
     OthersStay, Stops, Idle
<1>18. ASSUME NEW s \in Slot, RemoveSettled(s) PROVE Apart'
  BY <1>18, WorkerMoves, EndsFacts, RemoveSettledDoes DEF At, history, EndsOnly, Typed, LockHeld,
     WorkTyped, FilesTyped, CoreInv, Named, Apart, AtTheStore, Unkept, Moves, Turns, OthersStay,
     Stops, Idle
<1>19. ASSUME NEW s \in Slot, ComeBack(s) PROVE Apart'
  BY <1>19, WorkerMoves, EndsFacts, ComeBackDoes DEF At, Free, Takes, BumpGeneration, history,
     EndsOnly, Typed, LockHeld, WorkTyped, FilesTyped, CoreInv, Named, Apart, AtTheStore, NoCred,
     Unkept, Moves, Turns, OthersStay, Stops, Idle
<1>20. ASSUME NEW s \in Slot, Refresh(s) PROVE Apart'
  BY <1>20, WorkerMoves, EndsFacts, RefreshExchanges DEF At, Holds, LetsGo, files, history,
     EndsOnly, Exchanged, Typed, LockHeld, WorkTyped, FilesTyped, CoreInv, Named, Apart,
     AtTheStore, Unkept, Moves, Turns, OthersStay, Stops, Idle
<1>21. ASSUME NEW s \in Slot, SaveNext(s) PROVE Apart'
  BY <1>21, WorkerMoves, EndsFacts, ComesToNothingDoes DEF SaveNext, At, Holds, LetsGo, Save,
     history, EndsOnly, Typed, LockHeld, WorkTyped, FilesTyped, CoreInv, Named, Apart, AtTheStore,
     Unkept, Moves, Turns, OthersStay, Stops, Idle
<1>22. ASSUME NEW s \in Slot, EraseRefused(s) PROVE Apart'
  BY <1>22, WorkerMoves, EndsFacts, ComesToNothingDoes DEF EraseRefused, At, Holds, LetsGo,
     BumpGeneration, Erase, Save, history, EndsOnly, Typed, LockHeld, WorkTyped, FilesTyped,
     CoreInv, Named, Apart, AtTheStore, NoCred, Unkept, Moves, Turns, OthersStay, Stops, Idle
<1>23. ASSUME NEW s \in Slot, Relisted(s) PROVE Apart'
  BY <1>23, WorkerMoves, EndsFacts DEF Relisted, At, files, history, EndsOnly, Typed, LockHeld,
     WorkTyped, FilesTyped, CoreInv, Named, Apart, AtTheStore, Unkept, Moves, Turns, OthersStay,
     Stops, Idle
<1>24. ASSUME NEW s \in Slot, Drop(s) PROVE Apart'
  BY <1>24, WorkerMoves, EndsFacts, DropDoes DEF At, Goes, Stays, files, history, EndsOnly, Typed,
     LockHeld, WorkTyped, FilesTyped, CoreInv, Named, Apart, AtTheStore, Unkept, Moves, Turns,
     OthersStay, Stops, Idle
<1>25. ASSUME NEW s \in Slot, SignOut(s) PROVE Apart'
  BY <1>25, WorkerMoves, EndsFacts, AsksDo DEF At, Free, BumpGeneration, Overtakes, history,
     EndsOnly, Typed, LockHeld, WorkTyped, FilesTyped, CoreInv, Named, Apart, AtTheStore, Unkept,
     Moves, Turns, OthersStay, Stops, Idle
<1>26. ASSUME NEW s \in Slot, Retire(s) PROVE Apart'
  BY <1>26, WorkerMoves, EndsFacts, RetireTakes DEF At, Holds, EndsOnly, Typed, LockHeld,
     WorkTyped, FilesTyped, CoreInv, Named, Apart, AtTheStore, NoCred, Unkept, Moves, Turns,
     OthersStay, Stops, Idle
<1>27. ASSUME NEW s \in Slot, EraseRetired(s) PROVE Apart'
  BY <1>27, WorkerMoves, EndsFacts DEF EraseRetired, At, Holds, LetsGo, Erase, Save, EndsOnly,
     Typed, LockHeld, WorkTyped, FilesTyped, CoreInv, Named, Apart, AtTheStore, NoCred, Unkept,
     Moves, Turns, OthersStay, Stops, Idle
<1>28. ASSUME NEW s \in Slot, TellSignOut(s) PROVE Apart'
  BY <1>28, WorkerMoves, EndsFacts, TellSignOutTells DEF files, history, EndsOnly, Typed,
     LockHeld, WorkTyped, FilesTyped, CoreInv, Named, Apart, AtTheStore, Unkept, Moves, Turns,
     OthersStay, Stops, Idle
<1>29. ASSUME NEW s \in Slot, ClearRecord(s) PROVE Apart'
  BY <1>29, WorkerMoves, EndsFacts DEF ClearRecord, At, Free, Busy, history, EndsOnly, Typed,
     LockHeld, WorkTyped, FilesTyped, CoreInv, Named, Apart, AtTheStore, Unkept, Moves, Turns,
     OthersStay, Stops, Idle
<1>30. ASSUME NEW s \in Slot, EraseEnded(s) PROVE Apart'
  BY <1>30, WorkerMoves, EndsFacts DEF EraseEnded, At, Free, Busy, Erase, Save, EndsOnly, Typed,
     LockHeld, WorkTyped, FilesTyped, CoreInv, Named, Apart, AtTheStore, NoCred, Unkept, Moves,
     Turns, OthersStay, Stops, Idle
<1>31. ASSUME NEW w \in Window, Crash(w) PROVE Apart'
  BY <1>31, WorkerMoves, EndsFacts, CrashDoes DEF files, EndsOnly, Typed, LockHeld, WorkTyped,
     FilesTyped, CoreInv, Named, Apart, AtTheStore, Unkept, Moves, Turns, OthersStay, Stops, Idle
<1>32. ASSUME NEW w \in Window, CloseWindow(w) PROVE Apart'
  BY <1>32, WorkerMoves, EndsFacts DEF CloseWindow, files, history, EndsOnly, Typed, LockHeld,
     WorkTyped, FilesTyped, CoreInv, Named, Apart, AtTheStore, Unkept, Moves, Turns, OthersStay,
     Stops, Idle
<1>33. CASE Tick
  BY <1>33, WorkerMoves, EndsFacts DEF Tick, files, history, EndsOnly, Typed, LockHeld, WorkTyped,
     FilesTyped, CoreInv, Named, Apart, AtTheStore, Unkept, Moves, Turns, OthersStay, Stops, Idle
<1>34. ASSUME NEW d \in Device, EndElsewhere(d) PROVE Apart'
  BY <1>34, WorkerMoves, EndsFacts DEF EndElsewhere, files, history, EndsOnly, Typed, LockHeld,
     WorkTyped, FilesTyped, CoreInv, Named, Apart, AtTheStore, Unkept, Moves, Turns, OthersStay,
     Stops, Idle
<1>35. ASSUME NEW d \in Device, NEW n \in 1 .. MaxCred, LateRefresh(d, n) PROVE Apart'
  BY <1>35, WorkerMoves, EndsFacts DEF LateRefresh, files, history, EndsOnly, Typed, LockHeld,
     WorkTyped, FilesTyped, CoreInv, Named, Apart, AtTheStore, Unkept, Moves, Turns, OthersStay,
     Stops, Idle
<1>36. ASSUME NEW a \in Account, DisableAccount(a) PROVE Apart'
  BY <1>36, WorkerMoves, EndsFacts DEF DisableAccount, Fault, files, history, EndsOnly, Typed, LockHeld,
     WorkTyped, FilesTyped, CoreInv, Named, Apart, AtTheStore, Unkept, Moves, Turns, OthersStay,
     Stops, Idle
<1>37. ASSUME NEW a \in Account, EnableAccount(a) PROVE Apart'
  BY <1>37, WorkerMoves, EndsFacts DEF EnableAccount, files, history, EndsOnly, Typed, LockHeld,
     WorkTyped, FilesTyped, CoreInv, Named, Apart, AtTheStore, Unkept, Moves, Turns, OthersStay,
     Stops, Idle
<1>38. CASE UNCHANGED vars
  BY <1>38 DEF vars, directory, files, history, user, Typed, LockHeld, WorkTyped, FilesTyped,
     CoreInv, Named, Apart, AtTheStore, Unkept
<1> QED
  BY <1>1, <1>2, <1>3, <1>4, <1>5, <1>6, <1>7, <1>8, <1>9, <1>10, <1>11, <1>12, <1>13, <1>14,
     <1>15, <1>16, <1>17, <1>18, <1>19, <1>20, <1>21, <1>22, <1>23, <1>24, <1>25, <1>26, <1>27,
     <1>28, <1>29, <1>30, <1>31, <1>32, <1>33, <1>34, <1>35, <1>36, <1>37, <1>38
     DEF Next, User, Worker, World

(* Who comes back has the lock, and nobody else changes what is stored. *)
LEMMA AtTheStoreStep ==
  ASSUME Typed, CoreInv, [Next]_vars
  PROVE  AtTheStore'
<1>1. ASSUME NEW s \in Slot, NEW w \in Window, NEW a \in Account, BeginLogin(s, w, a)
      PROVE  AtTheStore'
  <2>1. Begins(s, "begin", w, a)
    BY <1>1, BeginsDo DEF Typed
  <2>2. EndsOnly /\ work[s].at = "idle" /\ UNCHANGED <<cred, owed, aside, disowned>>
    BY <2>1, EndsFacts DEF At, Begins, files, history
  <2>3. Launches(s, "begin", w, a)
    BY <2>1 DEF Begins
  <2> QED BY <2>2, <2>3 DEF EndsOnly, Launches, Stays, Typed, LockHeld, Locked, WorkTyped,
         FilesTyped, CoreInv, AtTheStore
<1>2. ASSUME NEW s \in Slot, NEW w \in Window, BeginAutoLogin(s, w) PROVE AtTheStore'
  <2>1. Begins(s, "settle", w, None)
    BY <1>2, BeginsDo DEF Typed
  <2>2. EndsOnly /\ work[s].at = "idle" /\ UNCHANGED <<cred, owed, aside, disowned>>
    BY <2>1, EndsFacts DEF At, Begins, files, history
  <2>3. Launches(s, "settle", w, None)
    BY <2>1 DEF Begins
  <2> QED BY <2>2, <2>3 DEF EndsOnly, Launches, Stays, Typed, LockHeld, Locked, WorkTyped,
         FilesTyped, CoreInv, AtTheStore
<1>3. ASSUME NEW s \in Slot, NEW w \in Window, BeginRefreshHosts(s, w) PROVE AtTheStore'
  <2>1. Begins(s, "come_back", w, win[w].account)
    BY <1>3, BeginsDo DEF Typed
  <2>2. EndsOnly /\ work[s].at = "idle" /\ UNCHANGED <<cred, owed, aside, disowned>>
    BY <2>1, EndsFacts DEF At, Begins, files, history
  <2>3. Launches(s, "come_back", w, win[w].account)
    BY <2>1 DEF Begins
  <2> QED BY <2>2, <2>3 DEF EndsOnly, Launches, Stays, Typed, LockHeld, Locked, WorkTyped,
         FilesTyped, CoreInv, AtTheStore
<1>4. ASSUME NEW s \in Slot, NEW w \in Window, BeginSignOut(s, w) PROVE AtTheStore'
  <2>1. Begins(s, "sign_out", w, None)
    BY <1>4, BeginsDo DEF Typed
  <2>2. EndsOnly /\ work[s].at = "idle" /\ UNCHANGED <<cred, owed, aside, disowned>>
    BY <2>1, EndsFacts DEF At, Begins, files, history
  <2>3. Launches(s, "sign_out", w, None)
    BY <2>1 DEF Begins
  <2> QED BY <2>2, <2>3 DEF EndsOnly, Launches, Stays, Typed, LockHeld, Locked, WorkTyped,
         FilesTyped, CoreInv, AtTheStore
<1>5. ASSUME NEW s \in Slot, BeginSignIn(s) PROVE AtTheStore'
  BY <1>5, WorkerMoves, EndsFacts, AsksDo DEF At, Free, BumpGeneration, Overtakes, history,
     EndsOnly, Typed, LockHeld, Locked, WorkTyped, FilesTyped, CoreInv, AtTheStore, Moves, Turns,
     OthersStay, Stops, Idle
<1>6. ASSUME NEW s \in Slot, DirectoryLogin(s) PROVE AtTheStore'
  BY <1>6, WorkerMoves, EndsFacts, LoginJoins DEF files, EndsOnly, Joins, Typed, LockHeld, Locked,
     WorkTyped, FilesTyped, CoreInv, AtTheStore, Moves, Turns, OthersStay, Stops, Idle
<1>7. ASSUME NEW s \in Slot, Listed(s) PROVE AtTheStore'
  BY <1>7, WorkerMoves, EndsFacts, NotKeptDoes DEF Listed, At, files, history, EndsOnly, Typed,
     LockHeld, Locked, WorkTyped, FilesTyped, CoreInv, AtTheStore, Moves, Turns, OthersStay,
     Stops, Idle
<1>8. ASSUME NEW s \in Slot, Remember(s) PROVE AtTheStore'
  BY <1>8, WorkerMoves, EndsFacts, NotKeptDoes DEF Remember, At, Free, Takes, history, EndsOnly,
     Typed, LockHeld, Locked, WorkTyped, FilesTyped, CoreInv, AtTheStore, Moves, Turns,
     OthersStay, Stops, Idle
<1>9. ASSUME NEW s \in Slot, Replace(s) PROVE AtTheStore'
  BY <1>9, WorkerMoves, EndsFacts, ReplaceTakes DEF At, Holds, history, EndsOnly, Typed, LockHeld,
     Locked, WorkTyped, FilesTyped, CoreInv, AtTheStore, Moves, Turns, OthersStay, Stops, Idle
<1>10. ASSUME NEW s \in Slot, TellPrevious(s) PROVE AtTheStore'
  BY <1>10, WorkerMoves, EndsFacts, TellPreviousTells DEF At, files, history, EndsOnly, Typed,
     LockHeld, Locked, WorkTyped, FilesTyped, CoreInv, AtTheStore, Moves, Turns, OthersStay,
     Stops, Idle
<1>11. ASSUME NEW s \in Slot, BumpBeforeKeeping(s) PROVE AtTheStore'
  BY <1>11, WorkerMoves, EndsFacts, NotKeptDoes DEF BumpBeforeKeeping, At, Holds, LetsGo,
     BumpGeneration, history, EndsOnly, Typed, LockHeld, Locked, WorkTyped, FilesTyped, CoreInv,
     AtTheStore, Moves, Turns, OthersStay, Stops, Idle
<1>12. ASSUME NEW s \in Slot, Keep(s) PROVE AtTheStore'
  BY <1>12, WorkerMoves, EndsFacts, NotKeptDoes DEF Keep, At, Holds, LetsGo, Save, EndsOnly,
     Typed, LockHeld, Locked, WorkTyped, FilesTyped, CoreInv, AtTheStore, NoCred, Moves, Turns,
     OthersStay, Stops, Idle
<1>13. ASSUME NEW s \in Slot, EndUnkeptDevice(s) PROVE AtTheStore'
  BY <1>13, WorkerMoves, EndsFacts, EndUnkeptDeviceTells DEF At, files, history, EndsOnly, Typed,
     LockHeld, Locked, WorkTyped, FilesTyped, CoreInv, AtTheStore, Moves, Turns, OthersStay,
     Stops, Idle
<1>14. ASSUME NEW s \in Slot, RecordUnkeptDevice(s) PROVE AtTheStore'
  BY <1>14, WorkerMoves, EndsFacts, RecordUnkeptDeviceTakes DEF At, EndsOnly, Typed, LockHeld,
     Locked, WorkTyped, FilesTyped, CoreInv, AtTheStore, Moves, Turns, OthersStay, Stops, Idle
<1>15. ASSUME NEW s \in Slot, Adopt(s) PROVE AtTheStore'
  BY <1>15, WorkerMoves, EndsFacts DEF Adopt, At, files, history, EndsOnly, Typed, LockHeld,
     Locked, WorkTyped, FilesTyped, CoreInv, AtTheStore, Moves, Turns, OthersStay, Stops, Idle
<1>16. ASSUME NEW s \in Slot, SettleOwedSignOuts(s) PROVE AtTheStore'
  BY <1>16, WorkerMoves, EndsFacts, SettleOwedSignOutsDoes DEF At, files, history, EndsOnly,
     Typed, LockHeld, Locked, WorkTyped, FilesTyped, CoreInv, AtTheStore, Moves, Turns,
     OthersStay, Stops, Idle
<1>17. ASSUME NEW s \in Slot, SettleOne(s) PROVE AtTheStore'
  BY <1>17, WorkerMoves, EndsFacts, SettleOneTells DEF At, files, history, EndsOnly, Typed,
     LockHeld, Locked, WorkTyped, FilesTyped, CoreInv, AtTheStore, Moves, Turns, OthersStay,
     Stops, Idle
<1>18. ASSUME NEW s \in Slot, RemoveSettled(s) PROVE AtTheStore'
  BY <1>18, WorkerMoves, EndsFacts, RemoveSettledDoes DEF At, history, EndsOnly, Typed, LockHeld,
     Locked, WorkTyped, FilesTyped, CoreInv, AtTheStore, Moves, Turns, OthersStay, Stops, Idle
<1>19. ASSUME NEW s \in Slot, ComeBack(s) PROVE AtTheStore'
  <2>1. Free => \A r \in Slot : work[r].at \notin Locked
    BY LoginFlowAssumption DEF Free, Typed, LockHeld
  <2>2. \/ /\ Moves(s, "come_back") \/ Moves(s, "drop") \/ Stops(s)
           /\ cred' = cred \/ Free
        \/ /\ cred' = cred
           /\ Turns(s, "refresh", cred.dev, cred.n, cred.account, work[s].other,
                    work[s].ended, work[s].queue)
    BY <1>19, ComeBackDoes DEF Typed
  <2> QED BY <2>1, <2>2
          DEF CoreInv, AtTheStore, Locked, Moves, Turns, OthersStay, Stops, Idle
<1>20. ASSUME NEW s \in Slot, Refresh(s) PROVE AtTheStore'
  BY <1>20, WorkerMoves, EndsFacts, RefreshExchanges DEF At, Holds, LetsGo, files, history,
     EndsOnly, Exchanged, Typed, LockHeld, Locked, WorkTyped, FilesTyped, CoreInv, AtTheStore,
     Moves, Turns, OthersStay, Stops, Idle
<1>21. ASSUME NEW s \in Slot, SaveNext(s) PROVE AtTheStore'
  BY <1>21, WorkerMoves, EndsFacts, ComesToNothingDoes DEF SaveNext, At, Holds, LetsGo, Save,
     history, EndsOnly, Typed, LockHeld, Locked, WorkTyped, FilesTyped, CoreInv, AtTheStore,
     Moves, Turns, OthersStay, Stops, Idle
<1>22. ASSUME NEW s \in Slot, EraseRefused(s) PROVE AtTheStore'
  BY <1>22, WorkerMoves, EndsFacts, ComesToNothingDoes DEF EraseRefused, At, Holds, LetsGo,
     BumpGeneration, Erase, Save, history, EndsOnly, Typed, LockHeld, Locked, WorkTyped,
     FilesTyped, CoreInv, AtTheStore, NoCred, Moves, Turns, OthersStay, Stops, Idle
<1>23. ASSUME NEW s \in Slot, Relisted(s) PROVE AtTheStore'
  BY <1>23, WorkerMoves, EndsFacts DEF Relisted, At, files, history, EndsOnly, Typed, LockHeld,
     Locked, WorkTyped, FilesTyped, CoreInv, AtTheStore, Moves, Turns, OthersStay, Stops, Idle
<1>24. ASSUME NEW s \in Slot, Drop(s) PROVE AtTheStore'
  BY <1>24, WorkerMoves, EndsFacts, DropDoes DEF At, Goes, Stays, files, history, EndsOnly, Typed,
     LockHeld, Locked, WorkTyped, FilesTyped, CoreInv, AtTheStore, Moves, Turns, OthersStay,
     Stops, Idle
<1>25. ASSUME NEW s \in Slot, SignOut(s) PROVE AtTheStore'
  BY <1>25, WorkerMoves, EndsFacts, AsksDo DEF At, Free, BumpGeneration, Overtakes, history,
     EndsOnly, Typed, LockHeld, Locked, WorkTyped, FilesTyped, CoreInv, AtTheStore, Moves, Turns,
     OthersStay, Stops, Idle
<1>26. ASSUME NEW s \in Slot, Retire(s) PROVE AtTheStore'
  BY <1>26, WorkerMoves, EndsFacts, RetireTakes DEF At, Holds, EndsOnly, Typed, LockHeld, Locked,
     WorkTyped, FilesTyped, CoreInv, AtTheStore, NoCred, Moves, Turns, OthersStay, Stops, Idle
<1>27. ASSUME NEW s \in Slot, EraseRetired(s) PROVE AtTheStore'
  BY <1>27, WorkerMoves, EndsFacts DEF EraseRetired, At, Holds, LetsGo, Erase, Save, EndsOnly,
     Typed, LockHeld, Locked, WorkTyped, FilesTyped, CoreInv, AtTheStore, NoCred, Moves, Turns,
     OthersStay, Stops, Idle
<1>28. ASSUME NEW s \in Slot, TellSignOut(s) PROVE AtTheStore'
  BY <1>28, WorkerMoves, EndsFacts, TellSignOutTells DEF files, history, EndsOnly, Typed,
     LockHeld, Locked, WorkTyped, FilesTyped, CoreInv, AtTheStore, Moves, Turns, OthersStay,
     Stops, Idle
<1>29. ASSUME NEW s \in Slot, ClearRecord(s) PROVE AtTheStore'
  BY <1>29, WorkerMoves, EndsFacts DEF ClearRecord, At, Free, Busy, history, EndsOnly, Typed,
     LockHeld, Locked, WorkTyped, FilesTyped, CoreInv, AtTheStore, Moves, Turns, OthersStay,
     Stops, Idle
<1>30. ASSUME NEW s \in Slot, EraseEnded(s) PROVE AtTheStore'
  <2>1. Free => \A r \in Slot : work[r].at \notin Locked
    BY LoginFlowAssumption DEF Free, Typed, LockHeld
  <2>2. Stops(s) /\ (cred' = cred \/ Free)
    BY <1>30, WorkerMoves DEF EraseEnded, Erase, Save, Typed
  <2> QED BY <2>1, <2>2 DEF CoreInv, AtTheStore, Locked, OthersStay, Stops, Idle
<1>31. ASSUME NEW w \in Window, Crash(w) PROVE AtTheStore'
  BY <1>31, WorkerMoves, EndsFacts, CrashDoes DEF files, EndsOnly, Typed, LockHeld, Locked,
     WorkTyped, FilesTyped, CoreInv, AtTheStore, Moves, Turns, OthersStay, Stops, Idle
<1>32. ASSUME NEW w \in Window, CloseWindow(w) PROVE AtTheStore'
  BY <1>32, WorkerMoves, EndsFacts DEF CloseWindow, files, history, EndsOnly, Typed, LockHeld,
     Locked, WorkTyped, FilesTyped, CoreInv, AtTheStore, Moves, Turns, OthersStay, Stops, Idle
<1>33. CASE Tick
  BY <1>33, WorkerMoves, EndsFacts DEF Tick, files, history, EndsOnly, Typed, LockHeld, Locked,
     WorkTyped, FilesTyped, CoreInv, AtTheStore, Moves, Turns, OthersStay, Stops, Idle
<1>34. ASSUME NEW d \in Device, EndElsewhere(d) PROVE AtTheStore'
  BY <1>34, WorkerMoves, EndsFacts DEF EndElsewhere, files, history, EndsOnly, Typed, LockHeld,
     Locked, WorkTyped, FilesTyped, CoreInv, AtTheStore, Moves, Turns, OthersStay, Stops, Idle
<1>35. ASSUME NEW d \in Device, NEW n \in 1 .. MaxCred, LateRefresh(d, n) PROVE AtTheStore'
  BY <1>35, WorkerMoves, EndsFacts DEF LateRefresh, files, history, EndsOnly, Typed, LockHeld,
     Locked, WorkTyped, FilesTyped, CoreInv, AtTheStore, Moves, Turns, OthersStay, Stops, Idle
<1>36. ASSUME NEW a \in Account, DisableAccount(a) PROVE AtTheStore'
  BY <1>36, WorkerMoves, EndsFacts DEF DisableAccount, Fault, files, history, EndsOnly, Typed, LockHeld,
     Locked, WorkTyped, FilesTyped, CoreInv, AtTheStore, Moves, Turns, OthersStay, Stops, Idle
<1>37. ASSUME NEW a \in Account, EnableAccount(a) PROVE AtTheStore'
  BY <1>37, WorkerMoves, EndsFacts DEF EnableAccount, files, history, EndsOnly, Typed, LockHeld,
     Locked, WorkTyped, FilesTyped, CoreInv, AtTheStore, Moves, Turns, OthersStay, Stops, Idle
<1>38. CASE UNCHANGED vars
  BY <1>38 DEF vars, directory, files, history, user, Typed, LockHeld, Locked, WorkTyped,
     FilesTyped, CoreInv, AtTheStore
<1> QED
  BY <1>1, <1>2, <1>3, <1>4, <1>5, <1>6, <1>7, <1>8, <1>9, <1>10, <1>11, <1>12, <1>13, <1>14,
     <1>15, <1>16, <1>17, <1>18, <1>19, <1>20, <1>21, <1>22, <1>23, <1>24, <1>25, <1>26, <1>27,
     <1>28, <1>29, <1>30, <1>31, <1>32, <1>33, <1>34, <1>35, <1>36, <1>37, <1>38
     DEF Next, User, Worker, World

(* A credential is stored by the worker that has it. *)
LEMMA KnownMovesStep ==
  ASSUME Typed, [Next]_vars
  PROVE  EndsOnly => KnownMoves
<1>1. ASSUME NEW s \in Slot, NEW w \in Window, NEW a \in Account, BeginLogin(s, w, a)
      PROVE  EndsOnly => KnownMoves
  <2>1. Begins(s, "begin", w, a)
    BY <1>1, BeginsDo DEF Typed
  <2>2. EndsOnly /\ work[s].at = "idle" /\ UNCHANGED <<cred, owed, aside, disowned>>
    BY <2>1, EndsFacts DEF At, Begins, files, history
  <2>3. Launches(s, "begin", w, a)
    BY <2>1 DEF Begins
  <2> QED BY <2>2, <2>3 DEF EndsOnly, Launches, Stays, KnownMoves, Typed, WorkTyped, WorkerShape,
         FilesTyped, Unkept, Knowing
<1>2. ASSUME NEW s \in Slot, NEW w \in Window, BeginAutoLogin(s, w) PROVE EndsOnly => KnownMoves
  <2>1. Begins(s, "settle", w, None)
    BY <1>2, BeginsDo DEF Typed
  <2>2. EndsOnly /\ work[s].at = "idle" /\ UNCHANGED <<cred, owed, aside, disowned>>
    BY <2>1, EndsFacts DEF At, Begins, files, history
  <2>3. Launches(s, "settle", w, None)
    BY <2>1 DEF Begins
  <2> QED BY <2>2, <2>3 DEF EndsOnly, Launches, Stays, KnownMoves, Typed, WorkTyped, WorkerShape,
         FilesTyped, Unkept, Knowing
<1>3. ASSUME NEW s \in Slot, NEW w \in Window, BeginRefreshHosts(s, w)
      PROVE  EndsOnly => KnownMoves
  <2>1. Begins(s, "come_back", w, win[w].account)
    BY <1>3, BeginsDo DEF Typed
  <2>2. EndsOnly /\ work[s].at = "idle" /\ UNCHANGED <<cred, owed, aside, disowned>>
    BY <2>1, EndsFacts DEF At, Begins, files, history
  <2>3. Launches(s, "come_back", w, win[w].account)
    BY <2>1 DEF Begins
  <2> QED BY <2>2, <2>3 DEF EndsOnly, Launches, Stays, KnownMoves, Typed, WorkTyped, WorkerShape,
         FilesTyped, Unkept, Knowing
<1>4. ASSUME NEW s \in Slot, NEW w \in Window, BeginSignOut(s, w) PROVE EndsOnly => KnownMoves
  <2>1. Begins(s, "sign_out", w, None)
    BY <1>4, BeginsDo DEF Typed
  <2>2. EndsOnly /\ work[s].at = "idle" /\ UNCHANGED <<cred, owed, aside, disowned>>
    BY <2>1, EndsFacts DEF At, Begins, files, history
  <2>3. Launches(s, "sign_out", w, None)
    BY <2>1 DEF Begins
  <2> QED BY <2>2, <2>3 DEF EndsOnly, Launches, Stays, KnownMoves, Typed, WorkTyped, WorkerShape,
         FilesTyped, Unkept, Knowing
<1>5. ASSUME NEW s \in Slot, BeginSignIn(s) PROVE EndsOnly => KnownMoves
  BY <1>5, WorkerMoves, EndsFacts, AsksDo DEF At, Free, BumpGeneration, Overtakes, history,
     EndsOnly, KnownMoves, Typed, WorkTyped, WorkerShape, FilesTyped, Unkept, Knowing, Moves,
     Turns, OthersStay, Stops, Idle
<1>6. ASSUME NEW s \in Slot, DirectoryLogin(s) PROVE EndsOnly => KnownMoves
  <2> SUFFICES ASSUME EndsOnly PROVE KnownMoves
    OBVIOUS
  <2>1. cred' = cred /\ ((Moves(s, "listed") /\ At(s, "login")) \/ Stops(s))
    BY <1>6, LoginJoins, DirectoryLoginDoes DEF EndsOnly, Joins, Typed, files
  <2>2. work[s].at = "login" => work[s].dev = None
    BY DEF Typed, WorkTyped, WorkerShape
  <2> QED BY <2>1, <2>2 DEF At, KnownMoves, Knowing, Unkept, Moves, Turns, OthersStay, Stops, Idle
<1>7. ASSUME NEW s \in Slot, Listed(s) PROVE EndsOnly => KnownMoves
  BY <1>7, WorkerMoves, EndsFacts, NotKeptDoes DEF Listed, At, files, history, EndsOnly,
     KnownMoves, Typed, WorkTyped, WorkerShape, FilesTyped, Unkept, Knowing, Moves, Turns,
     OthersStay, Stops, Idle
<1>8. ASSUME NEW s \in Slot, Remember(s) PROVE EndsOnly => KnownMoves
  BY <1>8, WorkerMoves, EndsFacts, NotKeptDoes DEF Remember, At, Free, Takes, history, EndsOnly,
     KnownMoves, Typed, WorkTyped, WorkerShape, FilesTyped, Unkept, Knowing, Moves, Turns,
     OthersStay, Stops, Idle
<1>9. ASSUME NEW s \in Slot, Replace(s) PROVE EndsOnly => KnownMoves
  BY <1>9, WorkerMoves, EndsFacts, ReplaceTakes DEF At, Holds, history, EndsOnly, KnownMoves,
     Typed, WorkTyped, WorkerShape, FilesTyped, Unkept, Knowing, Moves, Turns, OthersStay, Stops,
     Idle
<1>10. ASSUME NEW s \in Slot, TellPrevious(s) PROVE EndsOnly => KnownMoves
  BY <1>10, WorkerMoves, EndsFacts, TellPreviousTells DEF At, files, history, EndsOnly,
     KnownMoves, Typed, WorkTyped, WorkerShape, FilesTyped, Unkept, Knowing, Moves, Turns,
     OthersStay, Stops, Idle
<1>11. ASSUME NEW s \in Slot, BumpBeforeKeeping(s) PROVE EndsOnly => KnownMoves
  BY <1>11, WorkerMoves, EndsFacts, NotKeptDoes DEF BumpBeforeKeeping, At, Holds, LetsGo,
     BumpGeneration, history, EndsOnly, KnownMoves, Typed, WorkTyped, WorkerShape, FilesTyped,
     Unkept, Knowing, Moves, Turns, OthersStay, Stops, Idle
<1>12. ASSUME NEW s \in Slot, Keep(s) PROVE EndsOnly => KnownMoves
  BY <1>12, WorkerMoves, EndsFacts, NotKeptDoes DEF Keep, At, Holds, LetsGo, Save, EndsOnly,
     KnownMoves, Typed, WorkTyped, WorkerShape, FilesTyped, NoCred, Unkept, Knowing, Moves, Turns,
     OthersStay, Stops, Idle
<1>13. ASSUME NEW s \in Slot, EndUnkeptDevice(s) PROVE EndsOnly => KnownMoves
  BY <1>13, WorkerMoves, EndsFacts, EndUnkeptDeviceTells DEF At, files, history, EndsOnly,
     KnownMoves, Typed, WorkTyped, WorkerShape, FilesTyped, Unkept, Knowing, Moves, Turns,
     OthersStay, Stops, Idle
<1>14. ASSUME NEW s \in Slot, RecordUnkeptDevice(s) PROVE EndsOnly => KnownMoves
  BY <1>14, WorkerMoves, EndsFacts, RecordUnkeptDeviceTakes DEF At, EndsOnly, KnownMoves, Typed,
     WorkTyped, WorkerShape, FilesTyped, Unkept, Knowing, Moves, Turns, OthersStay, Stops, Idle
<1>15. ASSUME NEW s \in Slot, Adopt(s) PROVE EndsOnly => KnownMoves
  BY <1>15, WorkerMoves, EndsFacts DEF Adopt, At, files, history, EndsOnly, KnownMoves, Typed,
     WorkTyped, WorkerShape, FilesTyped, Unkept, Knowing, Moves, Turns, OthersStay, Stops, Idle
<1>16. ASSUME NEW s \in Slot, SettleOwedSignOuts(s) PROVE EndsOnly => KnownMoves
  BY <1>16, WorkerMoves, EndsFacts, SettleOwedSignOutsDoes DEF At, files, history, EndsOnly,
     KnownMoves, Typed, WorkTyped, WorkerShape, FilesTyped, Unkept, Knowing, Moves, Turns,
     OthersStay, Stops, Idle
<1>17. ASSUME NEW s \in Slot, SettleOne(s) PROVE EndsOnly => KnownMoves
  BY <1>17, WorkerMoves, EndsFacts, SettleOneTells DEF At, files, history, EndsOnly, KnownMoves,
     Typed, WorkTyped, WorkerShape, FilesTyped, Unkept, Knowing, Moves, Turns, OthersStay, Stops,
     Idle
<1>18. ASSUME NEW s \in Slot, RemoveSettled(s) PROVE EndsOnly => KnownMoves
  BY <1>18, WorkerMoves, EndsFacts, RemoveSettledDoes DEF At, history, EndsOnly, KnownMoves,
     Typed, WorkTyped, WorkerShape, FilesTyped, Unkept, Knowing, Moves, Turns, OthersStay, Stops,
     Idle
<1>19. ASSUME NEW s \in Slot, ComeBack(s) PROVE EndsOnly => KnownMoves
  BY <1>19, WorkerMoves, EndsFacts, ComeBackDoes DEF At, Free, Takes, BumpGeneration, history,
     EndsOnly, KnownMoves, Typed, WorkTyped, WorkerShape, FilesTyped, NoCred, Unkept, Knowing,
     Moves, Turns, OthersStay, Stops, Idle
<1>20. ASSUME NEW s \in Slot, Refresh(s) PROVE EndsOnly => KnownMoves
  <2> SUFFICES ASSUME EndsOnly PROVE KnownMoves
    OBVIOUS
  <2>1. work[s].dev \in Device /\ cred' = cred
    BY <1>20, RefreshExchanges DEF files
  <2>2. devices[work[s].dev].cred \in Nat
    BY <2>1 DEF Typed, DirectoryTyped, DeviceRecord
  <2>3. ~Exchanged(s, TRUE)
    BY <2>1, <2>2 DEF EndsOnly, Exchanged
  <2>4. \/ Moves(s, "refused") \/ Moves(s, "come_back") \/ Moves(s, "drop") \/ Stops(s)
    BY <1>20, <2>3, RefreshExchanges
  <2> QED BY <2>1, <2>4 DEF KnownMoves, Knowing, Unkept, Moves, Turns, OthersStay, Stops, Idle
<1>21. ASSUME NEW s \in Slot, SaveNext(s) PROVE EndsOnly => KnownMoves
  BY <1>21, WorkerMoves, EndsFacts, ComesToNothingDoes DEF SaveNext, At, Holds, LetsGo, Save,
     history, EndsOnly, KnownMoves, Typed, WorkTyped, WorkerShape, FilesTyped, Unkept, Knowing,
     Moves, Turns, OthersStay, Stops, Idle
<1>22. ASSUME NEW s \in Slot, EraseRefused(s) PROVE EndsOnly => KnownMoves
  BY <1>22, WorkerMoves, EndsFacts, ComesToNothingDoes DEF EraseRefused, At, Holds, LetsGo,
     BumpGeneration, Erase, Save, history, EndsOnly, KnownMoves, Typed, WorkTyped, WorkerShape,
     FilesTyped, NoCred, Unkept, Knowing, Moves, Turns, OthersStay, Stops, Idle
<1>23. ASSUME NEW s \in Slot, Relisted(s) PROVE EndsOnly => KnownMoves
  BY <1>23, WorkerMoves, EndsFacts DEF Relisted, At, files, history, EndsOnly, KnownMoves, Typed,
     WorkTyped, WorkerShape, FilesTyped, Unkept, Knowing, Moves, Turns, OthersStay, Stops, Idle
<1>24. ASSUME NEW s \in Slot, Drop(s) PROVE EndsOnly => KnownMoves
  BY <1>24, WorkerMoves, EndsFacts, DropDoes DEF At, Goes, Stays, files, history, EndsOnly,
     KnownMoves, Typed, WorkTyped, WorkerShape, FilesTyped, Unkept, Knowing, Moves, Turns,
     OthersStay, Stops, Idle
<1>25. ASSUME NEW s \in Slot, SignOut(s) PROVE EndsOnly => KnownMoves
  BY <1>25, WorkerMoves, EndsFacts, AsksDo DEF At, Free, BumpGeneration, Overtakes, history,
     EndsOnly, KnownMoves, Typed, WorkTyped, WorkerShape, FilesTyped, Unkept, Knowing, Moves,
     Turns, OthersStay, Stops, Idle
<1>26. ASSUME NEW s \in Slot, Retire(s) PROVE EndsOnly => KnownMoves
  BY <1>26, WorkerMoves, EndsFacts, RetireTakes DEF At, Holds, EndsOnly, KnownMoves, Typed,
     WorkTyped, WorkerShape, FilesTyped, NoCred, Unkept, Knowing, Moves, Turns, OthersStay, Stops,
     Idle
<1>27. ASSUME NEW s \in Slot, EraseRetired(s) PROVE EndsOnly => KnownMoves
  BY <1>27, WorkerMoves, EndsFacts DEF EraseRetired, At, Holds, LetsGo, Erase, Save, EndsOnly,
     KnownMoves, Typed, WorkTyped, WorkerShape, FilesTyped, NoCred, Unkept, Knowing, Moves, Turns,
     OthersStay, Stops, Idle
<1>28. ASSUME NEW s \in Slot, TellSignOut(s) PROVE EndsOnly => KnownMoves
  BY <1>28, WorkerMoves, EndsFacts, TellSignOutTells DEF files, history, EndsOnly, KnownMoves,
     Typed, WorkTyped, WorkerShape, FilesTyped, Unkept, Knowing, Moves, Turns, OthersStay, Stops,
     Idle
<1>29. ASSUME NEW s \in Slot, ClearRecord(s) PROVE EndsOnly => KnownMoves
  BY <1>29, WorkerMoves, EndsFacts DEF ClearRecord, At, Free, Busy, history, EndsOnly, KnownMoves,
     Typed, WorkTyped, WorkerShape, FilesTyped, Unkept, Knowing, Moves, Turns, OthersStay, Stops,
     Idle
<1>30. ASSUME NEW s \in Slot, EraseEnded(s) PROVE EndsOnly => KnownMoves
  BY <1>30, WorkerMoves, EndsFacts DEF EraseEnded, At, Free, Busy, Erase, Save, EndsOnly,
     KnownMoves, Typed, WorkTyped, WorkerShape, FilesTyped, NoCred, Unkept, Knowing, Moves, Turns,
     OthersStay, Stops, Idle
<1>31. ASSUME NEW w \in Window, Crash(w) PROVE EndsOnly => KnownMoves
  BY <1>31, WorkerMoves, EndsFacts, CrashDoes DEF files, EndsOnly, KnownMoves, Typed, WorkTyped,
     WorkerShape, FilesTyped, Unkept, Knowing, Moves, Turns, OthersStay, Stops, Idle
<1>32. ASSUME NEW w \in Window, CloseWindow(w) PROVE EndsOnly => KnownMoves
  BY <1>32, WorkerMoves, EndsFacts DEF CloseWindow, files, history, EndsOnly, KnownMoves, Typed,
     WorkTyped, WorkerShape, FilesTyped, Unkept, Knowing, Moves, Turns, OthersStay, Stops, Idle
<1>33. CASE Tick
  BY <1>33, WorkerMoves, EndsFacts DEF Tick, files, history, EndsOnly, KnownMoves, Typed,
     WorkTyped, WorkerShape, FilesTyped, Unkept, Knowing, Moves, Turns, OthersStay, Stops, Idle
<1>34. ASSUME NEW d \in Device, EndElsewhere(d) PROVE EndsOnly => KnownMoves
  BY <1>34, WorkerMoves, EndsFacts DEF EndElsewhere, files, history, EndsOnly, KnownMoves, Typed,
     WorkTyped, WorkerShape, FilesTyped, Unkept, Knowing, Moves, Turns, OthersStay, Stops, Idle
<1>35. ASSUME NEW d \in Device, NEW n \in 1 .. MaxCred, LateRefresh(d, n)
       PROVE  EndsOnly => KnownMoves
  BY <1>35, WorkerMoves, EndsFacts DEF LateRefresh, files, history, EndsOnly, KnownMoves, Typed,
     WorkTyped, WorkerShape, FilesTyped, Unkept, Knowing, Moves, Turns, OthersStay, Stops, Idle
<1>36. ASSUME NEW a \in Account, DisableAccount(a) PROVE EndsOnly => KnownMoves
  BY <1>36, WorkerMoves, EndsFacts DEF DisableAccount, Fault, files, history, EndsOnly, KnownMoves, Typed,
     WorkTyped, WorkerShape, FilesTyped, Unkept, Knowing, Moves, Turns, OthersStay, Stops, Idle
<1>37. ASSUME NEW a \in Account, EnableAccount(a) PROVE EndsOnly => KnownMoves
  BY <1>37, WorkerMoves, EndsFacts DEF EnableAccount, files, history, EndsOnly, KnownMoves, Typed,
     WorkTyped, WorkerShape, FilesTyped, Unkept, Knowing, Moves, Turns, OthersStay, Stops, Idle
<1>38. CASE UNCHANGED vars
  BY <1>38 DEF vars, directory, files, history, user, EndsOnly, KnownMoves, Typed, WorkTyped,
     WorkerShape, FilesTyped, Unkept, Knowing
<1> QED
  BY <1>1, <1>2, <1>3, <1>4, <1>5, <1>6, <1>7, <1>8, <1>9, <1>10, <1>11, <1>12, <1>13, <1>14,
     <1>15, <1>16, <1>17, <1>18, <1>19, <1>20, <1>21, <1>22, <1>23, <1>24, <1>25, <1>26, <1>27,
     <1>28, <1>29, <1>30, <1>31, <1>32, <1>33, <1>34, <1>35, <1>36, <1>37, <1>38
     DEF Next, User, Worker, World

(* A sign-in ends no device that a worker knows of. *)
LEMMA WorkersLogin ==
  ASSUME Typed, HeldInv, Forgiving, NEW s \in Slot, DirectoryLogin(s)
  PROVE  WorkersKnow'
<1>1. /\ owed' = owed /\ cred' = cred /\ At(s, "login")
      /\ Moves(s, "listed") \/ Stops(s)
         \/ \E d, n : Turns(s, "listed", d, n, work[s].account, work[s].other, work[s].ended,
                           work[s].queue)
  BY LoginJoins, DirectoryLoginDoes DEF Typed, files
<1>2. \A d \in minted : d \in Ended => d \in Ended'
  <2>1. CASE EndsOnly
    BY <2>1 DEF EndsOnly
  <2>2. ASSUME NEW d \in Device, Joins(s, d) PROVE \A o \in minted : o \in Ended => o \in Ended'
    BY <2>2 DEF Joins, Ended
  <2>3. EndsOnly \/ \E d \in Device : Joins(s, d)
    BY LoginJoins
  <2> QED BY <2>1, <2>2, <2>3, Zenon
<1>3. None \notin Ended
  BY NoneAssumption DEF Ended
<1> QED BY <1>1, <1>2, <1>3 DEF At, Named, HeldInv, CoreInv, WorkersKnow, Moves, Turns, OthersStay, Stops,
       Idle

(* A credential that the directory knows is refused only with its device. *)
LEMMA WorkersRefresh ==
  ASSUME Typed, HeldInv, Forgiving, NEW s \in Slot, Refresh(s)
  PROVE  WorkersKnow'
<1> DEFINE w == work[s]
<1>1. /\ owed' = owed /\ cred' = cred /\ At(s, "refresh") /\ w.dev \in Device
  BY RefreshExchanges DEF files
<1>2. Ended \subseteq Ended'
  BY <1>1, RefreshExchanges DEF EndsOnly, Exchanged, Ended
<1>3. \/ Moves(s, "come_back") \/ Moves(s, "drop") \/ Stops(s)
      \/ \E n : Turns(s, "save", w.dev, n, w.account, w.other, w.ended, w.queue)
      \/ Moves(s, "refused") /\ w.dev \in Ended'
  <2>1. Exchanged(s, FALSE) => w.dev \in Ended'
    <3>1. w.dev = cred.dev /\ w.n = cred.n
      BY <1>1 DEF HeldInv, CoreInv, AtTheStore, At
    <3>2. w.dev \in Ended \/ KnownRecord(devices[w.dev], w.n)
      BY <1>1, <3>1, NoneAssumption DEF HeldInv, CoreInv, StoreIsKnown, Known
    <3>3. w.dev \notin Ended => devices[w.dev].account \in active
      BY <1>1 DEF HeldInv, CoreInv, Named, Undisturbed, Ended, IsLive
    <3> QED BY <1>1, <1>2, <3>2, <3>3 DEF Exchanged, Ended
  <2> QED BY <1>1, <2>1, RefreshExchanges
<1> QED BY <1>1, <1>2, <1>3 DEF HeldInv, CoreInv, WorkersKnow, Moves, Turns, OthersStay, Stops, Idle

(* A request that comes late brings no device to life, and moves no worker. *)
LEMMA WorkersAndHeldLate ==
  ASSUME Typed, HeldInv, NEW d \in Device, NEW n \in 1 .. MaxCred, LateRefresh(d, n)
  PROVE  WorkersKnow' /\ Held'
<1>1. Ended \subseteq Ended' /\ UNCHANGED <<cred, owed, aside, disowned, work>>
  BY LateExchanges DEF files, history
<1>2. InHands' = InHands
  BY <1>1 DEF InHands
<1> QED BY <1>1, <1>2 DEF HeldInv, CoreInv, WorkersKnow, Held

(* What a worker has learned of a device stays so. *)
LEMMA WorkersStep ==
  ASSUME Typed, HeldInv, Forgiving, [Next]_vars
  PROVE  EndsOnly => WorkersKnow'
<1>1. ASSUME NEW s \in Slot, NEW w \in Window, NEW a \in Account, BeginLogin(s, w, a)
      PROVE  EndsOnly => WorkersKnow'
  <2>1. Begins(s, "begin", w, a)
    BY <1>1, BeginsDo DEF Typed
  <2>2. EndsOnly /\ work[s].at = "idle" /\ UNCHANGED <<cred, owed, aside, disowned>>
    BY <2>1, EndsFacts DEF At, Begins, files, history
  <2>3. Launches(s, "begin", w, a)
    BY <2>1 DEF Begins
  <2> QED BY <2>2, <2>3 DEF EndsOnly, Launches, Stays, Typed, LockHeld, Locked, WorkTyped,
         WorkerShape, FilesTyped, HeldInv, CoreInv, WorkersKnow
<1>2. ASSUME NEW s \in Slot, NEW w \in Window, BeginAutoLogin(s, w) PROVE EndsOnly => WorkersKnow'
  <2>1. Begins(s, "settle", w, None)
    BY <1>2, BeginsDo DEF Typed
  <2>2. EndsOnly /\ work[s].at = "idle" /\ UNCHANGED <<cred, owed, aside, disowned>>
    BY <2>1, EndsFacts DEF At, Begins, files, history
  <2>3. Launches(s, "settle", w, None)
    BY <2>1 DEF Begins
  <2> QED BY <2>2, <2>3 DEF EndsOnly, Launches, Stays, Typed, LockHeld, Locked, WorkTyped,
         WorkerShape, FilesTyped, HeldInv, CoreInv, WorkersKnow
<1>3. ASSUME NEW s \in Slot, NEW w \in Window, BeginRefreshHosts(s, w)
      PROVE  EndsOnly => WorkersKnow'
  <2>1. Begins(s, "come_back", w, win[w].account)
    BY <1>3, BeginsDo DEF Typed
  <2>2. EndsOnly /\ work[s].at = "idle" /\ UNCHANGED <<cred, owed, aside, disowned>>
    BY <2>1, EndsFacts DEF At, Begins, files, history
  <2>3. Launches(s, "come_back", w, win[w].account)
    BY <2>1 DEF Begins
  <2> QED BY <2>2, <2>3 DEF EndsOnly, Launches, Stays, Typed, LockHeld, Locked, WorkTyped,
         WorkerShape, FilesTyped, HeldInv, CoreInv, WorkersKnow
<1>4. ASSUME NEW s \in Slot, NEW w \in Window, BeginSignOut(s, w) PROVE EndsOnly => WorkersKnow'
  <2>1. Begins(s, "sign_out", w, None)
    BY <1>4, BeginsDo DEF Typed
  <2>2. EndsOnly /\ work[s].at = "idle" /\ UNCHANGED <<cred, owed, aside, disowned>>
    BY <2>1, EndsFacts DEF At, Begins, files, history
  <2>3. Launches(s, "sign_out", w, None)
    BY <2>1 DEF Begins
  <2> QED BY <2>2, <2>3 DEF EndsOnly, Launches, Stays, Typed, LockHeld, Locked, WorkTyped,
         WorkerShape, FilesTyped, HeldInv, CoreInv, WorkersKnow
<1>5. ASSUME NEW s \in Slot, BeginSignIn(s) PROVE EndsOnly => WorkersKnow'
  BY <1>5, WorkerMoves, EndsFacts, AsksDo DEF At, Free, BumpGeneration, Overtakes, history,
     EndsOnly, Typed, LockHeld, Locked, WorkTyped, WorkerShape, FilesTyped, HeldInv, CoreInv, WorkersKnow,
     Moves, Turns, OthersStay, Stops, Idle
<1>6. ASSUME NEW s \in Slot, DirectoryLogin(s) PROVE EndsOnly => WorkersKnow'
  BY <1>6, WorkersLogin
<1>7. ASSUME NEW s \in Slot, Listed(s) PROVE EndsOnly => WorkersKnow'
  BY <1>7, WorkerMoves, EndsFacts, NotKeptDoes DEF Listed, At, files, history, EndsOnly, Typed,
     LockHeld, Locked, WorkTyped, WorkerShape, FilesTyped, HeldInv, CoreInv, WorkersKnow, Moves, Turns,
     OthersStay, Stops, Idle
<1>8. ASSUME NEW s \in Slot, Remember(s) PROVE EndsOnly => WorkersKnow'
  <2> SUFFICES ASSUME EndsOnly PROVE WorkersKnow'
    OBVIOUS
  <2>1. Free => \A r \in Slot : work[r].at \notin Locked
    BY LoginFlowAssumption DEF Free, Typed, LockHeld
  <2>2. /\ cred' = cred /\ At(s, "remember")
        /\ \/ owed' = owed /\ (Stops(s) \/ Moves(s, "unkept"))
           \/ Free /\ Moves(s, "replace")
    BY <1>8, NotKeptDoes, WorkerMoves DEF Remember, Takes, Typed
  <2> QED BY <2>1, <2>2 DEF At, EndsOnly, HeldInv, CoreInv, WorkersKnow, Locked, Moves, Turns, OthersStay,
         Stops, Idle
<1>9. ASSUME NEW s \in Slot, Replace(s) PROVE EndsOnly => WorkersKnow'
  <2>1. EndsOnly /\ cred' = cred /\ At(s, "replace")
    BY <1>9, ReplaceTakes
  <2>2. /\ owed \subseteq owed'
        /\ \/ Moves(s, "bump") \/ Stops(s) \/ Moves(s, "unkept")
           \/ \E d, place : /\ Turns(s, place, work[s].dev, work[s].n, work[s].account, d,
                                     work[s].ended, work[s].queue)
                            /\ d = None \/ d \in owed' \/ d = work[s].ended \/ place = "tell_previous"
                            /\ place \in {"bump", "tell_previous"}
    BY <1>9, ReplaceTakes
  <2> QED BY <2>1, <2>2 DEF At, EndsOnly, HeldInv, CoreInv, WorkersKnow, Locked, Moves, Turns, OthersStay,
         Stops, Idle
<1>10. ASSUME NEW s \in Slot, TellPrevious(s) PROVE EndsOnly => WorkersKnow'
  BY <1>10, WorkerMoves, EndsFacts, TellPreviousTells DEF At, files, history, EndsOnly, Typed,
     LockHeld, Locked, WorkTyped, WorkerShape, FilesTyped, HeldInv, CoreInv, WorkersKnow, Moves, Turns,
     OthersStay, Stops, Idle
<1>11. ASSUME NEW s \in Slot, BumpBeforeKeeping(s) PROVE EndsOnly => WorkersKnow'
  BY <1>11, WorkerMoves, EndsFacts, NotKeptDoes DEF BumpBeforeKeeping, At, Holds, LetsGo,
     BumpGeneration, history, EndsOnly, Typed, LockHeld, Locked, WorkTyped, WorkerShape,
     FilesTyped, HeldInv, CoreInv, WorkersKnow, Moves, Turns, OthersStay, Stops, Idle
<1>12. ASSUME NEW s \in Slot, Keep(s) PROVE EndsOnly => WorkersKnow'
  BY <1>12, WorkerMoves, EndsFacts, NotKeptDoes DEF Keep, At, Holds, LetsGo, Save, EndsOnly,
     Typed, LockHeld, Locked, WorkTyped, WorkerShape, FilesTyped, HeldInv, CoreInv, WorkersKnow, NoCred,
     Moves, Turns, OthersStay, Stops, Idle
<1>13. ASSUME NEW s \in Slot, EndUnkeptDevice(s) PROVE EndsOnly => WorkersKnow'
  BY <1>13, WorkerMoves, EndsFacts, EndUnkeptDeviceTells DEF At, files, history, EndsOnly, Typed,
     LockHeld, Locked, WorkTyped, WorkerShape, FilesTyped, HeldInv, CoreInv, WorkersKnow, Moves, Turns,
     OthersStay, Stops, Idle
<1>14. ASSUME NEW s \in Slot, RecordUnkeptDevice(s) PROVE EndsOnly => WorkersKnow'
  BY <1>14, WorkerMoves, EndsFacts, RecordUnkeptDeviceTakes DEF At, EndsOnly, Typed, LockHeld,
     Locked, WorkTyped, WorkerShape, FilesTyped, HeldInv, CoreInv, WorkersKnow, Moves, Turns, OthersStay,
     Stops, Idle
<1>15. ASSUME NEW s \in Slot, Adopt(s) PROVE EndsOnly => WorkersKnow'
  BY <1>15, WorkerMoves, EndsFacts DEF Adopt, At, files, history, EndsOnly, Typed, LockHeld,
     Locked, WorkTyped, WorkerShape, FilesTyped, HeldInv, CoreInv, WorkersKnow, Moves, Turns, OthersStay,
     Stops, Idle
<1>16. ASSUME NEW s \in Slot, SettleOwedSignOuts(s) PROVE EndsOnly => WorkersKnow'
  BY <1>16, WorkerMoves, EndsFacts, SettleOwedSignOutsDoes DEF At, files, history, EndsOnly,
     Typed, LockHeld, Locked, WorkTyped, WorkerShape, FilesTyped, HeldInv, CoreInv, WorkersKnow, Moves,
     Turns, OthersStay, Stops, Idle
<1>17. ASSUME NEW s \in Slot, SettleOne(s) PROVE EndsOnly => WorkersKnow'
  BY <1>17, WorkerMoves, EndsFacts, SettleOneTells DEF At, files, history, EndsOnly, Typed,
     LockHeld, Locked, WorkTyped, WorkerShape, FilesTyped, HeldInv, CoreInv, WorkersKnow, Moves, Turns,
     OthersStay, Stops, Idle
<1>18. ASSUME NEW s \in Slot, RemoveSettled(s) PROVE EndsOnly => WorkersKnow'
  <2> SUFFICES ASSUME EndsOnly PROVE WorkersKnow'
    OBVIOUS
  <2>1. Free => \A r \in Slot : work[r].at \notin Locked
    BY LoginFlowAssumption DEF Free, Typed, LockHeld
  <2>2. /\ cred' = cred /\ (Free \/ owed' = owed)
        /\ Turns(s, "settling", work[s].dev, work[s].n, work[s].account, None, work[s].ended,
                 work[s].queue)
    BY <1>18, RemoveSettledDoes DEF RemoveSettled, Typed
  <2> QED BY <2>1, <2>2 DEF EndsOnly, HeldInv, CoreInv, WorkersKnow, Locked, Moves, Turns, OthersStay,
         Stops, Idle
<1>19. ASSUME NEW s \in Slot, ComeBack(s) PROVE EndsOnly => WorkersKnow'
  <2> SUFFICES ASSUME EndsOnly PROVE WorkersKnow'
    OBVIOUS
  <2>1. Free => \A r \in Slot : work[r].at \notin Locked
    BY LoginFlowAssumption DEF Free, Typed, LockHeld
  <2>2. /\ owed' = owed
        /\ \/ /\ Moves(s, "come_back") \/ Moves(s, "drop") \/ Stops(s)
              /\ cred' = cred \/ Free
           \/ /\ cred' = cred
              /\ Turns(s, "refresh", cred.dev, cred.n, cred.account, work[s].other,
                       work[s].ended, work[s].queue)
    BY <1>19, ComeBackDoes DEF Typed
  <2> QED BY <2>1, <2>2 DEF EndsOnly, HeldInv, CoreInv, WorkersKnow, Locked, Moves, Turns, OthersStay,
         Stops, Idle
<1>20. ASSUME NEW s \in Slot, Refresh(s) PROVE EndsOnly => WorkersKnow'
  BY <1>20, WorkersRefresh
<1>21. ASSUME NEW s \in Slot, SaveNext(s) PROVE EndsOnly => WorkersKnow'
  BY <1>21, WorkerMoves, EndsFacts, ComesToNothingDoes DEF SaveNext, At, Holds, LetsGo, Save,
     history, EndsOnly, Typed, LockHeld, Locked, WorkTyped, WorkerShape, FilesTyped, HeldInv, CoreInv,
     WorkersKnow, Moves, Turns, OthersStay, Stops, Idle
<1>22. ASSUME NEW s \in Slot, EraseRefused(s) PROVE EndsOnly => WorkersKnow'
  BY <1>22, WorkerMoves, EndsFacts, ComesToNothingDoes DEF EraseRefused, At, Holds, LetsGo,
     BumpGeneration, Erase, Save, history, EndsOnly, Typed, LockHeld, Locked, WorkTyped,
     WorkerShape, FilesTyped, HeldInv, CoreInv, WorkersKnow, NoCred, Moves, Turns, OthersStay, Stops, Idle
<1>23. ASSUME NEW s \in Slot, Relisted(s) PROVE EndsOnly => WorkersKnow'
  BY <1>23, WorkerMoves, EndsFacts DEF Relisted, At, files, history, EndsOnly, Typed, LockHeld,
     Locked, WorkTyped, WorkerShape, FilesTyped, HeldInv, CoreInv, WorkersKnow, Moves, Turns, OthersStay,
     Stops, Idle
<1>24. ASSUME NEW s \in Slot, Drop(s) PROVE EndsOnly => WorkersKnow'
  BY <1>24, WorkerMoves, EndsFacts, DropDoes DEF At, Goes, Stays, files, history, EndsOnly, Typed,
     LockHeld, Locked, WorkTyped, WorkerShape, FilesTyped, HeldInv, CoreInv, WorkersKnow, Moves, Turns,
     OthersStay, Stops, Idle
<1>25. ASSUME NEW s \in Slot, SignOut(s) PROVE EndsOnly => WorkersKnow'
  BY <1>25, WorkerMoves, EndsFacts, AsksDo DEF At, Free, BumpGeneration, Overtakes, history,
     EndsOnly, Typed, LockHeld, Locked, WorkTyped, WorkerShape, FilesTyped, HeldInv, CoreInv, WorkersKnow,
     Moves, Turns, OthersStay, Stops, Idle
<1>26. ASSUME NEW s \in Slot, Retire(s) PROVE EndsOnly => WorkersKnow'
  BY <1>26, WorkerMoves, EndsFacts, RetireTakes DEF At, Holds, EndsOnly, Typed, LockHeld, Locked,
     WorkTyped, WorkerShape, FilesTyped, HeldInv, CoreInv, WorkersKnow, NoCred, Moves, Turns, OthersStay,
     Stops, Idle
<1>27. ASSUME NEW s \in Slot, EraseRetired(s) PROVE EndsOnly => WorkersKnow'
  BY <1>27, WorkerMoves, EndsFacts DEF EraseRetired, At, Holds, LetsGo, Erase, Save, EndsOnly,
     Typed, LockHeld, Locked, WorkTyped, WorkerShape, FilesTyped, HeldInv, CoreInv, WorkersKnow, NoCred,
     Moves, Turns, OthersStay, Stops, Idle
<1>28. ASSUME NEW s \in Slot, TellSignOut(s) PROVE EndsOnly => WorkersKnow'
  BY <1>28, WorkerMoves, EndsFacts, TellSignOutTells DEF files, history, EndsOnly, Typed,
     LockHeld, Locked, WorkTyped, WorkerShape, FilesTyped, HeldInv, CoreInv, WorkersKnow, Moves, Turns,
     OthersStay, Stops, Idle
<1>29. ASSUME NEW s \in Slot, ClearRecord(s) PROVE EndsOnly => WorkersKnow'
  <2> SUFFICES ASSUME EndsOnly PROVE WorkersKnow'
    OBVIOUS
  <2>1. Free => \A r \in Slot : work[r].at \notin Locked
    BY LoginFlowAssumption DEF Free, Typed, LockHeld
  <2>2. /\ cred' = cred /\ (Free \/ owed' = owed)
        /\ Stops(s)
    BY <1>29, WorkerMoves DEF ClearRecord, Typed
  <2> QED BY <2>1, <2>2 DEF EndsOnly, HeldInv, CoreInv, WorkersKnow, Locked, Moves, Turns, OthersStay,
         Stops, Idle
<1>30. ASSUME NEW s \in Slot, EraseEnded(s) PROVE EndsOnly => WorkersKnow'
  <2> SUFFICES ASSUME EndsOnly PROVE WorkersKnow'
    OBVIOUS
  <2>1. Free => \A r \in Slot : work[r].at \notin Locked
    BY LoginFlowAssumption DEF Free, Typed, LockHeld
  <2>2. Stops(s) /\ (cred' = cred \/ Free) /\ owed' = owed
    BY <1>30, WorkerMoves DEF EraseEnded, Erase, Save, Typed
  <2> QED BY <2>1, <2>2 DEF EndsOnly, HeldInv, CoreInv, WorkersKnow, Locked, Moves, Turns, OthersStay,
         Stops, Idle
<1>31. ASSUME NEW w \in Window, Crash(w) PROVE EndsOnly => WorkersKnow'
  BY <1>31, WorkerMoves, EndsFacts, CrashDoes DEF files, EndsOnly, Typed, LockHeld, Locked,
     WorkTyped, WorkerShape, FilesTyped, HeldInv, CoreInv, WorkersKnow, Moves, Turns, OthersStay, Stops,
     Idle
<1>32. ASSUME NEW w \in Window, CloseWindow(w) PROVE EndsOnly => WorkersKnow'
  BY <1>32, WorkerMoves, EndsFacts DEF CloseWindow, files, history, EndsOnly, Typed, LockHeld,
     Locked, WorkTyped, WorkerShape, FilesTyped, HeldInv, CoreInv, WorkersKnow, Moves, Turns, OthersStay,
     Stops, Idle
<1>33. CASE Tick
  BY <1>33, WorkerMoves, EndsFacts DEF Tick, files, history, EndsOnly, Typed, LockHeld, Locked,
     WorkTyped, WorkerShape, FilesTyped, HeldInv, CoreInv, WorkersKnow, Moves, Turns, OthersStay, Stops,
     Idle
<1>34. ASSUME NEW d \in Device, EndElsewhere(d) PROVE EndsOnly => WorkersKnow'
  BY <1>34, WorkerMoves, EndsFacts DEF EndElsewhere, files, history, EndsOnly, Typed, LockHeld,
     Locked, WorkTyped, WorkerShape, FilesTyped, HeldInv, CoreInv, WorkersKnow, Moves, Turns, OthersStay,
     Stops, Idle
<1>35. ASSUME NEW d \in Device, NEW n \in 1 .. MaxCred, LateRefresh(d, n)
       PROVE  EndsOnly => WorkersKnow'
  BY <1>35, WorkerMoves, EndsFacts DEF LateRefresh, files, history, EndsOnly, Typed, LockHeld,
     Locked, WorkTyped, WorkerShape, FilesTyped, HeldInv, CoreInv, WorkersKnow, Moves, Turns, OthersStay,
     Stops, Idle
<1>36. ASSUME NEW a \in Account, DisableAccount(a) PROVE EndsOnly => WorkersKnow'
  BY <1>36 DEF DisableAccount, Forgiving, Fault
<1>37. ASSUME NEW a \in Account, EnableAccount(a) PROVE EndsOnly => WorkersKnow'
  BY <1>37, WorkerMoves, EndsFacts DEF EnableAccount, files, history, EndsOnly, Typed, LockHeld,
     Locked, WorkTyped, WorkerShape, FilesTyped, HeldInv, CoreInv, WorkersKnow, Moves, Turns, OthersStay,
     Stops, Idle
<1>38. CASE UNCHANGED vars
  BY <1>38 DEF vars, directory, files, history, user, EndsOnly, Typed, LockHeld, Locked,
     WorkTyped, WorkerShape, FilesTyped, HeldInv, CoreInv, WorkersKnow
<1> QED
  BY <1>1, <1>2, <1>3, <1>4, <1>5, <1>6, <1>7, <1>8, <1>9, <1>10, <1>11, <1>12, <1>13, <1>14,
     <1>15, <1>16, <1>17, <1>18, <1>19, <1>20, <1>21, <1>22, <1>23, <1>24, <1>25, <1>26, <1>27,
     <1>28, <1>29, <1>30, <1>31, <1>32, <1>33, <1>34, <1>35, <1>36, <1>37, <1>38
     DEF Next, User, Worker, World

(* A device that is given out goes to the worker, or is disowned. *)
LEMMA HeldLogin ==
  ASSUME Typed, HeldInv, Forgiving, NEW s \in Slot, DirectoryLogin(s)
  PROVE  Held'
<1>1. /\ UNCHANGED <<cred, owed, aside>> /\ disowned \subseteq disowned' /\ At(s, "login")
      /\ \/ EndsOnly /\ (Moves(s, "listed") \/ Stops(s))
         \/ \E d \in Device :
              /\ Joins(s, d)
              /\ \/ Turns(s, "listed", d, 1, work[s].account, work[s].other, work[s].ended,
                          work[s].queue)
                 \/ Stops(s) /\ d \in disowned'
  BY LoginJoins, DirectoryLoginDoes DEF Typed, files
<1>2. InHands \subseteq InHands'
  BY <1>1 DEF At, InHands, Unkept, Moves, Turns, OthersStay, Stops
<1>3. ASSUME EndsOnly PROVE Held'
  BY <1>1, <1>2, <1>3 DEF EndsOnly, HeldInv, CoreInv, Held
<1>4. ASSUME NEW d \in Device, Joins(s, d),
             \/ Turns(s, "listed", d, 1, work[s].account, work[s].other, work[s].ended,
                      work[s].queue)
             \/ Stops(s) /\ d \in disowned'
      PROVE  Held'
  <2>1. \A o \in Device \ {d} : o \in Ended => o \in Ended'
    BY <1>4 DEF Joins, Ended
  <2>2. d \in InHands' \cup disowned'
    BY <1>4 DEF InHands, Unkept, Turns
  <2> QED BY <1>1, <1>2, <2>1, <2>2 DEF HeldInv, CoreInv, Held
<1> QED BY <1>1, <1>3, <1>4

(* A refresh makes no device alive. *)
LEMMA HeldRefresh ==
  ASSUME Typed, HeldInv, Forgiving, NEW s \in Slot, Refresh(s)
  PROVE  Held'
<1>1. /\ UNCHANGED <<cred, owed, aside, disowned>> /\ At(s, "refresh") /\ work[s].dev \in Device
      /\ \E place, n : Turns(s, place, work[s].dev, n, work[s].account, work[s].other,
                           work[s].ended, work[s].queue)
         \/ Stops(s)
  BY RefreshExchanges DEF Moves, files, history
<1>2. InHands \subseteq InHands'
  BY <1>1 DEF At, InHands, Unkept, Turns, OthersStay, Stops
<1>3. Ended \subseteq Ended'
  BY <1>1, RefreshExchanges DEF EndsOnly, Exchanged, Ended
<1> QED BY <1>1, <1>2, <1>3 DEF HeldInv, CoreInv, Held

(* A device that is alive is let go of only for another place. *)
LEMMA HeldStep ==
  ASSUME Typed, HeldInv, Forgiving, [Next]_vars
  PROVE  EndsOnly => Held'
<1>1. ASSUME NEW s \in Slot, NEW w \in Window, NEW a \in Account, BeginLogin(s, w, a)
      PROVE  EndsOnly => Held'
  <2>1. Begins(s, "begin", w, a)
    BY <1>1, BeginsDo DEF Typed
  <2>2. EndsOnly /\ work[s].at = "idle" /\ UNCHANGED <<cred, owed, aside, disowned>>
    BY <2>1, EndsFacts DEF At, Begins, files, history
  <2>3. Launches(s, "begin", w, a)
    BY <2>1 DEF Begins
  <2> QED BY <2>2, <2>3 DEF EndsOnly, Launches, Stays, Typed, LockHeld, Locked, WorkTyped,
         WorkerShape, FilesTyped, HeldInv, CoreInv, WorkersKnow, AtTheStore, InHands, Held, Unkept
<1>2. ASSUME NEW s \in Slot, NEW w \in Window, BeginAutoLogin(s, w) PROVE EndsOnly => Held'
  <2>1. Begins(s, "settle", w, None)
    BY <1>2, BeginsDo DEF Typed
  <2>2. EndsOnly /\ work[s].at = "idle" /\ UNCHANGED <<cred, owed, aside, disowned>>
    BY <2>1, EndsFacts DEF At, Begins, files, history
  <2>3. Launches(s, "settle", w, None)
    BY <2>1 DEF Begins
  <2> QED BY <2>2, <2>3 DEF EndsOnly, Launches, Stays, Typed, LockHeld, Locked, WorkTyped,
         WorkerShape, FilesTyped, HeldInv, CoreInv, WorkersKnow, AtTheStore, InHands, Held, Unkept
<1>3. ASSUME NEW s \in Slot, NEW w \in Window, BeginRefreshHosts(s, w) PROVE EndsOnly => Held'
  <2>1. Begins(s, "come_back", w, win[w].account)
    BY <1>3, BeginsDo DEF Typed
  <2>2. EndsOnly /\ work[s].at = "idle" /\ UNCHANGED <<cred, owed, aside, disowned>>
    BY <2>1, EndsFacts DEF At, Begins, files, history
  <2>3. Launches(s, "come_back", w, win[w].account)
    BY <2>1 DEF Begins
  <2> QED BY <2>2, <2>3 DEF EndsOnly, Launches, Stays, Typed, LockHeld, Locked, WorkTyped,
         WorkerShape, FilesTyped, HeldInv, CoreInv, WorkersKnow, AtTheStore, InHands, Held, Unkept
<1>4. ASSUME NEW s \in Slot, NEW w \in Window, BeginSignOut(s, w) PROVE EndsOnly => Held'
  <2>1. Begins(s, "sign_out", w, None)
    BY <1>4, BeginsDo DEF Typed
  <2>2. EndsOnly /\ work[s].at = "idle" /\ UNCHANGED <<cred, owed, aside, disowned>>
    BY <2>1, EndsFacts DEF At, Begins, files, history
  <2>3. Launches(s, "sign_out", w, None)
    BY <2>1 DEF Begins
  <2> QED BY <2>2, <2>3 DEF EndsOnly, Launches, Stays, Typed, LockHeld, Locked, WorkTyped,
         WorkerShape, FilesTyped, HeldInv, CoreInv, WorkersKnow, AtTheStore, InHands, Held, Unkept
<1>5. ASSUME NEW s \in Slot, BeginSignIn(s) PROVE EndsOnly => Held'
  BY <1>5, WorkerMoves, EndsFacts, AsksDo DEF At, Free, BumpGeneration, Overtakes, history,
     EndsOnly, Typed, LockHeld, Locked, WorkTyped, WorkerShape, FilesTyped, HeldInv, CoreInv, WorkersKnow,
     AtTheStore, InHands, Held, Unkept, Moves, Turns, OthersStay, Stops, Idle
<1>6. ASSUME NEW s \in Slot, DirectoryLogin(s) PROVE EndsOnly => Held'
  BY <1>6, HeldLogin
<1>7. ASSUME NEW s \in Slot, Listed(s) PROVE EndsOnly => Held'
  <2>1. InHands \subseteq InHands'
    BY <1>7, NoneAssumption, NotKeptDoes, WorkerMoves
       DEF At, InHands, Unkept, Moves, Turns, OthersStay, Stops, Idle, Listed, Typed
  <2>2. /\ cred' = cred /\ disowned' = disowned
        /\ owed \subseteq owed' \cup aside' /\ aside \subseteq aside'
    BY <1>7 DEF Listed, files, history
  <2> QED BY <2>1, <2>2 DEF EndsOnly, HeldInv, CoreInv, Held
<1>8. ASSUME NEW s \in Slot, Remember(s) PROVE EndsOnly => Held'
  <2>1. InHands \subseteq InHands'
    BY <1>8, NoneAssumption, NotKeptDoes, WorkerMoves
       DEF At, InHands, Unkept, Moves, Turns, OthersStay, Stops, Idle, Remember, Typed
  <2>2. /\ cred' = cred /\ disowned' = disowned
        /\ owed \subseteq owed' \cup aside' /\ aside \subseteq aside'
    BY <1>8 DEF Remember, history
  <2> QED BY <2>1, <2>2 DEF EndsOnly, HeldInv, CoreInv, Held
<1>9. ASSUME NEW s \in Slot, Replace(s) PROVE EndsOnly => Held'
  <2>1. InHands \subseteq InHands'
    BY <1>9, NoneAssumption, ReplaceTakes
       DEF At, InHands, Unkept, Moves, Turns, OthersStay, Stops, Idle
  <2>2. /\ cred' = cred /\ disowned' = disowned
        /\ owed \subseteq owed' \cup aside' /\ aside \subseteq aside'
    BY <1>9, ReplaceTakes DEF Typed, history
  <2> QED BY <2>1, <2>2 DEF EndsOnly, HeldInv, CoreInv, Held
<1>10. ASSUME NEW s \in Slot, TellPrevious(s) PROVE EndsOnly => Held'
  <2>1. InHands \subseteq InHands'
    BY <1>10, NoneAssumption, TellPreviousTells
       DEF At, InHands, Unkept, Moves, Turns, OthersStay, Stops, Idle
  <2>2. /\ cred' = cred /\ disowned' = disowned
        /\ owed \subseteq owed' \cup aside' /\ aside \subseteq aside'
    BY <1>10, TellPreviousTells DEF Typed, files, history
  <2> QED BY <2>1, <2>2 DEF EndsOnly, HeldInv, CoreInv, Held
<1>11. ASSUME NEW s \in Slot, BumpBeforeKeeping(s) PROVE EndsOnly => Held'
  <2>1. InHands \subseteq InHands'
    BY <1>11, NoneAssumption, NotKeptDoes, WorkerMoves
       DEF At, InHands, Unkept, Moves, Turns, OthersStay, Stops, Idle, BumpBeforeKeeping, Typed
  <2>2. /\ cred' = cred /\ disowned' = disowned
        /\ owed \subseteq owed' \cup aside' /\ aside \subseteq aside'
    BY <1>11 DEF BumpBeforeKeeping, history
  <2> QED BY <2>1, <2>2 DEF EndsOnly, HeldInv, CoreInv, Held
<1>12. ASSUME NEW s \in Slot, Keep(s) PROVE EndsOnly => Held'
  <2> SUFFICES ASSUME EndsOnly PROVE Held'
    OBVIOUS
  <2> DEFINE w == work[s]
  <2>1. /\ At(s, "keep") /\ owed' = owed /\ aside' = aside
        /\ \/ /\ cred'.dev = w.dev \/ (w.dev = None /\ w.other = None /\ cred' = cred)
              /\ disowned' = disowned \cup ({cred.dev} \ {None, cred'.dev, w.other})
              /\ Moves(s, "settle")
           \/ /\ cred' = cred /\ disowned' = disowned
              /\ (w.dev = None /\ Stops(s)) \/ (w.dev # None /\ Moves(s, "unkept"))
    BY <1>12, NotKeptDoes, WorkerMoves DEF Keep, Save, NoCred, Typed
  <2>2. InHands \subseteq InHands' \cup {w.dev}
    BY <2>1 DEF InHands, Unkept, Moves, Turns, OthersStay, Stops, Idle
  <2>3. w.dev \in Device /\ Moves(s, "unkept") => w.dev \in InHands'
    BY DEF InHands, Unkept, Moves, Turns
  <2>4. w.other # None => w.other \in owed \/ w.other \in Ended
    BY <2>1 DEF At, HeldInv, CoreInv, WorkersKnow
  <2> QED BY <2>1, <2>2, <2>3, <2>4, NoneAssumption DEF EndsOnly, HeldInv, CoreInv, Held
<1>13. ASSUME NEW s \in Slot, EndUnkeptDevice(s) PROVE EndsOnly => Held'
  BY <1>13, WorkerMoves, EndsFacts, EndUnkeptDeviceTells DEF At, files, history, EndsOnly, Typed,
     LockHeld, Locked, WorkTyped, WorkerShape, FilesTyped, HeldInv, CoreInv, WorkersKnow, AtTheStore,
     InHands, Held, Unkept, Moves, Turns, OthersStay, Stops, Idle
<1>14. ASSUME NEW s \in Slot, RecordUnkeptDevice(s) PROVE EndsOnly => Held'
  BY <1>14, WorkerMoves, EndsFacts, RecordUnkeptDeviceTakes DEF At, EndsOnly, Typed, LockHeld,
     Locked, WorkTyped, WorkerShape, FilesTyped, HeldInv, CoreInv, WorkersKnow, AtTheStore, InHands, Held,
     Unkept, Moves, Turns, OthersStay, Stops, Idle
<1>15. ASSUME NEW s \in Slot, Adopt(s) PROVE EndsOnly => Held'
  BY <1>15, WorkerMoves, EndsFacts DEF Adopt, At, files, history, EndsOnly, Typed, LockHeld,
     Locked, WorkTyped, WorkerShape, FilesTyped, HeldInv, CoreInv, WorkersKnow, AtTheStore, InHands, Held,
     Unkept, Moves, Turns, OthersStay, Stops, Idle
<1>16. ASSUME NEW s \in Slot, SettleOwedSignOuts(s) PROVE EndsOnly => Held'
  BY <1>16, WorkerMoves, EndsFacts, SettleOwedSignOutsDoes DEF At, files, history, EndsOnly,
     Typed, LockHeld, Locked, WorkTyped, WorkerShape, FilesTyped, HeldInv, CoreInv, WorkersKnow,
     AtTheStore, InHands, Held, Unkept, Moves, Turns, OthersStay, Stops, Idle
<1>17. ASSUME NEW s \in Slot, SettleOne(s) PROVE EndsOnly => Held'
  BY <1>17, WorkerMoves, EndsFacts, SettleOneTells DEF At, files, history, EndsOnly, Typed,
     LockHeld, Locked, WorkTyped, WorkerShape, FilesTyped, HeldInv, CoreInv, WorkersKnow, AtTheStore,
     InHands, Held, Unkept, Moves, Turns, OthersStay, Stops, Idle
<1>18. ASSUME NEW s \in Slot, RemoveSettled(s) PROVE EndsOnly => Held'
  BY <1>18, WorkerMoves, EndsFacts, RemoveSettledDoes DEF At, history, EndsOnly, Typed, LockHeld,
     Locked, WorkTyped, WorkerShape, FilesTyped, HeldInv, CoreInv, WorkersKnow, AtTheStore, InHands, Held,
     Unkept, RemovePendingRevoke, Moves, Turns, OthersStay, Stops, Idle
<1>19. ASSUME NEW s \in Slot, ComeBack(s) PROVE EndsOnly => Held'
  BY <1>19, WorkerMoves, EndsFacts, ComeBackDoes DEF At, Free, Takes, BumpGeneration, history,
     EndsOnly, Typed, LockHeld, Locked, WorkTyped, WorkerShape, FilesTyped, HeldInv, CoreInv, WorkersKnow,
     AtTheStore, InHands, Held, Unkept, NoCred, Moves, Turns, OthersStay, Stops, Idle
<1>20. ASSUME NEW s \in Slot, Refresh(s) PROVE EndsOnly => Held'
  BY <1>20, HeldRefresh
<1>21. ASSUME NEW s \in Slot, SaveNext(s) PROVE EndsOnly => Held'
  BY <1>21, WorkerMoves, EndsFacts, ComesToNothingDoes DEF SaveNext, At, Holds, LetsGo, Save,
     history, EndsOnly, Typed, LockHeld, Locked, WorkTyped, WorkerShape, FilesTyped, HeldInv, CoreInv,
     WorkersKnow, AtTheStore, InHands, Held, Unkept, Moves, Turns, OthersStay, Stops, Idle
<1>22. ASSUME NEW s \in Slot, EraseRefused(s) PROVE EndsOnly => Held'
  BY <1>22, WorkerMoves, EndsFacts, ComesToNothingDoes DEF EraseRefused, At, Holds, LetsGo,
     BumpGeneration, Erase, Save, history, EndsOnly, Typed, LockHeld, Locked, WorkTyped,
     WorkerShape, FilesTyped, HeldInv, CoreInv, WorkersKnow, AtTheStore, InHands, Held, Unkept, NoCred,
     Moves, Turns, OthersStay, Stops, Idle
<1>23. ASSUME NEW s \in Slot, Relisted(s) PROVE EndsOnly => Held'
  BY <1>23, WorkerMoves, EndsFacts DEF Relisted, At, files, history, EndsOnly, Typed, LockHeld,
     Locked, WorkTyped, WorkerShape, FilesTyped, HeldInv, CoreInv, WorkersKnow, AtTheStore, InHands, Held,
     Unkept, Moves, Turns, OthersStay, Stops, Idle
<1>24. ASSUME NEW s \in Slot, Drop(s) PROVE EndsOnly => Held'
  BY <1>24, WorkerMoves, EndsFacts, DropDoes DEF At, Goes, Stays, files, history, EndsOnly, Typed,
     LockHeld, Locked, WorkTyped, WorkerShape, FilesTyped, HeldInv, CoreInv, WorkersKnow, AtTheStore,
     InHands, Held, Unkept, Moves, Turns, OthersStay, Stops, Idle
<1>25. ASSUME NEW s \in Slot, SignOut(s) PROVE EndsOnly => Held'
  BY <1>25, WorkerMoves, EndsFacts, AsksDo DEF At, Free, BumpGeneration, Overtakes, history,
     EndsOnly, Typed, LockHeld, Locked, WorkTyped, WorkerShape, FilesTyped, HeldInv, CoreInv, WorkersKnow,
     AtTheStore, InHands, Held, Unkept, Moves, Turns, OthersStay, Stops, Idle
<1>26. ASSUME NEW s \in Slot, Retire(s) PROVE EndsOnly => Held'
  BY <1>26, WorkerMoves, EndsFacts, RetireTakes DEF At, Holds, EndsOnly, Typed, LockHeld, Locked,
     WorkTyped, WorkerShape, FilesTyped, HeldInv, CoreInv, WorkersKnow, AtTheStore, InHands, Held, Unkept,
     NoCred, Moves, Turns, OthersStay, Stops, Idle
<1>27. ASSUME NEW s \in Slot, EraseRetired(s) PROVE EndsOnly => Held'
  BY <1>27, WorkerMoves, EndsFacts DEF EraseRetired, At, Holds, LetsGo, Erase, Save, EndsOnly,
     Typed, LockHeld, Locked, WorkTyped, WorkerShape, FilesTyped, HeldInv, CoreInv, WorkersKnow,
     AtTheStore, InHands, Held, Unkept, NoCred, SignedOutOf, Moves, Turns, OthersStay, Stops, Idle
<1>28. ASSUME NEW s \in Slot, TellSignOut(s) PROVE EndsOnly => Held'
  BY <1>28, WorkerMoves, EndsFacts, TellSignOutTells DEF files, history, EndsOnly, Typed,
     LockHeld, Locked, WorkTyped, WorkerShape, FilesTyped, HeldInv, CoreInv, WorkersKnow, AtTheStore,
     InHands, Held, Unkept, Moves, Turns, OthersStay, Stops, Idle
<1>29. ASSUME NEW s \in Slot, ClearRecord(s) PROVE EndsOnly => Held'
  BY <1>29, WorkerMoves, EndsFacts DEF ClearRecord, At, Free, Busy, history, EndsOnly, Typed,
     LockHeld, Locked, WorkTyped, WorkerShape, FilesTyped, HeldInv, CoreInv, WorkersKnow, AtTheStore,
     InHands, Held, Unkept, RemovePendingRevoke, Moves, Turns, OthersStay, Stops, Idle
<1>30. ASSUME NEW s \in Slot, EraseEnded(s) PROVE EndsOnly => Held'
  BY <1>30, WorkerMoves, EndsFacts DEF EraseEnded, At, Free, Busy, Erase, Save, EndsOnly, Typed,
     LockHeld, Locked, WorkTyped, WorkerShape, FilesTyped, HeldInv, CoreInv, WorkersKnow, AtTheStore,
     InHands, Held, Unkept, NoCred, SignedOutOf, Moves, Turns, OthersStay, Stops, Idle
<1>31. ASSUME NEW w \in Window, Crash(w) PROVE EndsOnly => Held'
  <2>1. /\ UNCHANGED <<cred, owed, aside>> /\ disowned \subseteq disowned'
        /\ InHands \subseteq InHands' \cup disowned'
    BY <1>31, CrashDoes, NoneAssumption DEF Typed, InHands, files
  <2> QED BY <2>1 DEF EndsOnly, HeldInv, CoreInv, Held
<1>32. ASSUME NEW w \in Window, CloseWindow(w) PROVE EndsOnly => Held'
  BY <1>32, WorkerMoves, EndsFacts DEF CloseWindow, files, history, EndsOnly, Typed, LockHeld,
     Locked, WorkTyped, WorkerShape, FilesTyped, HeldInv, CoreInv, WorkersKnow, AtTheStore, InHands, Held,
     Unkept, Moves, Turns, OthersStay, Stops, Idle
<1>33. CASE Tick
  BY <1>33, WorkerMoves, EndsFacts DEF Tick, files, history, EndsOnly, Typed, LockHeld, Locked,
     WorkTyped, WorkerShape, FilesTyped, HeldInv, CoreInv, WorkersKnow, AtTheStore, InHands, Held, Unkept,
     Moves, Turns, OthersStay, Stops, Idle
<1>34. ASSUME NEW d \in Device, EndElsewhere(d) PROVE EndsOnly => Held'
  BY <1>34, WorkerMoves, EndsFacts DEF EndElsewhere, files, history, EndsOnly, Typed, LockHeld,
     Locked, WorkTyped, WorkerShape, FilesTyped, HeldInv, CoreInv, WorkersKnow, AtTheStore, InHands, Held,
     Unkept, Moves, Turns, OthersStay, Stops, Idle
<1>35. ASSUME NEW d \in Device, NEW n \in 1 .. MaxCred, LateRefresh(d, n) PROVE EndsOnly => Held'
  BY <1>35, WorkerMoves, EndsFacts DEF LateRefresh, files, history, EndsOnly, Typed, LockHeld,
     Locked, WorkTyped, WorkerShape, FilesTyped, HeldInv, CoreInv, WorkersKnow, AtTheStore, InHands, Held,
     Unkept, Moves, Turns, OthersStay, Stops, Idle
<1>36. ASSUME NEW a \in Account, DisableAccount(a) PROVE EndsOnly => Held'
  BY <1>36 DEF DisableAccount, Forgiving, Fault
<1>37. ASSUME NEW a \in Account, EnableAccount(a) PROVE EndsOnly => Held'
  BY <1>37, WorkerMoves, EndsFacts DEF EnableAccount, files, history, EndsOnly, Typed, LockHeld,
     Locked, WorkTyped, WorkerShape, FilesTyped, HeldInv, CoreInv, WorkersKnow, AtTheStore, InHands, Held,
     Unkept, Moves, Turns, OthersStay, Stops, Idle
<1>38. CASE UNCHANGED vars
  BY <1>38 DEF vars, directory, files, history, user, EndsOnly, Typed, LockHeld, Locked,
     WorkTyped, WorkerShape, FilesTyped, HeldInv, CoreInv, WorkersKnow, AtTheStore, InHands, Held, Unkept
<1> QED
  BY <1>1, <1>2, <1>3, <1>4, <1>5, <1>6, <1>7, <1>8, <1>9, <1>10, <1>11, <1>12, <1>13, <1>14,
     <1>15, <1>16, <1>17, <1>18, <1>19, <1>20, <1>21, <1>22, <1>23, <1>24, <1>25, <1>26, <1>27,
     <1>28, <1>29, <1>30, <1>31, <1>32, <1>33, <1>34, <1>35, <1>36, <1>37, <1>38
     DEF Next, User, Worker, World
(* The variables hold their kinds from the start, *)
LEMMA TypedInit == Init => Typed
<1> SUFFICES ASSUME Init PROVE Typed
  OBVIOUS
<1>1. DirectoryTyped
  BY FS_EmptySet DEF Init, DirectoryTyped, NoRecord, DeviceRecord
<1>2. FilesTyped
  BY FS_EmptySet, LoginFlowAssumption DEF Init, FilesTyped, OwedTyped, NoCred, MaybeDevice,
     MaybeAccount
<1>3. UserTyped
  BY DEF Init, UserTyped, SignedOff, MaybeDevice, MaybeAccount
<1>4. WorkTyped
  BY IdleTyped DEF Init, WorkTyped
<1>5. LockHeld
  BY LoginFlowAssumption DEF Init, LockHeld, Locked, Idle
<1> QED BY <1>1, <1>2, <1>3, <1>4, <1>5 DEF Typed

(* and at every step. *)
LEMMA TypedStep == Typed /\ [Next]_vars => Typed'
  BY DirectoryStep, FilesStep, UserStep, WorkStep, LockStep DEF Typed

(* Every variable always holds a value of its kind, the list of sign-outs    *)
(* owed stays within its limit, and the lock is held by the worker that is   *)
(* between taking it and letting it go, and by nobody else: whatever fails,  *)
(* and wherever a process dies (login_credential_store.cpp, Acquire,         *)
(* AddPendingRevoke).                                                        *)
THEOREM LoginFlowTypes == Spec => []TypeOK
<1>1. Typed => TypeOK
  BY DEF Typed, DirectoryTyped, FilesTyped, OwedTyped, UserTyped, LockHeld, Locked, TypeOK,
     MaybeDevice, MaybeAccount
<1> QED BY <1>1, TypedInit, TypedStep, PTL DEF Spec
(* At the start nobody was overtaken. *)
LEMMA LateInit == Init => LateInv
  BY DEF Init, LateInv, Idle

(* As long as the counter can be read, the answer to a sign-in after which   *)
(* the user asked for something else, in whatever window, is not kept: the   *)
(* number such a worker took is behind the counter for good                  *)
(* (login_flow.cpp, remember_sign_in; login_credential_store.cpp,            *)
(* BumpGeneration).                                                          *)
THEOREM LateAnswersAreDropped == "counter" \notin Faults /\ Spec => []LateAnswerIsNotKept
<1> SUFFICES ASSUME "counter" \notin Faults PROVE Spec => []LateAnswerIsNotKept
  OBVIOUS
<1>1. Init => Typed /\ LateInv
  BY TypedInit, LateInit
<1>2. Typed /\ LateInv /\ [Next]_vars => Typed' /\ LateInv'
  BY TypedStep, LateStep
<1>3. LateInv => LateAnswerIsNotKept
  BY DEF LateInv, LateAnswerIsNotKept, At
<1> QED BY <1>1, <1>2, <1>3, PTL DEF Spec
(* At the start nothing is stored. *)
LEMMA LastInit == Init => LastInv
  BY DEF Init, LastInv, Idle, NoCred, Unkept

(* A credential is presented only on behalf of the last sign-in that was     *)
(* kept, and not after a sign-out, as long as there is no server from before *)
(* device credentials, or no credential that is there and cannot be read: a  *)
(* sign-in that was issued nothing leaves what it could not read             *)
(* (login_flow.cpp, remember_sign_in, sign_out and come_back).               *)
THEOREM ComesBackForTheLast ==
  ~({"older", "read"} \subseteq Faults) /\ Spec => []ComesBackAsTheLastSignIn
<1> SUFFICES ASSUME ~({"older", "read"} \subseteq Faults)
             PROVE  Spec => []ComesBackAsTheLastSignIn
  OBVIOUS
<1>1. Init => Typed /\ LastInv
  BY TypedInit, LastInit
<1>2. Typed /\ LastInv /\ [Next]_vars => Typed' /\ LastInv'
  BY TypedStep, LastStep
<1>3. Typed /\ LastInv => ComesBackAsTheLastSignIn
  <2> SUFFICES ASSUME Typed, LastInv, NEW s \in Slot, At(s, "refresh")
               PROVE  work[s].dev = last
    BY DEF ComesBackAsTheLastSignIn
  <2> QED BY DEF Typed, WorkTyped, WorkerShape, HasDevice, LastInv, At
<1> QED BY <1>1, <1>2, <1>3, PTL DEF Spec
-----------------------------------------------------------------------------
(* Every step keeps what is known of the devices *)

(* Who has which device, whatever fails. *)
LEMMA CoreStep == Typed /\ CoreInv /\ [Next]_vars => CoreInv'
  BY NamedStep, ApartStep, AtTheStoreStep DEF CoreInv

(* At the start nobody has one. *)
LEMMA CoreInit == Init => CoreInv
<1> SUFFICES ASSUME Init PROVE CoreInv
  OBVIOUS
<1>1. \A s \in Slot : work[s] = Idle
  BY DEF Init
<1>2. Named
  BY <1>1 DEF Init, Named, InStore, NoRecord, NoCred, Idle
<1>3. Apart /\ AtTheStore
  BY <1>1 DEF Init, Apart, AtTheStore, Unkept, NoCred, Idle
<1> QED BY <1>2, <1>3 DEF CoreInv

(* Families are ended and no more. *)
EndsMerely == EndsOnly /\ late' = late

(* Only a sign-in, a refresh and a request that comes late do more than that. *)
LEMMA EndsStep ==
  ASSUME Typed, [Next]_vars
  PROVE  \/ EndsMerely
         \/ \E s \in Slot : DirectoryLogin(s) \/ Refresh(s)
         \/ \E d \in Device, n \in 1 .. MaxCred : LateRefresh(d, n)
<1>1. UNCHANGED directory => EndsMerely
  BY EndsFacts DEF EndsMerely, directory
<1>3. ASSUME NEW s \in Slot,
             \/ BeginSignIn(s) \/ Listed(s) \/ Remember(s) \/ Replace(s) \/ BumpBeforeKeeping(s)
             \/ Keep(s) \/ RecordUnkeptDevice(s) \/ Adopt(s) \/ SettleOwedSignOuts(s)
             \/ RemoveSettled(s) \/ ComeBack(s) \/ SaveNext(s) \/ EraseRefused(s) \/ Relisted(s)
             \/ Drop(s) \/ SignOut(s) \/ Retire(s) \/ EraseRetired(s) \/ ClearRecord(s)
             \/ EraseEnded(s)
      PROVE  UNCHANGED directory
  BY <1>3 DEF BeginSignIn, Listed, Remember, Replace, BumpBeforeKeeping, Keep, RecordUnkeptDevice,
     Adopt, SettleOwedSignOuts, RemoveSettled, ComeBack, SaveNext, EraseRefused, Relisted, Drop,
     SignOut, Retire, EraseRetired, ClearRecord, EraseEnded, directory
<1>4. ASSUME NEW s \in Slot,
             TellPrevious(s) \/ EndUnkeptDevice(s) \/ SettleOne(s) \/ TellSignOut(s)
      PROVE  EndsMerely
  <2>1. EndsOnly
    BY <1>4, TellPreviousTells, EndUnkeptDeviceTells, SettleOneTells, TellSignOutTells
  <2>2. late' = late
    BY <1>4 DEF TellPrevious, EndUnkeptDevice, SettleOne, TellSignOut, TellDirectory, directory
  <2> QED BY <2>1, <2>2 DEF EndsMerely
<1>5. ASSUME NEW s \in Slot, Worker(s)
      PROVE  EndsMerely \/ DirectoryLogin(s) \/ Refresh(s)
  BY <1>1, <1>3, <1>4, <1>5, Zenon DEF Worker
<1>6. User => UNCHANGED directory
  BY DEF User, BeginLogin, BeginAutoLogin, BeginRefreshHosts, BeginSignOut, Launch, directory
<1>7. ASSUME World
      PROVE  EndsMerely \/ \E d \in Device, n \in 1 .. MaxCred : LateRefresh(d, n)
  <2>1. \A w \in Window : Crash(w) \/ CloseWindow(w) => UNCHANGED directory
    BY DEF Crash, CloseWindow, directory
  <2>2. \A a \in Account : DisableAccount(a) \/ EnableAccount(a) => EndsMerely
    BY DEF DisableAccount, EnableAccount, EndsMerely, EndsOnly, Ended, KnownAsBefore
  <2>3. Tick \/ (\E d \in Device : EndElsewhere(d)) => EndsMerely
    BY EndsFacts DEF EndsMerely, Tick, EndElsewhere
  <2> QED BY <1>1, <1>7, <2>1, <2>2, <2>3, Zenon DEF World
<1>8. UNCHANGED vars => UNCHANGED directory
  BY DEF vars
<1> QED BY <1>1, <1>5, <1>6, <1>7, <1>8 DEF Next

(* What Known will be. *)
StillNoneLater(d, n) == \A m \in Nat : <<d, m>> \in late' => m <= n
StillKnown(d, n) == d \notin Ended' => KnownRecord(devices'[d], n) /\ StillNoneLater(d, n)

(* What is said of the credentials that are stored, said of them next. *)
LEMMA StillKnownFacts ==
  /\ StoreIsKnown' <=> (cred'.dev # None => StillKnown(cred'.dev, cred'.n))
  /\ FreshIsKnown' <=> \A s \in Slot : work'[s].at \in Knowing /\ work'[s].dev # None
                                       => StillKnown(work'[s].dev, work'[s].n)
<1>1. StoreIsKnown' <=> (cred'.dev # None => StillKnown(cred'.dev, cred'.n))
  BY DEF StoreIsKnown, Known, NoneLater, StillKnown, StillNoneLater
<1>2. FreshIsKnown' <=> \A s \in Slot : work'[s].at \in Knowing /\ work'[s].dev # None
                                        => StillKnown(work'[s].dev, work'[s].n)
  BY DEF FreshIsKnown, Knowing, Unkept, Known, NoneLater, StillKnown, StillNoneLater
<1> QED BY <1>1, <1>2

(* What the directory knows of the credentials that are stored, and that are *)
(* about to be, where families are ended and no more,                        *)
LEMMA KnownEnds ==
  ASSUME Typed, Typed', HeldInv, Forgiving, [Next]_vars, EndsMerely
  PROVE  StoreIsKnown' /\ FreshIsKnown'
<1>1. /\ cred'.dev \in MaybeDevice
      /\ \A s \in Slot : work[s].dev \in MaybeDevice /\ work'[s].dev \in MaybeDevice
  BY DEF Typed, FilesTyped, WorkTyped, WorkerShape
<1>2. KnownMoves
  BY KnownMovesStep DEF EndsMerely
<1>3. ASSUME NEW d \in Device, NEW n, Known(d, n) PROVE StillKnown(d, n)
  BY <1>3 DEF EndsMerely, EndsOnly, KnownAsBefore, Known, NoneLater, StillKnown, StillNoneLater
<1>4. FreshIsKnown'
  <2> SUFFICES ASSUME NEW r \in Slot, work'[r].at \in Knowing, work'[r].dev # None
               PROVE  StillKnown(work'[r].dev, work'[r].n)
    BY StillKnownFacts
  <2>1. Known(work'[r].dev, work'[r].n) /\ work'[r].dev \in Device
    BY <1>1, <1>2 DEF KnownMoves, HeldInv, CoreInv, FreshIsKnown, MaybeDevice
  <2> QED BY <1>3, <2>1
<1>5. StoreIsKnown'
  <2> SUFFICES ASSUME cred'.dev # None PROVE StillKnown(cred'.dev, cred'.n)
    BY StillKnownFacts
  <2>1. cred'.dev \in Device
    BY <1>1 DEF MaybeDevice
  <2>2. Known(cred'.dev, cred'.n)
    BY <1>2 DEF KnownMoves, HeldInv, CoreInv, StoreIsKnown, FreshIsKnown, Knowing, Unkept
  <2> QED BY <1>3, <2>1, <2>2
<1> QED BY <1>4, <1>5

(* where somebody signs in,                                                  *)
LEMMA KnownLogin ==
  ASSUME Typed, HeldInv, NEW s \in Slot, NEW d \in Device, Joins(s, d), late' = late, cred' = cred,
         \/ Turns(s, "listed", d, 1, work[s].account, work[s].other, work[s].ended, work[s].queue)
         \/ Stops(s)
  PROVE  StoreIsKnown' /\ FreshIsKnown'
<1>1. ASSUME NEW o \in minted, NEW n, Known(o, n) PROVE StillKnown(o, n)
  <2>1. devices'[o] = devices[o] /\ (o \in Ended <=> o \in Ended') /\ o \in Device
    BY DEF Joins, Ended, Typed, DirectoryTyped
  <2> QED BY <1>1, <2>1 DEF Known, NoneLater, StillKnown, StillNoneLater
<1>2. StillKnown(d, 1)
  BY DEF Joins, StillKnown, StillNoneLater, HeldInv, CoreInv, LateIsNamed
<1>3. StoreIsKnown'
  BY <1>1, StillKnownFacts DEF HeldInv, CoreInv, Named, StoreIsKnown
<1>4. ASSUME NEW r \in Slot, work'[r].at \in Knowing, work'[r].dev # None
      PROVE  StillKnown(work'[r].dev, work'[r].n)
  <2>1. CASE r # s
    <3>1. work'[r] = work[r] /\ work[r].dev \in minted \cup {None}
      BY <2>1 DEF Turns, Stops, OthersStay, HeldInv, CoreInv, Named
    <3>2. Known(work[r].dev, work[r].n)
      BY <1>4, <3>1 DEF HeldInv, CoreInv, FreshIsKnown
    <3> QED BY <1>1, <1>4, <3>1, <3>2
  <2>2. CASE r = s
    BY <1>2, <1>4, <2>2 DEF Turns, Stops, Idle
  <2> QED BY <2>1, <2>2
<1> QED BY <1>3, <1>4, StillKnownFacts

(* where somebody comes back,                                                *)
LEMMA KnownRefresh ==
  ASSUME Typed, HeldInv, NEW s \in Slot, Refresh(s)
  PROVE  StoreIsKnown' /\ FreshIsKnown'
<1> DEFINE d == work[s].dev
<1>1. /\ At(s, "refresh") /\ Holds(s) /\ d \in Device /\ cred' = cred
      /\ late' = late \/ (late' = late \cup {<<d, work[s].n>>} /\ devices' = devices)
      /\ now' = now
      /\ \/ /\ Exchanged(s, TRUE)
            /\ Turns(s, "save", d, devices'[d].cred, work[s].account, work[s].other,
                     work[s].ended, work[s].queue)
         \/ /\ Exchanged(s, TRUE) \/ Exchanged(s, FALSE) \/ EndsOnly
            /\ Moves(s, "refused") \/ Moves(s, "come_back") \/ Moves(s, "drop") \/ Stops(s)
  BY RefreshExchanges DEF files
<1>2. d = cred.dev /\ work[s].n = cred.n
  BY <1>1 DEF At, HeldInv, CoreInv, AtTheStore
<1>3. cred.n \in Nat /\ d # None /\ Known(d, cred.n)
  BY <1>1, <1>2, NoneAssumption DEF HeldInv, CoreInv, StoreIsKnown, Typed, FilesTyped
<1>4. Ended \subseteq Ended'
  BY <1>1 DEF Exchanged, EndsOnly, Ended
<1>5. ASSUME d \notin Ended' PROVE KnownRecord(devices'[d], cred.n)
  <2>1. KnownRecord(devices[d], work[s].n)
    BY <1>1, <1>2, <1>3, <1>4, <1>5 DEF Known
  <2>2. IsLive(devices'[d], now)
    BY <1>1, <1>5 DEF Ended
  <2> QED BY <1>1, <1>2, <1>5, <2>1, <2>2 DEF Exchanged, EndsOnly, KnownAsBefore
<1>6. NoneLater(d, cred.n) => StillNoneLater(d, cred.n)
  BY <1>1, <1>2, <1>3 DEF NoneLater, StillNoneLater
<1>7. StoreIsKnown'
  BY <1>1, <1>2, <1>3, <1>4, <1>5, <1>6, StillKnownFacts DEF StillKnown, Known
<1>8. ASSUME NEW o \in Device \ {d}, NEW n, Known(o, n) PROVE StillKnown(o, n)
  <2>1. NoneLater(o, n) => StillNoneLater(o, n)
    BY <1>1 DEF NoneLater, StillNoneLater
  <2>2. o \notin Ended' => (KnownRecord(devices[o], n) => KnownRecord(devices'[o], n))
    BY <1>1 DEF Exchanged, EndsOnly, KnownAsBefore
  <2> QED BY <1>4, <1>8, <2>1, <2>2 DEF Known, StillKnown
<1>9. ASSUME NEW r \in Slot, r # s, work'[r].at \in Knowing, work'[r].dev # None
      PROVE  StillKnown(work'[r].dev, work'[r].n)
  <2>1. work'[r] = work[r]
    BY <1>1, <1>9 DEF Turns, Moves, Stops, OthersStay
  <2>2. work[r].at # "save"
    BY <1>1, <1>9 DEF At, Typed, LockHeld, Locked
  <2>3. work[r].dev \in Device \ {d}
    BY <1>2, <1>9, <2>1, <2>2
       DEF Knowing, HeldInv, CoreInv, Apart, Typed, WorkTyped, WorkerShape, MaybeDevice
  <2>4. Known(work[r].dev, work[r].n)
    BY <1>9, <2>1 DEF HeldInv, CoreInv, FreshIsKnown
  <2> QED BY <1>8, <2>1, <2>3, <2>4
<1>10. ASSUME work'[s].at \in Knowing PROVE StillKnown(work'[s].dev, work'[s].n)
  <2>1. /\ Exchanged(s, TRUE) /\ work'[s].dev = d /\ work'[s].n = devices'[d].cred
    <3>1. \/ /\ Exchanged(s, TRUE) /\ work'[s].dev = d /\ work'[s].n = devices'[d].cred
          \/ work'[s].at = "refused" \/ work'[s].at = "come_back" \/ work'[s].at = "drop"
          \/ work'[s] = Idle
      BY <1>1, Zenon DEF Turns, Moves, Stops
    <3>2. /\ work'[s].at \notin {"refused", "come_back", "drop"}
          /\ work'[s] # Idle
      BY <1>10 DEF Knowing, Unkept, Idle
    <3>3. ~(work'[s].at = "refused" \/ work'[s].at = "come_back" \/ work'[s].at = "drop")
      BY <3>2
    <3> QED BY <3>1, <3>2, <3>3, Zenon
  <2> SUFFICES ASSUME d \notin Ended' PROVE KnownRecord(devices'[d], devices'[d].cred)
                                            /\ StillNoneLater(d, devices'[d].cred)
    BY <2>1 DEF StillKnown
  <2>2. KnownRecord(devices[d], work[s].n) /\ NoneLater(d, cred.n)
    BY <1>1, <1>2, <1>3, <1>4 DEF Known
  <2>3. KnownRecord(devices'[d], devices'[d].cred)
    BY <2>1, <2>2 DEF Exchanged
  <2>4. cred.n <= devices'[d].cred /\ devices'[d].cred \in Nat
    <3>1. devices[d] \in DeviceRecord /\ devices'[d].cred = devices[d].cred + 1
      BY <1>1, <2>1 DEF Exchanged, Typed, DirectoryTyped
    <3> QED BY <1>2, <1>3, <2>2, <3>1 DEF KnownRecord, DeviceRecord
  <2>5. StillNoneLater(d, devices'[d].cred)
    BY <1>3, <1>6, <2>2, <2>4 DEF StillNoneLater
  <2> QED BY <2>3, <2>5
<1> QED BY <1>7, <1>9, <1>10, StillKnownFacts

(* and where a request comes late.                                           *)
LEMMA KnownLate ==
  ASSUME Typed, HeldInv, NEW d \in Device, NEW n \in 1 .. MaxCred, LateRefresh(d, n)
  PROVE  StoreIsKnown' /\ FreshIsKnown'
<1>1. /\ n \in Nat /\ <<d, n>> \in late /\ late' \subseteq late /\ now' = now
      /\ Ended \subseteq Ended' /\ cred' = cred /\ work' = work /\ IssuedKept > 1
  BY LateExchanges, LoginFlowAssumption DEF files, HeldInv, CoreInv, Undisturbed
<1>2. ASSUME NEW o \in Device, NEW k \in Nat, Known(o, k) PROVE StillKnown(o, k)
  <2> SUFFICES ASSUME o \notin Ended' PROVE KnownRecord(devices'[o], k) /\ StillNoneLater(o, k)
    BY DEF StillKnown
  <2>1. KnownRecord(devices[o], k) /\ NoneLater(o, k) /\ IsLive(devices'[o], now)
    BY <1>1, <1>2 DEF Known, Ended
  <2>2. CASE o = d
    BY <1>1, <2>1, <2>2, LateExchanges DEF NoneLater, StillNoneLater
  <2>3. CASE o # d
    BY <1>1, <2>1, <2>3, LateExchanges DEF NoneLater, StillNoneLater
  <2> QED BY <2>2, <2>3
<1>3. /\ cred.dev \in MaybeDevice /\ cred.n \in Nat
      /\ \A s \in Slot : work[s].dev \in MaybeDevice /\ work[s].n \in Nat
  BY DEF Typed, FilesTyped, WorkTyped, WorkerShape
<1>4. StoreIsKnown'
  BY <1>1, <1>2, <1>3, StillKnownFacts DEF HeldInv, CoreInv, StoreIsKnown, MaybeDevice
<1>5. FreshIsKnown'
  BY <1>1, <1>2, <1>3, StillKnownFacts DEF HeldInv, CoreInv, FreshIsKnown, MaybeDevice
<1> QED BY <1>4, <1>5

(* Only devices that were given out are in requests that are late. *)
LEMMA LateIsNamedStep ==
  ASSUME Typed, HeldInv,
         \/ EndsMerely
         \/ \E s \in Slot : DirectoryLogin(s) \/ Refresh(s)
         \/ \E d \in Device, n \in 1 .. MaxCred : LateRefresh(d, n)
  PROVE  LateIsNamed'
<1>1. CASE EndsMerely
  BY <1>1 DEF EndsMerely, EndsOnly, HeldInv, CoreInv, LateIsNamed
<1>2. ASSUME NEW s \in Slot, DirectoryLogin(s) PROVE LateIsNamed'
  BY <1>2, LoginJoins DEF Joins, EndsOnly, HeldInv, CoreInv, LateIsNamed
<1>3. ASSUME NEW s \in Slot, Refresh(s) PROVE LateIsNamed'
  <2>1. /\ work[s].dev \in minted /\ minted' = minted
        /\ late' = late \/ late' = late \cup {<<work[s].dev, work[s].n>>}
    BY <1>3, RefreshExchanges, NoneAssumption DEF HeldInv, CoreInv, Named
  <2> QED BY <2>1 DEF HeldInv, CoreInv, LateIsNamed
<1>4. ASSUME NEW d \in Device, NEW n \in 1 .. MaxCred, LateRefresh(d, n) PROVE LateIsNamed'
  BY <1>4, LateExchanges DEF HeldInv, CoreInv, LateIsNamed
<1> QED BY <1>1, <1>2, <1>3, <1>4

(* Every step keeps what the directory knows. *)
LEMMA KnownStep ==
  ASSUME Typed, Typed', HeldInv, Forgiving, [Next]_vars
  PROVE  StoreIsKnown' /\ FreshIsKnown'
<1>1. ASSUME NEW s \in Slot, DirectoryLogin(s) PROVE EndsMerely \/ (StoreIsKnown' /\ FreshIsKnown')
  <2>1. cred' = cred /\ late' = late
    BY <1>1, LoginJoins DEF files
  <2>2. CASE EndsOnly
    BY <2>1, <2>2 DEF EndsMerely
  <2>3. CASE ~EndsOnly
    <3>1. PICK d \in Device :
            /\ Joins(s, d)
            /\ \/ Turns(s, "listed", d, 1, work[s].account, work[s].other, work[s].ended,
                        work[s].queue)
               \/ Stops(s)
      BY <1>1, <2>3, LoginJoins
    <3> QED BY <2>1, <3>1, KnownLogin
  <2> QED BY <2>2, <2>3
<1> QED BY <1>1, EndsStep, KnownEnds, KnownRefresh, KnownLate

(* At the start there is no device. *)
LEMMA HeldInit == Init => HeldInv
<1> SUFFICES ASSUME Init PROVE HeldInv
  OBVIOUS
<1>1. Ended = Device
  BY DEF Init, Ended, IsLive, InStore, NoRecord
<1>2. \A s \in Slot : work[s] = Idle
  BY DEF Init
<1>3. Undisturbed /\ LateIsNamed /\ Named
  BY <1>2 DEF Init, Undisturbed, LateIsNamed, Named, InStore, NoRecord, NoCred, Idle
<1>4. Apart /\ AtTheStore /\ StoreIsKnown /\ FreshIsKnown
  BY <1>2 DEF Init, Apart, AtTheStore, StoreIsKnown, FreshIsKnown, Knowing, Unkept, NoCred, Idle
<1>5. WorkersKnow /\ Held
  BY <1>1, <1>2 DEF WorkersKnow, Held, Idle
<1> QED BY <1>3, <1>4, <1>5 DEF HeldInv, CoreInv

(* Every step keeps all that is known of the devices. *)
LEMMA HeldKept ==
  ASSUME Forgiving
  PROVE  Typed /\ HeldInv /\ [Next]_vars => HeldInv'
<1> SUFFICES ASSUME Typed, HeldInv, [Next]_vars PROVE HeldInv'
  OBVIOUS
<1>1. Typed'
  BY TypedStep
<1>2. \/ EndsMerely
      \/ \E s \in Slot : DirectoryLogin(s) \/ Refresh(s)
      \/ \E d \in Device, n \in 1 .. MaxCred : LateRefresh(d, n)
  BY EndsStep
<1>3. WorkersKnow' /\ Held'
  BY <1>2, WorkersStep, WorkersLogin, WorkersRefresh, HeldStep, HeldLogin, HeldRefresh,
     WorkersAndHeldLate DEF EndsMerely
<1>4. StoreIsKnown' /\ FreshIsKnown' /\ LateIsNamed'
  BY <1>1, <1>2, KnownStep, LateIsNamedStep
<1>5. Undisturbed' /\ CoreInv'
  BY UndisturbedStep, CoreStep DEF HeldInv
<1> QED BY <1>3, <1>4, <1>5 DEF HeldInv

(* A device that is alive at the directory can be ended by this client: its  *)
(* token is stored, owed, set aside, or with a worker about to do one of     *)
(* these, unless the log has said that it could not be kept.  An account     *)
(* that is disabled is left out: a credential that is refused then is erased *)
(* while its device lives on.  Where requests come late the directory has to *)
(* remember two credentials (it remembers 32), or one of them makes it       *)
(* forget the client's, with the same end (login_flow.cpp, remember_sign_in, *)
(* end_unkept_device, retire_under_lock, come_back; device_credentials.js,   *)
(* rotate).                                                                  *)
THEOREM LiveDevicesStayHeld ==
  /\ "disable" \notin Faults
  /\ "late" \in Faults => IssuedKept > 1
  /\ Spec
  => []LiveDevicesAreHeld
<1> SUFFICES ASSUME Forgiving PROVE Spec => []LiveDevicesAreHeld
  BY DEF Forgiving
<1>1. Init => Typed /\ HeldInv
  BY TypedInit, HeldInit
<1>2. Typed /\ HeldInv /\ [Next]_vars => Typed' /\ HeldInv'
  BY TypedStep, HeldKept
<1>3. Typed /\ HeldInv => LiveDevicesAreHeld
  <2> SUFFICES ASSUME Typed, HeldInv, NEW d \in Device, IsLive(devices[d], now)
               PROVE  d \in {cred.dev} \cup owed \cup aside \cup HeldByWorkers \cup disowned
    BY DEF LiveDevicesAreHeld
  <2>1. d = cred.dev \/ d \in owed \/ d \in aside \/ d \in disowned \/ d \in InHands
    BY DEF HeldInv, CoreInv, Held, Ended
  <2>2. InHands \subseteq HeldByWorkers
    BY DEF InHands, HeldByWorkers
  <2> QED BY <2>1, <2>2
<1> QED BY <1>1, <1>2, <1>3, PTL DEF Spec
-----------------------------------------------------------------------------
(* One interruption *)

(* The next credential waits to be stored. *)
Saving == \E s \in Slot : work[s].at = "save"

(* Until a second failure, the credential that is stored is the current one, *)
(* or the one before it: then its answer is on the way to the store or has   *)
(* failed to get there, and the one stored is still in grace, unless it has  *)
(* been used so by the one whose answer is on the way.                       *)
Forgivable(r, n) ==
  \/ n = r.cred
  \/ /\ n = r.prev /\ n # 0
     /\ faults = 1 \/ Saving
     /\ r.prevUses > 0 \/ (faults = 1 /\ Saving)
StoreIsForgiven ==
  faults <= 1 /\ cred.dev # None /\ cred.dev \notin Ended
    => Forgivable(devices[cred.dev], cred.n)

(* One that is about to be stored is the current one. *)
FreshIsCurrent ==
  \A s \in Slot :
    faults <= 1 /\ work[s].at \in Knowing /\ work[s].dev # None /\ work[s].dev \notin Ended
      => work[s].n = devices[work[s].dev].cred

LuckInv == faults \in Nat /\ late = {} /\ CoreInv /\ StoreIsForgiven /\ FreshIsCurrent

(* A step fails in one way at most. *)
FaultsGo == faults' = faults \/ faults' = faults + 1

(* The operations that may fail. *)
LEMMA FaultsOnce ==
  /\ NoFault => FaultsGo
  /\ \A kind : Fault(kind) => FaultsGo
  /\ \A v : BumpGeneration(v) => FaultsGo
  /\ \A next : Save(next, TRUE) \/ Save(next, FALSE) => FaultsGo
  /\ Erase(TRUE) \/ Erase(FALSE) => FaultsGo
  /\ \A d : AddPendingRevoke(d, TRUE) \/ AddPendingRevoke(d, FALSE) => FaultsGo
  /\ \A d : RemovePendingRevoke(d) => FaultsGo
  /\ \A d : TellDirectory(d, TRUE) \/ TellDirectory(d, FALSE) => FaultsGo
  BY Zenon DEF NoFault, Fault, BumpGeneration, Save, Erase, AddPendingRevoke,
     RemovePendingRevoke, TellDirectory, FaultsGo

(* Every step. *)
LEMMA FaultsStep == [Next]_vars => FaultsGo
<1>1. UNCHANGED faults => FaultsGo
  BY DEF FaultsGo
<1>2. ASSUME NEW s \in Slot,
             \/ Listed(s) \/ Adopt(s) \/ Relisted(s) \/ Drop(s)
      PROVE  FaultsGo
  BY <1>1, <1>2, Zenon DEF Listed, Adopt, Relisted, Drop
<1>3. ASSUME NEW s \in Slot,
             \/ BeginSignIn(s) \/ BumpBeforeKeeping(s) \/ SignOut(s) \/ EraseRefused(s)
      PROVE  FaultsGo
  BY <1>3, FaultsOnce, Zenon DEF BeginSignIn, BumpBeforeKeeping, SignOut, EraseRefused
<1>4. ASSUME NEW s \in Slot,
             \/ DirectoryLogin(s) \/ Remember(s) \/ ComeBack(s) \/ Refresh(s)
             \/ SettleOwedSignOuts(s)
      PROVE  FaultsGo
  BY <1>4, FaultsOnce, Zenon
     DEF DirectoryLogin, Remember, ComeBack, Refresh, SettleOwedSignOuts
<1>5. ASSUME NEW s \in Slot,
             \/ Replace(s) \/ Keep(s) \/ RecordUnkeptDevice(s) \/ RemoveSettled(s) \/ SaveNext(s)
             \/ Retire(s) \/ EraseRetired(s) \/ ClearRecord(s) \/ EraseEnded(s)
      PROVE  FaultsGo
  BY <1>5, FaultsOnce, Zenon
     DEF Replace, Keep, RecordUnkeptDevice, RemoveSettled, SaveNext, Retire, EraseRetired,
         ClearRecord, EraseEnded
<1>6. ASSUME NEW s \in Slot, TellPrevious(s) \/ EndUnkeptDevice(s) \/ TellSignOut(s)
      PROVE  FaultsGo
  BY <1>6, FaultsOnce, Zenon DEF TellPrevious, EndUnkeptDevice, TellSignOut
<1>7. ASSUME NEW s \in Slot, SettleOne(s) PROVE FaultsGo
  <2>1. \/ UNCHANGED <<directory, faults>>
        \/ \E d \in work[s].queue, ended \in BOOLEAN : TellDirectory(d, ended)
    BY <1>7, Zenon DEF SettleOne
  <2>2. ASSUME NEW d, NEW ended \in BOOLEAN, TellDirectory(d, ended) PROVE FaultsGo
    BY <2>2 DEF TellDirectory, NoFault, Fault, FaultsGo
  <2> QED BY <1>1, <2>1, <2>2
<1>8. ASSUME User PROVE FaultsGo
  BY <1>1, <1>8, Zenon
     DEF User, BeginLogin, BeginAutoLogin, BeginRefreshHosts, BeginSignOut, Launch
<1>9. ASSUME World PROVE FaultsGo
  BY <1>1, <1>9, FaultsOnce, Zenon
     DEF World, Crash, CloseWindow, Tick, EndElsewhere, LateRefresh, DisableAccount, EnableAccount
<1>10. UNCHANGED vars => FaultsGo
  BY <1>1 DEF vars
<1> QED
  BY <1>2, <1>3, <1>4, <1>5, <1>6, <1>7, <1>8, <1>9, <1>10, Zenon DEF Next, Worker

(* Who waits to store goes on waiting, stores, or fails. *)
SavesStay ==
  \A r \in Slot : work[r].at = "save" =>
    \/ work'[r].at = "save"
    \/ faults' = faults + 1
    \/ cred'.dev = work[r].dev /\ cred'.n = work[r].n

(* What a worker becomes is no matter of another's. *)
LEMMA OthersAreLeft ==
  ASSUME WorkTyped, NEW s \in Slot
  PROVE  /\ \A worker : Becomes(s, worker) => OthersStay(s)
         /\ \A place : GoesTo(s, place) => OthersStay(s)
         /\ Done(s) => OthersStay(s)
         /\ NotKept(s) => OthersStay(s)
         /\ ComesLater(s) => OthersStay(s)
         /\ ComesToNothing(s) => OthersStay(s)
<1>1. \A worker : Becomes(s, worker) => OthersStay(s)
  BY DEF Becomes, OthersStay, WorkTyped
<1>2. (\A place : GoesTo(s, place) => OthersStay(s)) /\ (Done(s) => OthersStay(s))
  BY <1>1, Zenon DEF GoesTo, Done
<1> QED BY <1>1, <1>2, Zenon DEF NotKept, ComesLater, ComesToNothing

(* Every step. *)
LEMMA SavesStayStep ==
  ASSUME Typed, [Next]_vars
  PROVE  SavesStay
<1>1. WorkTyped
  BY DEF Typed
<1>2. (\A r \in Slot : work'[r].at = work[r].at) => SavesStay
  BY DEF SavesStay
<1>3. ASSUME NEW s \in Slot, work[s].at # "save", OthersStay(s) PROVE SavesStay
  BY <1>3 DEF SavesStay, OthersStay
<1>4. ASSUME NEW s \in Slot,
             \/ DirectoryLogin(s) \/ Listed(s) \/ Remember(s) \/ Replace(s) \/ TellPrevious(s)
             \/ BumpBeforeKeeping(s) \/ Keep(s) \/ EndUnkeptDevice(s) \/ RecordUnkeptDevice(s)
             \/ Adopt(s) \/ SettleOwedSignOuts(s) \/ SettleOne(s) \/ RemoveSettled(s)
             \/ ComeBack(s) \/ Refresh(s) \/ EraseRefused(s) \/ Relisted(s)
             \/ Retire(s) \/ EraseRetired(s) \/ TellSignOut(s) \/ ClearRecord(s) \/ EraseEnded(s)
      PROVE  SavesStay
  <2>1. OthersStay(s)
    <3>1. /\ DirectoryLogin(s) => OthersStay(s)
          /\ Listed(s) \/ Remember(s) \/ Replace(s) \/ TellPrevious(s) => OthersStay(s)
      BY <1>1, OthersAreLeft, Zenon
         DEF DirectoryLogin, Listed, Remember, Replace, TellPrevious
    <3>2. BumpBeforeKeeping(s) \/ Keep(s) \/ EndUnkeptDevice(s) => OthersStay(s)
      BY <1>1, OthersAreLeft, Zenon DEF BumpBeforeKeeping, Keep, EndUnkeptDevice
    <3>3. RecordUnkeptDevice(s) \/ Adopt(s) \/ SettleOwedSignOuts(s) => OthersStay(s)
      BY <1>1, OthersAreLeft, Zenon DEF RecordUnkeptDevice, Adopt, SettleOwedSignOuts
    <3>4. SettleOne(s) \/ RemoveSettled(s) => OthersStay(s)
      BY <1>1, OthersAreLeft, Zenon DEF SettleOne, RemoveSettled
    <3>5. ComeBack(s) \/ Refresh(s) \/ EraseRefused(s) \/ Relisted(s) => OthersStay(s)
      BY <1>1, OthersAreLeft, Zenon DEF ComeBack, Refresh, EraseRefused, Relisted
    <3>6. Retire(s) \/ EraseRetired(s) \/ TellSignOut(s) => OthersStay(s)
      BY <1>1, OthersAreLeft, Zenon DEF Retire, EraseRetired, TellSignOut
    <3>7. ClearRecord(s) \/ EraseEnded(s) => OthersStay(s)
      BY <1>1, OthersAreLeft, Zenon DEF ClearRecord, EraseEnded
    <3> QED BY <1>4, <3>1, <3>2, <3>3, <3>4, <3>5, <3>6, <3>7, Zenon
  <2>2. work[s].at # "save"
    <3>1. /\ DirectoryLogin(s) => At(s, "login")
          /\ Listed(s) => At(s, "listed")
          /\ Remember(s) => At(s, "remember")
          /\ Replace(s) => At(s, "replace")
          /\ TellPrevious(s) => At(s, "tell_previous")
      BY Zenon DEF DirectoryLogin, Listed, Remember, Replace, TellPrevious
    <3>2. BumpBeforeKeeping(s) \/ Keep(s) \/ EndUnkeptDevice(s) \/ RecordUnkeptDevice(s)
            => work[s].at # "save"
      BY DEF BumpBeforeKeeping, Keep, EndUnkeptDevice, RecordUnkeptDevice, At
    <3>3. /\ Adopt(s) => At(s, "adopt")
          /\ SettleOwedSignOuts(s) => At(s, "settle")
          /\ SettleOne(s) => At(s, "settling")
          /\ RemoveSettled(s) => At(s, "settled")
      BY Zenon DEF Adopt, SettleOwedSignOuts, SettleOne, RemoveSettled
    <3>4. ComeBack(s) \/ Refresh(s) \/ EraseRefused(s) \/ Relisted(s)
            => work[s].at # "save"
      BY DEF ComeBack, Refresh, EraseRefused, Relisted, At
    <3>5. Retire(s) \/ EraseRetired(s) \/ TellSignOut(s) => work[s].at # "save"
      BY DEF Retire, EraseRetired, TellSignOut, At
    <3>6. ClearRecord(s) \/ EraseEnded(s) => work[s].at # "save"
      BY DEF ClearRecord, EraseEnded, At
    <3> QED BY <1>4, <3>1, <3>2, <3>3, <3>4, <3>5, <3>6 DEF At
  <2> QED BY <1>3, <2>1, <2>2
<1>5. ASSUME NEW s \in Slot, SaveNext(s) PROVE SavesStay
  <2>1. OthersStay(s)
    BY <1>1, <1>5, OthersAreLeft, Zenon DEF SaveNext
  <2>2. faults' = faults + 1 \/ (cred'.dev = work[s].dev /\ cred'.n = work[s].n)
    BY <1>5 DEF SaveNext, Save, Fault
  <2> QED BY <2>1, <2>2 DEF SavesStay, OthersStay
<1>6. ASSUME NEW s \in Slot, BeginSignIn(s) \/ SignOut(s) PROVE SavesStay
  BY <1>1, <1>6, AsksDo, WorkerMoves
     DEF At, Overtakes, Moves, Turns, Stops, OthersStay, SavesStay
<1>7. ASSUME NEW s \in Slot, Drop(s) PROVE SavesStay
  BY <1>1, <1>7, DropDoes DEF At, Goes, Stays, SavesStay
<1>8. ASSUME User PROVE SavesStay
  <2>1. PICK s \in Slot, w \in Window :
          \/ \E a \in Account : BeginLogin(s, w, a)
          \/ BeginAutoLogin(s, w) \/ BeginRefreshHosts(s, w) \/ BeginSignOut(s, w)
    BY <1>8 DEF User
  <2>2. PICK place, a : At(s, "idle") /\ Launches(s, place, w, a)
    BY <1>1, <2>1, BeginsDo, Zenon DEF Begins
  <2> QED BY <2>2 DEF At, Launches, Stays, SavesStay
<1>9. ASSUME NEW w \in Window, Crash(w) PROVE SavesStay
  BY <1>9 DEF Crash, Fault, SavesStay
<1>10. ASSUME World PROVE SavesStay
  <2>1. (\E w \in Window : Crash(w)) \/ work' = work
    BY <1>10
       DEF World, CloseWindow, Tick, EndElsewhere, LateRefresh, DisableAccount, EnableAccount
  <2> QED BY <1>2, <1>9, <2>1
<1>11. UNCHANGED vars => SavesStay
  BY <1>2 DEF vars
<1> QED
  BY <1>4, <1>5, <1>6, <1>7, <1>8, <1>10, <1>11, Zenon DEF Next, Worker

(* What an exchange does where it succeeds: what is presented is the one     *)
(* before the current one then, and has a use in grace if it was current.    *)
Rotated(d, n) ==
  /\ IsLive(devices[d], now)
  /\ devices'[d].cred = devices[d].cred + 1
  /\ devices'[d].prev = n /\ n # 0
  /\ n = devices[d].cred => devices'[d].prevUses > 0

LEMMA RotatedFacts ==
  ASSUME DirectoryTyped, NEW d \in Device, NEW n \in Nat, devices' = Exchanges(d, n).next
  PROVE  /\ Exchanges(d, n).ok => Rotated(d, n)
         /\ ~Exchanges(d, n).ok => devices' = devices \/ ~IsLive(devices'[d], now)
<1> DEFINE r == devices[d]
           verdict == Classify(r, n, now)
           accepted == verdict \in {"current", "grace"}
<1>1. r \in DeviceRecord /\ devices \in [Device -> DeviceRecord]
  BY DEF DirectoryTyped
<1>2. ASSUME Exchanges(d, n).ok PROVE Rotated(d, n)
  <2>1. accepted /\ devices'[d] = Rotate(r, verdict, now)
    BY <1>1, <1>2 DEF Exchanges
  <2>2. /\ verdict = "current" => n = r.cred
        /\ verdict = "grace" => n = r.prev /\ n # 0 /\ n # r.cred
        /\ IsLive(r, now) /\ r.cred # 0
    BY <2>1 DEF Classify, IsLive, InStore
  <2>3. /\ devices'[d].cred = r.cred + 1
        /\ devices'[d].prev = IF verdict = "current" THEN r.cred ELSE r.prev
        /\ devices'[d].prevUses = IF verdict = "current" THEN GraceUses ELSE 0
    BY <2>1 DEF Rotate
  <2>4. GraceUses > 0
    BY LimitsAssumption
  <2> QED BY <2>1, <2>2, <2>3, <2>4 DEF Rotated
<1>3. ASSUME ~Exchanges(d, n).ok PROVE devices' = devices \/ ~IsLive(devices'[d], now)
  BY <1>1, <1>3, RevokeAllFacts DEF Exchanges
<1> QED BY <1>2, <1>3

(* A refresh, and what becomes of its worker. *)
LEMMA RefreshLuck ==
  ASSUME Typed, NEW s \in Slot, Refresh(s)
  PROVE  LET d == work[s].dev IN
         /\ At(s, "refresh") /\ Holds(s) /\ d \in Device /\ cred' = cred /\ now' = now
         /\ OthersStay(s)
         /\ \A o \in Device \ {d} : devices'[o] = devices[o]
         /\ \/ /\ Rotated(d, work[s].n)
               /\ \/ /\ work'[s].at = "save" /\ work'[s].dev = d
                     /\ work'[s].n = devices'[d].cred /\ faults' = faults
                  \/ work'[s].at \notin Knowing /\ faults' = faults + 1
            \/ /\ devices'[d] = devices[d] \/ ~IsLive(devices'[d], now)
               /\ work'[s].at \notin Knowing
<1> DEFINE w == work[s]
           exchange == Exchanges(w.dev, w.n)
<1>1. WorkTyped /\ DirectoryTyped
  BY DEF Typed
<1>2. /\ At(s, "refresh") /\ Holds(s) /\ cred' = cred /\ now' = now
      /\ OthersStay(s) /\ w.dev \in Device /\ w.n \in Nat
  <2>1. OthersStay(s)
    BY <1>1, OthersAreLeft, Zenon DEF Refresh
  <2> QED BY <1>1, <2>1, RefreshDoes
          DEF At, WorkTyped, WorkerShape, HasDevice, MaybeDevice, files
<1>3. /\ ComesLater(s) => work'[s].at \notin Knowing
      /\ ComesToNothing(s) => work'[s].at \notin Knowing
      /\ GoesTo(s, "refused") => work'[s].at \notin Knowing
  <2>1. Moves(s, "come_back") \/ Moves(s, "drop") \/ Moves(s, "refused") \/ Stops(s)
          => work'[s].at \notin Knowing
    BY DEF Moves, Turns, Stops, Idle, Knowing, Unkept
  <2> QED BY <1>1, <2>1, ComesLaterDoes, ComesToNothingDoes, WorkerMoves
<1>4. CASE /\ devices' = exchange.next
           /\ \/ /\ IF exchange.ok
                      THEN Becomes(s, [w EXCEPT !.at = "save", !.n = exchange.next[w.dev].cred])
                      ELSE GoesTo(s, "refused")
                 /\ NoFault
              \/ ComesLater(s) /\ Fault("lost")
  <2>1. /\ exchange.ok => Rotated(w.dev, w.n)
        /\ ~exchange.ok => devices' = devices \/ ~IsLive(devices'[w.dev], now)
        /\ \A o \in Device \ {w.dev} : devices'[o] = devices[o]
    BY <1>1, <1>2, <1>4, RotatedFacts, ExchangeFacts
  <2>2. Becomes(s, [w EXCEPT !.at = "save", !.n = exchange.next[w.dev].cred])
          => /\ work'[s].at = "save" /\ work'[s].dev = w.dev
             /\ work'[s].n = exchange.next[w.dev].cred
    <3> HIDE DEF exchange
    <3> QED BY <1>1, SetsSave, Zenon DEF Turns
  <2>3. /\ NoFault => faults' = faults
        /\ Fault("lost") => faults' = faults + 1
    BY DEF NoFault, Fault
  <2>4. CASE exchange.ok
    BY <1>2, <1>3, <1>4, <2>1, <2>2, <2>3, <2>4, Zenon
  <2>5. CASE ~exchange.ok
    BY <1>2, <1>3, <1>4, <2>1, <2>5, Zenon
  <2> QED BY <2>4, <2>5
<1>5. CASE devices' = devices /\ (ComesLater(s) \/ ComesToNothing(s))
  BY <1>2, <1>3, <1>5
<1> QED BY <1>4, <1>5, Zenon DEF Refresh

(* Every step keeps the credential forgiven where families are ended and no  *)
(* more,                                                                     *)
LEMMA LuckEnds ==
  ASSUME Typed, Typed', LuckInv, [Next]_vars, EndsMerely
  PROVE  StoreIsForgiven' /\ FreshIsCurrent'
<1>1. /\ cred'.dev \in MaybeDevice
      /\ \A s \in Slot : work[s].dev \in MaybeDevice /\ work'[s].dev \in MaybeDevice
  BY DEF Typed, FilesTyped, WorkTyped, WorkerShape
<1>2. KnownMoves
  BY KnownMovesStep DEF EndsMerely
<1>3. /\ faults' = faults \/ faults' = faults + 1
      /\ faults \in Nat
  BY FaultsStep DEF FaultsGo, LuckInv
<1>4. \A d \in Device : d \notin Ended' =>
        /\ d \notin Ended
        /\ devices'[d].cred = devices[d].cred /\ devices'[d].prev = devices[d].prev
        /\ devices'[d].prevUses = devices[d].prevUses
  BY DEF EndsMerely, EndsOnly, KnownAsBefore
<1>5. \A s \in Slot :
        /\ faults' <= 1 /\ work[s].at \in Knowing /\ work[s].dev # None
        /\ work[s].dev \notin Ended'
        => work[s].n = devices'[work[s].dev].cred
  BY <1>1, <1>3, <1>4 DEF LuckInv, FreshIsCurrent, MaybeDevice
<1>6. FreshIsCurrent'
  BY <1>2, <1>5 DEF KnownMoves, FreshIsCurrent, Knowing, Unkept
<1>7. ASSUME faults' <= 1, cred'.dev # None, cred'.dev \notin Ended'
      PROVE  \/ cred'.n = devices'[cred'.dev].cred
             \/ /\ cred'.n = devices'[cred'.dev].prev /\ cred'.n # 0
                /\ faults' = 1 \/ Saving'
                /\ devices'[cred'.dev].prevUses > 0 \/ (faults' = 1 /\ Saving')
  <2>1. cred'.dev \in Device /\ cred'.dev \notin Ended
    BY <1>1, <1>4, <1>7 DEF MaybeDevice
  <2>2. ASSUME NEW s \in Slot, work[s].at \in Knowing, cred'.dev = work[s].dev,
               cred'.n = work[s].n
        PROVE  cred'.n = devices'[cred'.dev].cred
    BY <1>5, <1>7, <2>1, <2>2
  <2>3. CASE cred' = cred
    <3>1. \/ cred.n = devices'[cred.dev].cred
          \/ /\ cred.n = devices'[cred.dev].prev /\ cred.n # 0
             /\ faults = 1 \/ Saving
             /\ devices'[cred.dev].prevUses > 0 \/ (faults = 1 /\ Saving)
      BY <1>3, <1>4, <1>7, <2>1, <2>3 DEF LuckInv, StoreIsForgiven, Forgivable
    <3>2. Saving => \/ Saving' \/ faults' = faults + 1
                    \/ cred'.n = devices'[cred'.dev].cred
      BY <2>2, SavesStayStep DEF Saving, SavesStay, Knowing
    <3> QED BY <1>3, <1>7, <2>3, <3>1, <3>2
  <2>4. CASE \E s \in Slot : /\ work[s].at \in {"keep", "save"}
                             /\ cred'.dev = work[s].dev /\ cred'.n = work[s].n
    BY <2>2, <2>4 DEF Knowing, Unkept
  <2> QED BY <1>2, <1>7, <2>3, <2>4 DEF KnownMoves
<1> QED BY <1>6, <1>7 DEF StoreIsForgiven, Forgivable

(* where somebody signs in,                                                  *)
LEMMA LuckLogin ==
  ASSUME Typed, LuckInv, NEW s \in Slot, NEW d \in Device, Joins(s, d), cred' = cred, FaultsGo,
         work[s].at # "save",
         \/ Turns(s, "listed", d, 1, work[s].account, work[s].other, work[s].ended, work[s].queue)
         \/ Stops(s)
  PROVE  StoreIsForgiven' /\ FreshIsCurrent'
<1>1. faults \in Nat /\ (faults' = faults \/ faults' = faults + 1)
  BY DEF LuckInv, FaultsGo
<1>2. \A o \in minted : devices'[o] = devices[o] /\ (o \in Ended <=> o \in Ended')
  BY DEF Joins, Ended, Typed, DirectoryTyped
<1>3. Saving => Saving'
  BY DEF Turns, Stops, OthersStay, Saving
<1>4. StoreIsForgiven'
  <2> SUFFICES ASSUME faults' <= 1, cred.dev # None, cred.dev \notin Ended'
               PROVE  \/ cred.n = devices'[cred.dev].cred
                      \/ /\ cred.n = devices'[cred.dev].prev /\ cred.n # 0
                         /\ faults' = 1 \/ Saving'
                         /\ devices'[cred.dev].prevUses > 0 \/ (faults' = 1 /\ Saving')
    BY DEF StoreIsForgiven, Forgivable
  <2>1. cred.dev \in minted
    BY DEF LuckInv, CoreInv, Named
  <2>2. Forgivable(devices'[cred.dev], cred.n)
    BY <1>1, <1>2, <2>1 DEF LuckInv, StoreIsForgiven
  <2> QED BY <1>1, <1>3, <2>2 DEF Forgivable
<1>5. ASSUME NEW r \in Slot, faults' <= 1, work'[r].at \in Knowing, work'[r].dev # None,
             work'[r].dev \notin Ended'
      PROVE  work'[r].n = devices'[work'[r].dev].cred
  <2>1. CASE r # s
    <3>1. work'[r] = work[r] /\ work[r].dev \in minted \cup {None}
      BY <2>1 DEF Turns, Stops, OthersStay, LuckInv, CoreInv, Named
    <3> QED BY <1>1, <1>2, <1>5, <3>1 DEF LuckInv, FreshIsCurrent
  <2>2. CASE r = s
    BY <1>5, <2>2 DEF Turns, Stops, Idle, Joins
  <2> QED BY <2>1, <2>2
<1> QED BY <1>4, <1>5 DEF FreshIsCurrent, Knowing, Unkept

(* and where somebody comes back: nobody else is about to store what follows *)
(* the credential that is stored.                                            *)
LEMMA LuckRefresh ==
  ASSUME Typed, LuckInv, NEW s \in Slot, Refresh(s), FaultsGo
  PROVE  StoreIsForgiven' /\ FreshIsCurrent'
<1> DEFINE d == work[s].dev
<1>1. /\ At(s, "refresh") /\ Holds(s) /\ d \in Device /\ cred' = cred /\ now' = now
      /\ OthersStay(s)
      /\ \A o \in Device \ {d} : devices'[o] = devices[o]
      /\ \/ /\ Rotated(d, work[s].n)
            /\ \/ /\ work'[s].at = "save" /\ work'[s].dev = d
                  /\ work'[s].n = devices'[d].cred /\ faults' = faults
               \/ work'[s].at \notin Knowing /\ faults' = faults + 1
         \/ /\ devices'[d] = devices[d] \/ ~IsLive(devices'[d], now)
            /\ work'[s].at \notin Knowing
  BY RefreshLuck
<1>2. faults \in Nat /\ (faults' = faults \/ faults' = faults + 1)
  BY DEF LuckInv, FaultsGo
<1>3. d = cred.dev /\ work[s].n = cred.n /\ d # None
  BY <1>1, NoneAssumption DEF At, LuckInv, CoreInv, AtTheStore
<1>4. ~Saving
  BY <1>1 DEF At, Saving, Typed, LockHeld, Locked
<1>5. faults <= 1 /\ d \notin Ended =>
        cred.n = devices[d].cred \/ (cred.n = devices[d].prev /\ faults = 1 /\ cred.n # 0
                                     /\ devices[d].prevUses > 0)
  BY <1>3, <1>4 DEF LuckInv, StoreIsForgiven, Forgivable
<1>6. StoreIsForgiven'
  <2> SUFFICES ASSUME faults' <= 1, cred.dev # None, cred.dev \notin Ended'
               PROVE  \/ cred.n = devices'[d].cred
                      \/ /\ cred.n = devices'[d].prev /\ cred.n # 0
                         /\ faults' = 1 \/ Saving'
                         /\ devices'[d].prevUses > 0 \/ (faults' = 1 /\ Saving')
    BY <1>1, <1>3 DEF StoreIsForgiven, Forgivable
  <2>1. IsLive(devices'[d], now)
    BY <1>1, <1>3 DEF Ended
  <2>2. CASE Rotated(d, work[s].n)
    <3>1. /\ d \notin Ended /\ devices'[d].prev = cred.n /\ cred.n # 0
          /\ cred.n = devices[d].cred => devices'[d].prevUses > 0
      BY <1>1, <1>3, <2>2 DEF Rotated, Ended
    <3>2. CASE work'[s].at = "save" /\ faults' = faults
      <4>1. Saving'
        BY <3>2 DEF Saving
      <4> QED BY <1>2, <1>5, <3>1, <3>2, <4>1
    <3>3. CASE faults' = faults + 1
      BY <1>2, <1>5, <3>1, <3>3
    <3>4. CASE devices'[d] = devices[d]
      BY <1>1, <2>2, <3>4 DEF Rotated, Typed, DirectoryTyped, DeviceRecord
    <3> QED BY <1>1, <2>1, <3>2, <3>3, <3>4
  <2>3. CASE devices'[d] = devices[d]
    <3>1. d \notin Ended
      BY <1>1, <2>1, <2>3 DEF Ended
    <3> QED BY <1>2, <1>5, <2>3, <3>1
  <2> QED BY <1>1, <2>1, <2>2, <2>3
<1>7. ASSUME NEW r \in Slot, faults' <= 1, work'[r].at \in Knowing, work'[r].dev # None,
             work'[r].dev \notin Ended'
      PROVE  work'[r].n = devices'[work'[r].dev].cred
  <2>1. CASE r # s
    <3>1. work'[r] = work[r]
      BY <1>1, <2>1 DEF OthersStay
    <3>2. work[r].at \in Unkept
      BY <1>4, <1>7, <3>1 DEF Saving, Knowing
    <3>3. work[r].dev \in Device \ {d}
      BY <1>3, <1>7, <3>1, <3>2
         DEF LuckInv, CoreInv, Apart, Typed, WorkTyped, WorkerShape, MaybeDevice
    <3>4. devices'[work[r].dev] = devices[work[r].dev] /\ work[r].dev \notin Ended
      BY <1>1, <1>7, <3>1, <3>3 DEF Ended
    <3> QED BY <1>2, <1>7, <3>1, <3>4 DEF LuckInv, FreshIsCurrent
  <2>2. CASE r = s
    BY <1>1, <1>7, <2>2
  <2> QED BY <2>1, <2>2
<1> QED BY <1>6, <1>7 DEF FreshIsCurrent, Knowing, Unkept

(* Every step keeps the credential forgiven. *)
LEMMA LuckStep ==
  ASSUME "late" \notin Faults
  PROVE  Typed /\ LuckInv /\ [Next]_vars => LuckInv'
<1> SUFFICES ASSUME Typed, LuckInv, [Next]_vars PROVE LuckInv'
  OBVIOUS
<1>1. Typed' /\ CoreInv' /\ FaultsGo
  BY TypedStep, CoreStep, FaultsStep DEF LuckInv
<1>2. faults' \in Nat
  BY <1>1 DEF LuckInv, FaultsGo
<1>3. ASSUME NEW s \in Slot, DirectoryLogin(s)
      PROVE  late' = late /\ (EndsMerely \/ (StoreIsForgiven' /\ FreshIsCurrent'))
  <2>1. cred' = cred /\ late' = late /\ work[s].at # "save"
    <3>1. At(s, "login")
      BY <1>3, Zenon DEF DirectoryLogin
    <3> QED BY <1>3, <3>1, LoginJoins DEF files, At
  <2>2. CASE EndsOnly
    BY <2>1, <2>2 DEF EndsMerely
  <2>3. CASE ~EndsOnly
    <3>1. PICK d \in Device :
            /\ Joins(s, d)
            /\ \/ Turns(s, "listed", d, 1, work[s].account, work[s].other, work[s].ended,
                        work[s].queue)
               \/ Stops(s)
      BY <1>3, <2>3, LoginJoins
    <3> QED BY <1>1, <2>1, <3>1, LuckLogin
  <2> QED BY <2>1, <2>2, <2>3
<1>4. ASSUME NEW s \in Slot, Refresh(s) PROVE late' = late
  BY <1>4, RefreshExchanges
<1>5. ~ \E d \in Device, n \in 1 .. MaxCred : LateRefresh(d, n)
  BY DEF LateRefresh, LuckInv
<1>6. StoreIsForgiven' /\ FreshIsCurrent' /\ late' = late
  BY <1>1, <1>3, <1>4, <1>5, EndsStep, LuckEnds, LuckRefresh DEF EndsMerely
<1> QED BY <1>1, <1>2, <1>6 DEF LuckInv

(* One answer lost, write failed or process dead in the middle of coming     *)
(* back does not make the directory take this client's next attempt for a    *)
(* copy of its credential, within the minute of grace, and windows that come *)
(* back at the same time never do that to one another: for every number of   *)
(* windows and workers, every time of grace and every number of credentials  *)
(* remembered.  A request that was given up and comes late is left out: one  *)
(* that comes in grace after its retry supersedes what the client stored     *)
(* (login_flow.cpp, come_back; login_credential_store.cpp, Acquire and Save; *)
(* device_credentials.js, classify and rotate).                              *)
THEOREM InterruptionsAreForgiven ==
  "late" \notin Faults /\ Spec => []OneInterruptionIsForgiven
<1> SUFFICES ASSUME "late" \notin Faults PROVE Spec => []OneInterruptionIsForgiven
  OBVIOUS
<1>1. Init => Typed /\ LuckInv
  <2> SUFFICES ASSUME Init PROVE LuckInv
    BY TypedInit
  <2>1. \A s \in Slot : work[s] = Idle
    BY DEF Init
  <2> QED BY <2>1, CoreInit
          DEF Init, LuckInv, StoreIsForgiven, FreshIsCurrent, Knowing, Unkept, NoCred, Idle
<1>2. Typed /\ LuckInv /\ [Next]_vars => Typed' /\ LuckInv'
  BY TypedStep, LuckStep
<1>3. Typed /\ LuckInv => OneInterruptionIsForgiven
  <2> SUFFICES ASSUME Typed, LuckInv, faults <= 1, NEW s \in Slot, At(s, "refresh")
               PROVE  LET r == devices[work[s].dev]
                      IN  \/ Classify(r, work[s].n, now) # "reused"
                          \/ work[s].n = r.prev /\ r.prevUses > 0 /\ now > r.prevUntil
    BY DEF OneInterruptionIsForgiven
  <2> DEFINE r == devices[work[s].dev]
  <2>1. work[s].dev \in Device /\ work[s].dev = cred.dev /\ work[s].n = cred.n
    BY DEF At, LuckInv, CoreInv, AtTheStore, Typed, WorkTyped, WorkerShape, HasDevice, MaybeDevice
  <2>2. ~Saving
    BY DEF At, Saving, Typed, LockHeld, Locked
  <2>3. cred.dev \in Ended \/ cred.n = r.cred
        \/ (cred.n = r.prev /\ cred.n # 0 /\ r.prevUses > 0)
    BY <2>1, <2>2, NoneAssumption DEF LuckInv, StoreIsForgiven, Forgivable
  <2>4. r.prevUntil \in Nat /\ now \in Nat
    BY <2>1 DEF Typed, DirectoryTyped, DeviceRecord
  <2>5. CASE cred.dev \in Ended
    BY <2>1, <2>5 DEF Ended, Classify
  <2>6. CASE cred.n = r.cred
    BY <2>1, <2>6 DEF Classify
  <2>7. CASE cred.n = r.prev /\ cred.n # 0 /\ r.prevUses > 0
    <3>1. now <= r.prevUntil => Classify(r, work[s].n, now) # "reused"
      BY <2>1, <2>7 DEF Classify
    <3> QED BY <2>1, <2>4, <2>7, <3>1
  <2> QED BY <2>3, <2>5, <2>6, <2>7
<1> QED BY <1>1, <1>2, <1>3, PTL DEF Spec
===============================================================================
