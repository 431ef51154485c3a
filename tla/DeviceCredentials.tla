-------------------------- MODULE DeviceCredentials --------------------------
(***************************************************************************)
(* The rules of device credentials (apps/directory/device_credentials.js): *)
(* what a record of a device family says, and what creating, presenting,   *)
(* rotating, revoking and pruning do to it.  There are no variables here:  *)
(* like the source file, these operators decide and leave the storing to   *)
(* their caller.                                                           *)
(*                                                                         *)
(* A credential is a random value nobody can guess.  A family numbers its  *)
(* own in the order it issued them, from 1; 0 is a value made up by        *)
(* whoever presents it.  Hashing is left out: comparing hashes is          *)
(* comparing the numbers.                                                  *)
(***************************************************************************)
EXTENDS Naturals, FiniteSets

CONSTANTS
  Account,     \* account ids
  Device,      \* device ids: random, so none is ever given out twice
  None,        \* what stands where there is no account, device or host
  DeviceTtl,   \* DEVICE_TTL_MS: how long an unused family stays live
  GraceTime,   \* GRACE_MS: how long the credential rotated away is accepted
  GraceUses,   \* GRACE_USES: and how many times
  IssuedKept,  \* ISSUED_KEPT: superseded credentials remembered
  PerAccount,  \* PER_ACCOUNT: live families an account may have
  Tombstone    \* TOMBSTONE_MS: how long an ended family is remembered

ASSUME NoneAssumption == None \notin Account \cup Device

ASSUME LimitsAssumption ==
  /\ DeviceTtl \in Nat \ {0} /\ GraceTime \in Nat /\ GraceUses \in Nat \ {0}
  /\ IssuedKept \in Nat \ {0} /\ PerAccount \in Nat \ {0} /\ Tombstone \in Nat

(* A record.  `cred' is 0 in the place of a family that is not in the store. *)
(* `place' is where the record stands in the store's object, which keeps the *)
(* order of insertion; revokedAt is 0 while the family is not revoked.       *)
DeviceRecord ==
  [account: Account \cup {None}, cred: Nat, prev: Nat, prevUntil: Nat,
   prevUses: Nat, issued: SUBSET Nat, lastUsedAt: Nat, revokedAt: Nat,
   place: Nat]

NoRecord ==
  [account |-> None, cred |-> 0, prev |-> 0, prevUntil |-> 0, prevUses |-> 0,
   issued |-> {}, lastUsedAt |-> 0, revokedAt |-> 0, place |-> 0]

InStore(r) == r.cred # 0

(* Every use pushes the expiry out again, so it is always this far from the *)
(* last one.                                                                *)
ExpiresAt(r) == r.lastUsedAt + DeviceTtl

IsLive(r, now) == InStore(r) /\ r.revokedAt = 0 /\ ExpiresAt(r) > now

CreateFamily(devices, account, d, place, now) ==
  [devices EXCEPT ![d] =
     [account |-> account, cred |-> 1, prev |-> 0, prevUntil |-> 0,
      prevUses |-> 0, issued |-> {1}, lastUsedAt |-> now, revokedAt |-> 0,
      place |-> place]]

(* What a presented credential is to a family. *)
Classify(r, n, now) ==
  IF ~InStore(r) THEN "unknown"
  ELSE IF ~IsLive(r, now) THEN "dead"
  ELSE IF n = r.cred THEN "current"
  ELSE IF n # 0 /\ n = r.prev
    THEN IF r.prevUses > 0 /\ now <= r.prevUntil THEN "grace" ELSE "reused"
  ELSE IF n \in r.issued THEN "reused" ELSE "unknown"

(* A bug: what was presented in grace stays so. *)
RotateGraceKept(r, how, now) ==
  [r EXCEPT !.cred = @ + 1, !.issued = @ \cup {r.cred + 1}, !.lastUsedAt = now,
            !.prev = IF how = "current" THEN r.cred ELSE @,
            !.prevUntil = IF how = "current" THEN now + GraceTime ELSE @,
            !.prevUses = IF how = "current" THEN GraceUses ELSE @]

(* A bug: the uses in grace are counted down whatever was presented. *)
RotateUsesMiscounted(r, how, now) ==
  [r EXCEPT !.cred = @ + 1, !.prev = r.cred, !.prevUntil = now + GraceTime,
            !.prevUses = @ - 1, !.issued = @ \cup {r.cred + 1}, !.lastUsedAt = now]

(* The next credential of the family; the one presented is in grace after it *)
(* if it was the current one, and nothing is if it was in grace itself.      *)
Rotate(r, how, now) ==
  LET next == r.cred + 1
  IN  [account    |-> r.account,
       cred       |-> next,
       prev       |-> IF how = "current" THEN r.cred ELSE r.prev,
       prevUntil  |-> IF how = "current" THEN now + GraceTime ELSE 0,
       prevUses   |-> IF how = "current" THEN GraceUses ELSE 0,
       issued     |-> {n \in r.issued \cup {next} : n + IssuedKept > next},
       lastUsedAt |-> now,
       revokedAt  |-> r.revokedAt,
       place      |-> r.place]

(* Idempotent: a family that has ended keeps the time it ended at. *)
Revoke(r, now) ==
  IF InStore(r) /\ r.revokedAt = 0
    THEN [r EXCEPT !.revokedAt = now, !.prevUses = 0]
    ELSE r

RevokeAll(devices, which, now) ==
  [d \in Device |-> IF d \in which THEN Revoke(devices[d], now) ELSE devices[d]]

EndedAt(r, now) ==
  IF r.revokedAt # 0 THEN r.revokedAt
    ELSE IF ExpiresAt(r) <= now THEN ExpiresAt(r) ELSE 0

(* Families that ended long enough ago to be forgotten: of every account. *)
Forgotten(devices, now) ==
  {d \in Device : /\ InStore(devices[d])
                  /\ EndedAt(devices[d], now) # 0
                  /\ now > EndedAt(devices[d], now) + Tombstone}

LiveOf(devices, account, now) ==
  {d \in Device : devices[d].account = account /\ IsLive(devices[d], now)}

(* A bug: of families used at the same moment the last made goes first. *)
UsedBeforeTiesReversed(r, s) ==
  \/ r.lastUsedAt < s.lastUsedAt
  \/ r.lastUsedAt = s.lastUsedAt /\ r.place > s.place

(* The order prune sorts by, ties in the order of the store. *)
UsedBefore(r, s) ==
  \/ r.lastUsedAt < s.lastUsedAt
  \/ r.lastUsedAt = s.lastUsedAt /\ r.place < s.place

(* A bug: one more than the limit is let be. *)
SurplusOffByOne(devices, account, now) ==
  LET live == LiveOf(devices, account, now)
  IN  {d \in live : Cardinality({e \in live : UsedBefore(devices[d], devices[e])})
                      > PerAccount}

(* Live families of the account past the limit, the longest unused ones. *)
Surplus(devices, account, now) ==
  LET live == LiveOf(devices, account, now)
  IN  {d \in live : Cardinality({e \in live : UsedBefore(devices[d], devices[e])})
                      >= PerAccount}

(* A bug: prune reports what it removed and not what it revoked. *)
PruneTouchesForgottenOnly(devices, account, now) == Forgotten(devices, now)

PruneTouches(devices, account, now) ==
  Forgotten(devices, now) \cup Surplus(devices, account, now)

(* Forget, then revoke.  A forgotten family is not live, so which of the two *)
(* sets is worked out first does not matter.                                 *)
Prune(devices, account, now) ==
  [d \in Device |->
     IF d \in Forgotten(devices, now) THEN NoRecord
     ELSE IF d \in Surplus(devices, account, now) THEN Revoke(devices[d], now)
     ELSE devices[d]]
=============================================================================
