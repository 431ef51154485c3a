------------------------------ MODULE Directory ------------------------------
(***************************************************************************)
(* The directory server's accounts, host tokens, device families and       *)
(* sessions (apps/directory/server.js with accounts.js and                 *)
(* device_credentials.js): every route and every admin call that changes   *)
(* them, the store file, and a server that may be restarted at any time.   *)
(*                                                                         *)
(* The server is one thread.  A handler runs without interruption from one *)
(* await to the next, so an action here is one such stretch: the password  *)
(* hash is waited for between BeginCheck and its outcome, the hash of an   *)
(* admin's new password between BeginAdminPassword and AdminPassword.      *)
(*                                                                         *)
(* A change is made in memory, written, and only then answered.  A write   *)
(* that fails puts the memory back and answers 503, which leaves every     *)
(* variable as it was: a stuttering step, except for a sign-up, whose way  *)
(* back is its own (SignupUnwritten).  A server that dies between the      *)
(* write and the answer is the handler with heard = FALSE and then         *)
(* Restart.                                                                *)
(*                                                                         *)
(* Who calls is not modelled: whatever was once told to anybody may be     *)
(* presented at any time and any number of times, which is what lost,      *)
(* late and repeated requests come to.                                     *)
(***************************************************************************)
EXTENDS DeviceCredentials

CONSTANTS
  Machine,     \* machine ids hosts register under
  HostId,      \* host ids: random, never given out twice
  HostToken,   \* host tokens: random, never given out twice
  Token,       \* session tokens: random, never given out twice
  SessionTtl,  \* SESSION_TTL_MS
  MaxPending,  \* ADMIN_MAX_PENDING
  OperatorCli, \* whether the operator ever runs --add-account
  MaxTime,     \* bound of this model on the clock
  MaxCred,     \* bound of this model on the rotations of one family
  MaxEdition   \* bound of this model on passwords and accounts made

ASSUME DirectoryAssumption ==
  /\ None \notin Machine \cup HostId \cup HostToken \cup Token
  /\ SessionTtl \in Nat \ {0} /\ MaxPending \in Nat /\ OperatorCli \in BOOLEAN
  /\ MaxTime \in Nat /\ MaxCred \in Nat /\ MaxEdition \in Nat
  /\ IsFiniteSet(Device)

(* Random values of different kinds never coincide. *)
ASSUME RandomAssumption ==
  /\ Device \cap Token = {} /\ Device \cap HostToken = {} /\ Token \cap HostToken = {}
  /\ Device \cap HostId = {} /\ Token \cap HostId = {} /\ HostToken \cap HostId = {}

(* Twelve hours against ninety days. *)
ASSUME SessionTtlAssumption == SessionTtl <= DeviceTtl

VARIABLES
  now,         \* the clock
  accounts,    \* store.accounts
  hosts,       \* store.hosts
  devices,     \* store.devices
  disk,        \* the three of them as the store file has them
  hostTokens,  \* the index from token to host, rebuilt from the store
  sessions,    \* token -> session; in memory only
  checking,    \* authInFlight: the password check of an account under way
  resetting,   \* the account an admin's password change in flight has seen
  minted,      \* random values given out so far
  editions,    \* accounts made and passwords set so far
  told,        \* history: what callers were told of each family
  proof        \* history: the password each family and session stands on

stored  == <<accounts, hosts, devices>>
waiting == <<checking, resetting>>
vars == <<now, accounts, hosts, devices, disk, hostTokens, sessions, checking,
          resetting, minted, editions, told, proof>>

Status == {"absent", "pending", "active", "disabled"}

(* createdAt, and the salt and hash of the password, are what stillTheSame *)
(* compares.  Each is fresh when it is set: a number never used before.     *)
AccountRecord == [status: Status, born: Nat, password: Nat]
NoAccount == [status |-> "absent", born |-> 0, password |-> 0]

HostRecord == [account: Account \cup {None}, machine: Machine \cup {None},
               token: HostToken \cup {None}]
NoHost == [account |-> None, machine |-> None, token |-> None]

Session == [account: Account \cup {None}, device: Device \cup {None}, until: Nat]
NoSession == [account |-> None, device |-> None, until |-> 0]

Purpose == {"none", "login", "plain", "register"}
Check == [for: Purpose, born: Nat, password: Nat]
NoCheck == [for |-> "none", born |-> 0, password |-> 0]

IsActive(accs, a) == a \in Account /\ accs[a].status = "active"

-----------------------------------------------------------------------------
(* Reading a session, ending sessions, and the index of host tokens *)

Valid(t) ==
  /\ sessions[t].account # None
  /\ sessions[t].until > now
  /\ IsActive(accounts, sessions[t].account)
  /\ sessions[t].device # None => IsLive(devices[sessions[t].device], now)

(* sessionFor also forgets a session whose family it finds ended. *)
AfterDoor(t) ==
  IF /\ t \in Token /\ sessions[t].account # None /\ sessions[t].until > now
     /\ IsActive(accounts, sessions[t].account) /\ ~Valid(t)
    THEN [sessions EXCEPT ![t] = NoSession] ELSE sessions

EndSessionsOf(ss, which) ==
  [t \in Token |-> IF ss[t].device \in which THEN NoSession ELSE ss[t]]

EndSessionsOfAccount(ss, a) ==
  [t \in Token |-> IF ss[t].account = a THEN NoSession ELSE ss[t]]

StartSession(ss, t, a, d) ==
  [ss EXCEPT ![t] = [account |-> a, device |-> d, until |-> now + SessionTtl]]

(* A bug: host tokens are known only to the process that issued them. *)
IndexLost(hs) == [k \in HostToken |-> None]

(* indexHostTokens *)
Index(hs) ==
  [k \in HostToken |-> IF \E h \in HostId : hs[h].token = k
                         THEN CHOOSE h \in HostId : hs[h].token = k ELSE None]

HostsOf(hs, a) == {h \in HostId : hs[h].account = a}
(* A bug: families that have ended are not counted as the account's. *)
DevicesOfLive(ds, a) ==
  {d \in Device : InStore(ds[d]) /\ ds[d].account = a /\ ds[d].revokedAt = 0}
DevicesOf(ds, a) == {d \in Device : InStore(ds[d]) /\ ds[d].account = a}

(* A bug: the answer does not wait for the file (saveStoreSoon). *)
CommitSoon(accs, hs, ds) ==
  /\ accounts' = accs /\ hosts' = hs /\ devices' = ds
  /\ disk' \in {disk, [accounts |-> accs, hosts |-> hs, devices |-> ds]}

(* The tail of every change: the store is replaced and is on disk. *)
Commit(accs, hs, ds) ==
  /\ accounts' = accs /\ hosts' = hs /\ devices' = ds
  /\ disk' = [accounts |-> accs, hosts |-> hs, devices |-> ds]

Fresh(v) == v \notin minted /\ minted' = minted \cup {v}

(* What the caller of a route comes to know, if its answer arrives. *)
TellCredential(d, n, heard) ==
  IF heard THEN [told EXCEPT ![d].creds = @ \cup {n}] ELSE told
TellEnded(which) ==
  [d \in Device |-> IF d \in which THEN [told[d] EXCEPT !.ended = TRUE] ELSE told[d]]

-----------------------------------------------------------------------------
(* Signing in with a password, and registering a PC with one *)

(* authenticateAccount up to the hash: one check per account at a time.  A   *)
(* wrong password changes nothing modelled here (it is delayed and refused). *)
BeginCheck(a, purpose) ==
  /\ checking[a].for = "none"
  /\ accounts[a].status # "absent"
  /\ checking' = [checking EXCEPT ![a] = [for |-> purpose, born |-> accounts[a].born,
                                          password |-> accounts[a].password]]
  /\ UNCHANGED <<now, stored, disk, hostTokens, sessions, resetting, minted,
                 editions, told, proof>>

(* A bug: only the status is looked at again after the hash. *)
StillTheSameNotAsked(a) == accounts[a].status # "absent"

StillTheSame(a) ==
  /\ accounts[a].status # "absent"
  /\ accounts[a].born = checking[a].born
  /\ accounts[a].password = checking[a].password

(* The hash came back, the account is still the one it was and may be used. *)
Admitted(a, purpose) ==
  /\ checking[a].for = purpose
  /\ StillTheSame(a)
  /\ accounts[a].status = "active"
  /\ checking' = [checking EXCEPT ![a] = NoCheck]

(* 401, 403, or 503 when the store could not be written. *)
CheckRefused(a) ==
  /\ checking[a].for # "none"
  /\ checking' = [checking EXCEPT ![a] = NoCheck]
  /\ UNCHANGED <<now, stored, disk, hostTokens, sessions, resetting, minted,
                 editions, told, proof>>

(* handleLogin for a client that asked for a device: a family of its own. *)
Login(a, d, t, heard) ==
  LET place == 1 + Cardinality(minted \cap Device)
      made  == CreateFamily(devices, a, d, place, now)
  IN  /\ Admitted(a, "login")
      /\ d \notin minted /\ t \notin minted
      /\ minted' = minted \cup {d, t}
      /\ Commit(accounts, hosts, Prune(made, a, now))
      /\ sessions' = StartSession(
                       EndSessionsOf(sessions, PruneTouches(made, a, now)), t, a, d)
      /\ told' = TellCredential(d, 1, heard)
      /\ proof' = [proof EXCEPT ![d] = checking[a].password, ![t] = checking[a].password]
      /\ UNCHANGED <<now, hostTokens, resetting, editions>>

(* handleLogin for a client from before device credentials. *)
PlainLogin(a, t) ==
  /\ Admitted(a, "plain")
  /\ Fresh(t)
  /\ sessions' = StartSession(sessions, t, a, None)
  /\ proof' = [proof EXCEPT ![t] = checking[a].password]
  /\ UNCHANGED <<now, stored, disk, hostTokens, resetting, editions, told>>

(* handleHostRegister: the machine's host if it has one, else a new one. *)
RegisterHost(a, m, h, k) ==
  LET same == {g \in HostId : hosts[g].account = a /\ hosts[g].machine = m}
      old  == hosts[h].token
      registered == [hosts EXCEPT ![h] = [account |-> a, machine |-> m, token |-> k]]
  IN  /\ Admitted(a, "register")
      /\ IF same # {} THEN h \in same ELSE h \notin minted
      /\ k \notin minted
      /\ minted' = minted \cup {h, k}
      /\ Commit(accounts, registered, devices)
      /\ hostTokens' = [[j \in HostToken |-> IF j = old THEN None ELSE hostTokens[j]]
                          EXCEPT ![k] = h]
      /\ proof' = [proof EXCEPT ![k] = checking[a].password]
      /\ UNCHANGED <<now, sessions, resetting, editions, told>>

-----------------------------------------------------------------------------
(* Routes of a client that holds a device credential *)

(* A value may be presented by whoever was told it, and 0 by anybody. *)
Presentable(d) == told[d].creds \cup {0}

(* handleSessionRefresh, credential accepted. *)
Refresh(d, n, t, heard) ==
  LET r == devices[d]
      verdict == Classify(r, n, now)
  IN  /\ n \in Presentable(d)
      /\ verdict \in {"current", "grace"}
      /\ IsActive(accounts, r.account)
      /\ r.cred < MaxCred
      /\ Fresh(t)
      /\ Commit(accounts, hosts, [devices EXCEPT ![d] = Rotate(r, verdict, now)])
      /\ sessions' = StartSession(sessions, t, r.account, d)
      /\ told' = TellCredential(d, r.cred + 1, heard)
      /\ proof' = [proof EXCEPT ![t] = proof[d]]
      /\ UNCHANGED <<now, hostTokens, waiting, editions>>

(* handleSessionRefresh, a superseded credential: the family ends.  Every  *)
(* other verdict is refused and changes nothing modelled here.             *)
RefreshReused(d, n) ==
  /\ n \in Presentable(d)
  /\ Classify(devices[d], n, now) = "reused"
  /\ Commit(accounts, hosts, RevokeAll(devices, {d}, now))
  /\ sessions' = EndSessionsOf(sessions, {d})
  /\ told' = TellEnded({d})
  /\ UNCHANGED <<now, hostTokens, waiting, minted, editions, proof>>

(* handleSessionLogout: by a session t (None: no bearer), naming a device d  *)
(* (None: the session's own), with the device's revoke token or without.     *)
Logout(t, d, withRevokeToken) ==
  LET session == t # None /\ Valid(t)
      dev     == IF d # None THEN d ELSE IF session THEN sessions[t].device ELSE None
      record  == dev # None /\ InStore(devices[dev])
      owned   == session /\ record /\ devices[dev].account = sessions[t].account
      byToken == record /\ withRevokeToken
      bySession == session /\ (record => owned)
      ends    == record /\ (byToken \/ owned)
      closed  == IF ends THEN EndSessionsOf(AfterDoor(t), {dev}) ELSE AfterDoor(t)
      plain   == session /\ sessions[t].device = None
  IN  /\ withRevokeToken => dev # None /\ told[dev].creds # {}
      /\ bySession \/ byToken
      /\ IF ends THEN Commit(accounts, hosts, RevokeAll(devices, {dev}, now))
                 ELSE UNCHANGED <<stored, disk>>
      /\ sessions' = IF plain THEN [closed EXCEPT ![t] = NoSession] ELSE closed
      /\ told' = IF ends THEN TellEnded({dev}) ELSE told
      /\ UNCHANGED <<now, hostTokens, waiting, minted, editions, proof>>

(* handleDeviceRevoke: another device of the same account. *)
RevokeDevice(t, d) ==
  /\ Valid(t)
  /\ InStore(devices[d]) /\ devices[d].account = sessions[t].account
  /\ Commit(accounts, hosts, RevokeAll(devices, {d}, now))
  /\ sessions' = EndSessionsOf(sessions, {d})
  /\ told' = TellEnded({d})
  /\ UNCHANGED <<now, hostTokens, waiting, minted, editions, proof>>

-----------------------------------------------------------------------------
(* Accounts: sign-up, and what an operator may do *)

NewAccount == [status |-> "pending", born |-> editions + 1, password |-> editions + 1]

(* handleSignup and adminCreate once the hash is there; the latter is also  *)
(* held to MaxPending, and either may be the one that is asked.             *)
Signup(a) ==
  /\ accounts[a].status = "absent"
  /\ editions < MaxEdition
  /\ editions' = editions + 1
  /\ Commit([accounts EXCEPT ![a] = NewAccount], hosts, devices)
  /\ UNCHANGED <<now, hostTokens, sessions, waiting, minted, told, proof>>

(* A bug: a sign-up that could not be written is not taken back. *)
SignupUnwrittenKept(a) ==
  /\ accounts[a].status = "absent"
  /\ editions < MaxEdition
  /\ editions' = editions + 1
  /\ accounts' = [accounts EXCEPT ![a] = NewAccount]
  /\ UNCHANGED <<now, hosts, devices, disk, hostTokens, sessions, waiting, minted,
                 told, proof>>

(* A sign-up that could not be written is taken back by accounts.remove,    *)
(* which takes whatever belongs to the id along with it.                    *)
SignupUnwritten(a) ==
  /\ accounts[a].status = "absent"
  /\ hosts' = [h \in HostId |-> IF h \in HostsOf(hosts, a) THEN NoHost ELSE hosts[h]]
  /\ devices' = [d \in Device |-> IF d \in DevicesOf(devices, a) THEN NoRecord ELSE devices[d]]
  /\ UNCHANGED <<now, accounts, disk, hostTokens, sessions, waiting, minted,
                 editions, told, proof>>

AdminCreate(a) ==
  /\ Cardinality({b \in Account : accounts[b].status = "pending"}) < MaxPending
  /\ Signup(a)

SetStatus(a, status) ==
  Commit([accounts EXCEPT ![a].status = status], hosts, devices)

AdminApprove(a) ==
  /\ accounts[a].status = "pending"
  /\ SetStatus(a, "active")
  /\ UNCHANGED <<now, hostTokens, sessions, waiting, minted, editions, told, proof>>

(* Host tokens and families are kept: they work again on enable. *)
AdminDisable(a) ==
  /\ accounts[a].status # "absent"
  /\ IF accounts[a].status # "disabled" THEN SetStatus(a, "disabled")
                                        ELSE UNCHANGED <<stored, disk>>
  /\ sessions' = EndSessionsOfAccount(sessions, a)
  /\ UNCHANGED <<now, hostTokens, waiting, minted, editions, told, proof>>

AdminEnable(a) ==
  /\ accounts[a].status = "disabled"
  /\ SetStatus(a, "active")
  /\ UNCHANGED <<now, hostTokens, sessions, waiting, minted, editions, told, proof>>

(* adminPassword before and after the body and the hash it waits for. *)
BeginAdminPassword(a) ==
  /\ resetting[a] = 0 /\ accounts[a].status # "absent"
  /\ resetting' = [resetting EXCEPT ![a] = accounts[a].born]
  /\ UNCHANGED <<now, stored, disk, hostTokens, sessions, checking, minted,
                 editions, told, proof>>

(* Every standing sign-in ends with the old password. *)
AdminPassword(a) ==
  LET ended == {d \in DevicesOf(devices, a) : devices[d].revokedAt = 0}
      theirs == HostsOf(hosts, a)
  IN  /\ resetting[a] # 0
      /\ accounts[a].status # "absent" /\ accounts[a].born = resetting[a]
      /\ editions < MaxEdition
      /\ editions' = editions + 1
      /\ resetting' = [resetting EXCEPT ![a] = 0]
      /\ Commit([accounts EXCEPT ![a].password = editions + 1],
                [h \in HostId |-> IF h \in theirs THEN [hosts[h] EXCEPT !.token = None]
                                                  ELSE hosts[h]],
                RevokeAll(devices, DevicesOf(devices, a), now))
      /\ hostTokens' = [k \in HostToken |-> IF \E h \in theirs : hosts[h].token = k
                                              THEN None ELSE hostTokens[k]]
      /\ sessions' = EndSessionsOfAccount(EndSessionsOf(sessions, ended), a)
      /\ told' = TellEnded(ended)
      /\ UNCHANGED <<now, checking, minted, proof>>

(* Not the account it was about any more, or the store could not be written. *)
AdminPasswordRefused(a) ==
  /\ resetting[a] # 0
  /\ resetting' = [resetting EXCEPT ![a] = 0]
  /\ UNCHANGED <<now, stored, disk, hostTokens, sessions, checking, minted,
                 editions, told, proof>>

(* adminDelete: the account and everything that belongs to it. *)
AdminDelete(a) ==
  LET theirs == HostsOf(hosts, a)
      gone   == DevicesOf(devices, a)
  IN  /\ accounts[a].status # "absent"
      /\ Commit([accounts EXCEPT ![a] = NoAccount],
                [h \in HostId |-> IF h \in theirs THEN NoHost ELSE hosts[h]],
                [d \in Device |-> IF d \in gone THEN NoRecord ELSE devices[d]])
      /\ hostTokens' = [k \in HostToken |-> IF \E h \in theirs : hosts[h].token = k
                                              THEN None ELSE hostTokens[k]]
      /\ sessions' = EndSessionsOfAccount(sessions, a)
      /\ told' = TellEnded(gone)
      /\ UNCHANGED <<now, waiting, minted, editions, proof>>

-----------------------------------------------------------------------------
(* Time, the sweep of expired sessions, and the server's own life *)

Tick ==
  /\ now < MaxTime
  /\ now' = now + 1
  /\ UNCHANGED <<stored, disk, hostTokens, sessions, waiting, minted, editions, told, proof>>

Sweep ==
  /\ sessions' = [t \in Token |-> IF sessions[t].until <= now THEN NoSession ELSE sessions[t]]
  /\ UNCHANGED <<now, stored, disk, hostTokens, waiting, minted, editions, told, proof>>

(* A server that stops, however it stops, keeps what is on disk. *)
Boot(accs) ==
  /\ Commit(accs, disk.hosts, disk.devices)
  /\ hostTokens' = Index(disk.hosts)
  /\ sessions' = [t \in Token |-> NoSession]
  /\ checking' = [a \in Account |-> NoCheck]
  /\ resetting' = [a \in Account |-> 0]
  /\ UNCHANGED <<now, minted, told, proof>>

Restart == Boot(disk.accounts) /\ UNCHANGED editions

(* The operator stops the server, runs --add-account, and starts it again.  *)
(* accounts.put replaces the password of an account that is there already.  *)
(* (The code does not see to it that the server is stopped, server.js:2265.) *)
AddAccountFromCli(a) ==
  LET old == disk.accounts[a]
      put == [status |-> "active", password |-> editions + 1,
              born |-> IF old.status = "absent" THEN editions + 1 ELSE old.born]
  IN  /\ OperatorCli
      /\ editions < MaxEdition
      /\ editions' = editions + 1
      /\ Boot([disk.accounts EXCEPT ![a] = put])

Init ==
  /\ now = 1
  /\ accounts = [a \in Account |-> NoAccount]
  /\ hosts = [h \in HostId |-> NoHost]
  /\ devices = [d \in Device |-> NoRecord]
  /\ disk = [accounts |-> accounts, hosts |-> hosts, devices |-> devices]
  /\ hostTokens = [k \in HostToken |-> None]
  /\ sessions = [t \in Token |-> NoSession]
  /\ checking = [a \in Account |-> NoCheck]
  /\ resetting = [a \in Account |-> 0]
  /\ minted = {}
  /\ editions = 0
  /\ told = [d \in Device |-> [creds |-> {}, ended |-> FALSE]]
  /\ proof = [v \in Device \cup Token \cup HostToken |-> 0]

SignIn ==
  \E a \in Account :
    \/ \E purpose \in {"login", "plain", "register"} : BeginCheck(a, purpose)
    \/ CheckRefused(a)
    \/ \E d \in Device, t \in Token, heard \in BOOLEAN : Login(a, d, t, heard)
    \/ \E t \in Token : PlainLogin(a, t)
    \/ \E m \in Machine, h \in HostId, k \in HostToken : RegisterHost(a, m, h, k)

DeviceRoutes ==
  \/ \E d \in Device, t \in Token, heard \in BOOLEAN :
       \E n \in Presentable(d) : Refresh(d, n, t, heard)
  \/ \E d \in Device : \E n \in Presentable(d) : RefreshReused(d, n)
  \/ \E t \in Token \cup {None}, d \in Device \cup {None}, w \in BOOLEAN : Logout(t, d, w)
  \/ \E t \in Token, d \in Device : RevokeDevice(t, d)

Admin ==
  \E a \in Account :
    \/ Signup(a) \/ SignupUnwritten(a) \/ AdminCreate(a)
    \/ AdminApprove(a) \/ AdminDisable(a) \/ AdminEnable(a)
    \/ BeginAdminPassword(a) \/ AdminPassword(a) \/ AdminPasswordRefused(a)
    \/ AdminDelete(a)
    \/ AddAccountFromCli(a)

Next == SignIn \/ DeviceRoutes \/ Admin \/ Tick \/ Sweep \/ Restart

Spec == Init /\ [][Next]_vars

-----------------------------------------------------------------------------
(* Properties *)

TypeOK ==
  /\ now \in Nat
  /\ accounts \in [Account -> AccountRecord]
  /\ hosts \in [HostId -> HostRecord]
  /\ devices \in [Device -> DeviceRecord]
  /\ disk \in [accounts: [Account -> AccountRecord], hosts: [HostId -> HostRecord],
               devices: [Device -> DeviceRecord]]
  /\ hostTokens \in [HostToken -> HostId \cup {None}]
  /\ sessions \in [Token -> Session]
  /\ checking \in [Account -> Check]
  /\ resetting \in [Account -> Nat]
  /\ minted \subseteq Device \cup Token \cup HostId \cup HostToken
  /\ editions \in Nat
  /\ told \in [Device -> [creds: SUBSET Nat, ended: BOOLEAN]]
  /\ proof \in [Device \cup Token \cup HostToken -> Nat]

(* Whatever fails on the way, the server's memory and its file never part:  *)
(* a restart at any moment changes no account, host or family               *)
(* (commitDevices, commitStore, the ways back of sign-up and registration). *)
MemoryIsDisk == disk = [accounts |-> accounts, hosts |-> hosts, devices |-> devices]

(* What a caller was told would still be so after a restart right now: no    *)
(* credential handed out is ahead of the file, no ended family is back in    *)
(* it ("told a client rotated or revoked and would forget it", server.js).   *)
AnswersSurviveRestart ==
  \A d \in Device :
    /\ told[d].ended => disk.devices[d].revokedAt # 0 \/ ~InStore(disk.devices[d])
    /\ told[d].creds # {} /\ InStore(devices[d]) => InStore(disk.devices[d])
    /\ InStore(disk.devices[d]) => \A n \in told[d].creds : n <= disk.devices[d].cred

(* Sessions are ended with what they were issued through, at once: the       *)
(* second question sessionFor asks at the door never finds anything left.    *)
SessionsEndWithTheirFamily ==
  \A t \in Token :
    LET s == sessions[t] IN
      s.account # None /\ s.until > now =>
        /\ accounts[s.account].status = "active"
        /\ s.device # None =>
             IsLive(devices[s.device], now) /\ devices[s.device].account = s.account

(* Nothing works that was obtained with another password than the account's  *)
(* present one -- not a session, a family or a host's token, although a      *)
(* password may be changed, or the account deleted and made again, while a   *)
(* check of the old one is in flight (stillTheSame, adminPassword).          *)
StandsOnThePresentPassword ==
  /\ \A t \in Token : sessions[t].account # None =>
       proof[t] = accounts[sessions[t].account].password
  /\ \A d \in Device : InStore(devices[d]) /\ devices[d].revokedAt = 0 =>
       proof[d] = accounts[devices[d].account].password
  /\ \A k \in HostToken : hostTokens[k] # None =>
       proof[k] = accounts[hosts[hostTokens[k]].account].password

(* The token index is the store's: a host's last token and no other finds it *)
(* -- after re-registering, failed writes, deletions and restarts alike.     *)
IndexIsTheStore ==
  \A k \in HostToken, h \in HostId : hostTokens[k] = h <=> hosts[h].token = k

(* Whatever belongs to an account goes with it, so that an account made      *)
(* again under the same id owns nothing of the one before (accounts.remove). *)
OwnersExist ==
  /\ \A d \in Device : InStore(devices[d]) =>
       devices[d].account # None /\ accounts[devices[d].account].status # "absent"
  /\ \A h \in HostId : hosts[h].account # None =>
       accounts[hosts[h].account].status # "absent"

(* A limit an account's families are held to when one is added. *)
WithinTheLimit == \A a \in Account : Cardinality(LiveOf(devices, a, now)) <= PerAccount

(* Making room never ends the family it was made for, however many were      *)
(* used at the same moment (createFamily followed by prune in handleLogin).  *)
NewFamilyIsLive ==
  [][\A d \in Device : ~InStore(devices[d]) /\ InStore(devices'[d])
                          => IsLive(devices'[d], now')]_vars

(* The directory keeps the promise of DeviceLife. *)
Accepted(d) == {n \in 1 .. devices[d].cred :
                  Classify(devices[d], n, now) \in {"current", "grace"}}
Life == INSTANCE DeviceLife WITH
  life     <- [d \in Device |-> IF d \notin minted THEN "unborn"
                               ELSE IF IsLive(devices[d], now) THEN "live" ELSE "ended"],
  newest   <- [d \in Device |-> IF IsLive(devices[d], now) THEN devices[d].cred ELSE 0],
  accepted <- [d \in Device |-> Accepted(d)]
KeepsThePromise == Life!Spec
=============================================================================
