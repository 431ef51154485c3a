--------------------------- MODULE DirectoryProofs ---------------------------
(***************************************************************************)
(* What Directory guarantees for every number of accounts, devices, hosts, *)
(* tokens and restarts, checked by TLAPS: first what the rules of device   *)
(* credentials do, and that every variable always holds a value of its     *)
(* kind; then what the store and its file hold, what sessions stand on,    *)
(* which token belongs to which host, and which password stands behind     *)
(* everything that works.  Last, that the directory keeps the promise of   *)
(* DeviceLife to the holder of any device, and holds each account's        *)
(* families to their limit: both follow from the few things that ever      *)
(* happen to one family's record.                                          *)
(***************************************************************************)
EXTENDS Directory, FiniteSetTheorems, TLAPS

(* A family that ends records when: 0 stands for not having ended. *)
ClockStarted == now > 0

-----------------------------------------------------------------------------
(* What the rules of a family do to a record *)

(* A rotation moves the credential by one and pushes the expiry out; nothing *)
(* else a session or a caller was told depends on changes (rotate).          *)
LEMMA RotateFacts ==
  ASSUME NEW r \in DeviceRecord, NEW how, NEW time \in Nat
  PROVE  /\ Rotate(r, how, time) \in DeviceRecord
         /\ Rotate(r, how, time).cred = r.cred + 1
         /\ Rotate(r, how, time).account = r.account
         /\ Rotate(r, how, time).lastUsedAt = time
         /\ Rotate(r, how, time).revokedAt = r.revokedAt
         /\ Rotate(r, how, time).place = r.place
<1>1. {n \in r.issued \cup {r.cred + 1} : n + IssuedKept > r.cred + 1} \in SUBSET Nat
  BY DEF DeviceRecord
<1> QED BY <1>1, LimitsAssumption DEF Rotate, DeviceRecord

(* Revoking leaves the record where it is, and ended (revoke). *)
LEMMA RevokeFacts ==
  ASSUME NEW r \in DeviceRecord, NEW time \in Nat, time > 0
  PROVE  /\ Revoke(r, time) \in DeviceRecord
         /\ Revoke(r, time).cred = r.cred
         /\ Revoke(r, time).account = r.account
         /\ Revoke(r, time).lastUsedAt = r.lastUsedAt
         /\ Revoke(r, time).place = r.place
         /\ InStore(r) => Revoke(r, time).revokedAt # 0
         /\ r.revokedAt # 0 => Revoke(r, time).revokedAt # 0
<1>1. CASE InStore(r) /\ r.revokedAt = 0
  <2>1. [r EXCEPT !.revokedAt = time, !.prevUses = 0] \in DeviceRecord
    BY DEF DeviceRecord
  <2> QED BY <1>1, <2>1 DEF Revoke, DeviceRecord
<1>2. CASE ~(InStore(r) /\ r.revokedAt = 0)
  BY <1>2 DEF Revoke
<1> QED BY <1>1, <1>2

(* What stands for no family is a record, of none in the store. *)
LEMMA NoRecordType == NoRecord \in DeviceRecord /\ ~InStore(NoRecord)
BY DEF NoRecord, DeviceRecord, InStore

(* Pruning forgets or ends what it reports and leaves the rest alone: what a *)
(* caller has to end the sessions of is all there is (prune).                *)
LEMMA PruneFacts ==
  ASSUME NEW ds \in [Device -> DeviceRecord], NEW a, NEW time \in Nat, time > 0
  PROVE  /\ Prune(ds, a, time) \in [Device -> DeviceRecord]
         /\ \A d \in Device : d \notin PruneTouches(ds, a, time) => Prune(ds, a, time)[d] = ds[d]
         /\ \A d \in Device :
              \/ Prune(ds, a, time)[d] = ds[d]
              \/ Prune(ds, a, time)[d] = NoRecord
              \/ Prune(ds, a, time)[d] = Revoke(ds[d], time)
BY RevokeFacts, NoRecordType DEF Prune, PruneTouches

(* An accepted credential belongs to a live family of the store (classify). *)
LEMMA AcceptedIsLive ==
  ASSUME NEW r, NEW n, NEW time, Classify(r, n, time) \in {"current", "grace"}
  PROVE  InStore(r) /\ r.revokedAt = 0
BY DEF Classify, IsLive

(* Ending families leaves records (endDevicesOf, handleDeviceRevoke). *)
LEMMA RevokeAllType ==
  ASSUME NEW ds \in [Device -> DeviceRecord], NEW which, NEW time \in Nat, time > 0
  PROVE  RevokeAll(ds, which, time) \in [Device -> DeviceRecord]
BY RevokeFacts DEF RevokeAll

-----------------------------------------------------------------------------
(* Types *)

(* What stands for nothing is of the kind it stands in for. *)
LEMMA EmptyTypes ==
  /\ NoAccount \in AccountRecord /\ NoHost \in HostRecord
  /\ NoSession \in Session /\ NoCheck \in Check
BY DEF NoAccount, AccountRecord, NoHost, HostRecord, NoSession, Session, NoCheck, Check,
       Status, Purpose

(* The store after any commit has the shape it had before it. *)
LEMMA CommitType ==
  ASSUME NEW accs \in [Account -> AccountRecord], NEW hs \in [HostId -> HostRecord],
         NEW ds \in [Device -> DeviceRecord], Commit(accs, hs, ds)
  PROVE  /\ accounts' \in [Account -> AccountRecord]
         /\ hosts' \in [HostId -> HostRecord]
         /\ devices' \in [Device -> DeviceRecord]
         /\ disk' \in [accounts: [Account -> AccountRecord], hosts: [HostId -> HostRecord],
                       devices: [Device -> DeviceRecord]]
BY DEF Commit

(* Starting, ending and forgetting sessions leaves sessions. *)
LEMMA SessionTypes ==
  ASSUME NEW ss \in [Token -> Session], now \in Nat, sessions \in [Token -> Session]
  PROVE  /\ \A which : EndSessionsOf(ss, which) \in [Token -> Session]
         /\ \A a : EndSessionsOfAccount(ss, a) \in [Token -> Session]
         /\ \A t \in Token, a \in Account, d \in Device \cup {None} :
              StartSession(ss, t, a, d) \in [Token -> Session]
         /\ \A t : AfterDoor(t) \in [Token -> Session]
BY EmptyTypes, DirectoryAssumption
   DEF EndSessionsOf, EndSessionsOfAccount, StartSession, AfterDoor, Session

(* Telling a caller something leaves what callers were told of its kind. *)
LEMMA ToldTypes ==
  ASSUME told \in [Device -> [creds: SUBSET Nat, ended: BOOLEAN]]
  PROVE  /\ \A d \in Device, n \in Nat, heard \in BOOLEAN :
              TellCredential(d, n, heard) \in [Device -> [creds: SUBSET Nat, ended: BOOLEAN]]
         /\ \A which : TellEnded(which) \in [Device -> [creds: SUBSET Nat, ended: BOOLEAN]]
BY DEF TellCredential, TellEnded

(* The place of the next family in the store is a number. *)
LEMMA PlaceType == 1 + Cardinality(minted \cap Device) \in Nat
BY DirectoryAssumption, FS_Subset, FS_CardinalityType

(* A new family is a record (createFamily). *)
LEMMA CreateFamilyType ==
  ASSUME NEW ds \in [Device -> DeviceRecord], NEW a \in Account, NEW d \in Device,
         NEW place \in Nat, NEW time \in Nat
  PROVE  CreateFamily(ds, a, d, place, time) \in [Device -> DeviceRecord]
BY DEF CreateFamily, DeviceRecord

(* The index finds hosts (indexHostTokens). *)
LEMMA IndexType == \A hs : Index(hs) \in [HostToken -> HostId \cup {None}]
BY DEF Index

(* A directory that starts for the first time has values of their kinds. *)
LEMMA InitType == Init => TypeOK /\ ClockStarted
BY EmptyTypes, NoRecordType DEF Init, TypeOK, ClockStarted

(* A check, a refusal, a tick, a sweep or an admin's first half moves nothing *)
(* but the variable it is about.                                              *)
LEMMA WaitingType ==
  ASSUME TypeOK, ClockStarted, NEW a \in Account,
         \/ \E purpose \in {"login", "plain", "register"} : BeginCheck(a, purpose)
         \/ CheckRefused(a) \/ BeginAdminPassword(a) \/ AdminPasswordRefused(a)
  PROVE  TypeOK' /\ ClockStarted'
<1>1. ASSUME NEW purpose \in {"login", "plain", "register"}, BeginCheck(a, purpose)
      PROVE  TypeOK' /\ ClockStarted'
  BY <1>1 DEF BeginCheck, TypeOK, ClockStarted, stored, Check, Purpose, AccountRecord
<1>2. CASE CheckRefused(a)
  BY <1>2, EmptyTypes DEF CheckRefused, TypeOK, ClockStarted, stored
<1>3. CASE BeginAdminPassword(a)
  BY <1>3 DEF BeginAdminPassword, TypeOK, ClockStarted, stored, AccountRecord
<1>4. CASE AdminPasswordRefused(a)
  BY <1>4 DEF AdminPasswordRefused, TypeOK, ClockStarted, stored
<1> QED BY <1>1, <1>2, <1>3, <1>4

(* A sign-in, of whichever kind, once the password is found right. *)
LEMMA SignInType ==
  ASSUME TypeOK, ClockStarted, NEW a \in Account,
         \/ \E d \in Device, t \in Token, heard \in BOOLEAN : Login(a, d, t, heard)
         \/ \E t \in Token : PlainLogin(a, t)
         \/ \E m \in Machine, h \in HostId, k \in HostToken : RegisterHost(a, m, h, k)
  PROVE  TypeOK' /\ ClockStarted'
<1>1. ASSUME NEW d \in Device, NEW t \in Token, NEW heard \in BOOLEAN, Login(a, d, t, heard)
      PROVE  TypeOK' /\ ClockStarted'
  <2> DEFINE made == CreateFamily(devices, a, d, 1 + Cardinality(minted \cap Device), now)
  <2>1. made \in [Device -> DeviceRecord]
    BY CreateFamilyType, PlaceType DEF TypeOK
  <2>2. Prune(made, a, now) \in [Device -> DeviceRecord]
    BY <2>1, PruneFacts DEF TypeOK, ClockStarted
  <2>3. /\ accounts' \in [Account -> AccountRecord]
        /\ hosts' \in [HostId -> HostRecord]
        /\ devices' \in [Device -> DeviceRecord]
        /\ disk' \in [accounts: [Account -> AccountRecord], hosts: [HostId -> HostRecord],
                      devices: [Device -> DeviceRecord]]
    BY <1>1, <2>2, CommitType DEF Login, TypeOK
  <2>4. sessions' \in [Token -> Session]
    <3>1. EndSessionsOf(sessions, PruneTouches(made, a, now)) \in [Token -> Session]
      BY SessionTypes DEF TypeOK
    <3> QED BY <1>1, <3>1, SessionTypes DEF Login, TypeOK
  <2>5. told' \in [Device -> [creds: SUBSET Nat, ended: BOOLEAN]]
    BY <1>1, ToldTypes DEF Login, TypeOK
  <2>6. proof' \in [Device \cup Token \cup HostToken -> Nat]
    BY <1>1 DEF Login, TypeOK, Check
  <2>7. checking' \in [Account -> Check]
    BY <1>1, EmptyTypes DEF Login, Admitted, TypeOK
  <2>8. /\ now' = now /\ hostTokens' = hostTokens /\ resetting' = resetting
        /\ editions' = editions /\ minted' = minted \cup {d, t}
    BY <1>1 DEF Login
  <2> QED BY <2>3, <2>4, <2>5, <2>6, <2>7, <2>8 DEF TypeOK, ClockStarted
<1>2. ASSUME NEW t \in Token, PlainLogin(a, t)
      PROVE  TypeOK' /\ ClockStarted'
  <2>1. sessions' \in [Token -> Session]
    BY <1>2, SessionTypes DEF PlainLogin, TypeOK
  <2> QED BY <1>2, <2>1, EmptyTypes
          DEF PlainLogin, Admitted, Fresh, stored, TypeOK, ClockStarted, Check
<1>3. ASSUME NEW m \in Machine, NEW h \in HostId, NEW k \in HostToken, RegisterHost(a, m, h, k)
      PROVE  TypeOK' /\ ClockStarted'
  <2>1. [hosts EXCEPT ![h] = [account |-> a, machine |-> m, token |-> k]]
          \in [HostId -> HostRecord]
    BY DEF TypeOK, HostRecord
  <2>2. /\ accounts' \in [Account -> AccountRecord]
        /\ hosts' \in [HostId -> HostRecord]
        /\ devices' \in [Device -> DeviceRecord]
        /\ disk' \in [accounts: [Account -> AccountRecord], hosts: [HostId -> HostRecord],
                      devices: [Device -> DeviceRecord]]
    BY <1>3, <2>1, CommitType DEF RegisterHost, TypeOK
  <2>3. /\ hostTokens' \in [HostToken -> HostId \cup {None}]
        /\ checking' \in [Account -> Check]
        /\ proof' \in [Device \cup Token \cup HostToken -> Nat]
        /\ minted' = minted \cup {h, k}
    BY <1>3, EmptyTypes DEF RegisterHost, Admitted, TypeOK, Check
  <2> QED BY <1>3, <2>2, <2>3 DEF RegisterHost, TypeOK, ClockStarted
<1> QED BY <1>1, <1>2, <1>3

(* The routes of a client that holds a credential, a token or a session. *)
LEMMA DeviceRoutesType ==
  ASSUME TypeOK, ClockStarted, DeviceRoutes
  PROVE  TypeOK' /\ ClockStarted'
<1>1. ASSUME NEW d \in Device, NEW t \in Token, NEW heard \in BOOLEAN,
             NEW n \in Presentable(d), Refresh(d, n, t, heard)
      PROVE  TypeOK' /\ ClockStarted'
  <2> DEFINE how == Classify(devices[d], n, now)
             next == Rotate(devices[d], how, now)
  <2>1. next \in DeviceRecord
    BY RotateFacts DEF TypeOK
  <2>2. /\ accounts' \in [Account -> AccountRecord]
        /\ hosts' \in [HostId -> HostRecord]
        /\ devices' \in [Device -> DeviceRecord]
        /\ disk' \in [accounts: [Account -> AccountRecord], hosts: [HostId -> HostRecord],
                      devices: [Device -> DeviceRecord]]
    <3> HIDE DEF next
    <3>1. [devices EXCEPT ![d] = next] \in [Device -> DeviceRecord]
      BY <2>1 DEF TypeOK
    <3>2. Commit(accounts, hosts, [devices EXCEPT ![d] = next])
      BY <1>1 DEF Refresh, next
    <3> QED BY <3>1, <3>2, CommitType DEF TypeOK
  <2>3. devices[d].account \in Account
    BY <1>1 DEF Refresh, IsActive
  <2>4. sessions' \in [Token -> Session]
    BY <1>1, <2>3, SessionTypes DEF Refresh, TypeOK
  <2>5. told' \in [Device -> [creds: SUBSET Nat, ended: BOOLEAN]]
    <3>1. devices[d].cred + 1 \in Nat
      BY DEF TypeOK, DeviceRecord
    <3> QED BY <1>1, <3>1, ToldTypes DEF Refresh, TypeOK
  <2>6. /\ proof' \in [Device \cup Token \cup HostToken -> Nat]
        /\ minted' = minted \cup {t} /\ now' = now /\ hostTokens' = hostTokens
        /\ checking' = checking /\ resetting' = resetting /\ editions' = editions
    BY <1>1 DEF Refresh, Fresh, TypeOK, waiting
  <2> QED BY <2>2, <2>4, <2>5, <2>6 DEF TypeOK, ClockStarted
<1>2. ASSUME NEW d \in Device, NEW n, RefreshReused(d, n)
      PROVE  TypeOK' /\ ClockStarted'
  <2>1. RevokeAll(devices, {d}, now) \in [Device -> DeviceRecord]
    BY RevokeAllType DEF TypeOK, ClockStarted
  <2> QED BY <1>2, <2>1, CommitType, SessionTypes, ToldTypes
          DEF RefreshReused, TypeOK, ClockStarted, waiting
<1>3. ASSUME NEW t \in Token \cup {None}, NEW d \in Device \cup {None}, NEW w \in BOOLEAN,
             Logout(t, d, w)
      PROVE  TypeOK' /\ ClockStarted'
  <2> DEFINE dev == IF d # None THEN d
                    ELSE IF t # None /\ Valid(t) THEN sessions[t].device ELSE None
  <2>1. RevokeAll(devices, {dev}, now) \in [Device -> DeviceRecord]
    BY RevokeAllType DEF TypeOK, ClockStarted
  <2>2. /\ accounts' \in [Account -> AccountRecord]
        /\ hosts' \in [HostId -> HostRecord]
        /\ devices' \in [Device -> DeviceRecord]
        /\ disk' \in [accounts: [Account -> AccountRecord], hosts: [HostId -> HostRecord],
                      devices: [Device -> DeviceRecord]]
    <3>1. \/ Commit(accounts, hosts, RevokeAll(devices, {dev}, now))
          \/ UNCHANGED <<stored, disk>>
      BY <1>3 DEF Logout
    <3>2. CASE Commit(accounts, hosts, RevokeAll(devices, {dev}, now))
      BY <3>2, <2>1, CommitType DEF TypeOK
    <3> QED BY <3>1, <3>2 DEF TypeOK, stored
  <2>3. sessions' \in [Token -> Session]
    <3> DEFINE ended == EndSessionsOf(AfterDoor(t), {dev})
    <3>1. /\ AfterDoor(t) \in [Token -> Session]
          /\ ended \in [Token -> Session]
      BY SessionTypes DEF TypeOK
    <3>2. \E closed \in {ended, AfterDoor(t)} :
            sessions' = closed \/ sessions' = [closed EXCEPT ![t] = NoSession]
      BY <1>3 DEF Logout
    <3> HIDE DEF ended
    <3> QED BY <3>1, <3>2, EmptyTypes
  <2>4. told' \in [Device -> [creds: SUBSET Nat, ended: BOOLEAN]]
    BY <1>3, ToldTypes DEF Logout, TypeOK
  <2>5. UNCHANGED <<now, hostTokens, waiting, minted, editions, proof>>
    BY <1>3 DEF Logout
  <2> QED BY <2>2, <2>3, <2>4, <2>5 DEF TypeOK, ClockStarted, waiting
<1>4. ASSUME NEW t \in Token, NEW d \in Device, RevokeDevice(t, d)
      PROVE  TypeOK' /\ ClockStarted'
  <2>1. RevokeAll(devices, {d}, now) \in [Device -> DeviceRecord]
    BY RevokeAllType DEF TypeOK, ClockStarted
  <2> QED BY <1>4, <2>1, CommitType, SessionTypes, ToldTypes
          DEF RevokeDevice, TypeOK, ClockStarted, waiting
<1> QED BY <1>1, <1>2, <1>3, <1>4 DEF DeviceRoutes

(* What an operator, or somebody signing up, does to accounts. *)
LEMMA AdminType ==
  ASSUME TypeOK, ClockStarted, NEW a \in Account,
         \/ Signup(a) \/ SignupUnwritten(a) \/ AdminCreate(a)
         \/ AdminApprove(a) \/ AdminDisable(a) \/ AdminEnable(a)
         \/ AdminPassword(a) \/ AdminDelete(a) \/ AddAccountFromCli(a)
  PROVE  TypeOK' /\ ClockStarted'
<1> USE DEF ClockStarted
<1>1. ASSUME Signup(a) PROVE TypeOK'
  <2>1. [accounts EXCEPT ![a] = NewAccount] \in [Account -> AccountRecord]
    BY DEF TypeOK, NewAccount, AccountRecord, Status
  <2>2. /\ accounts' \in [Account -> AccountRecord]
        /\ hosts' \in [HostId -> HostRecord]
        /\ devices' \in [Device -> DeviceRecord]
        /\ disk' \in [accounts: [Account -> AccountRecord], hosts: [HostId -> HostRecord],
                      devices: [Device -> DeviceRecord]]
    BY <1>1, <2>1, CommitType DEF Signup, TypeOK
  <2> QED BY <1>1, <2>2 DEF Signup, TypeOK, waiting
<1>2. ASSUME SignupUnwritten(a) PROVE TypeOK'
  <2>1. /\ hosts' \in [HostId -> HostRecord]
        /\ devices' \in [Device -> DeviceRecord]
    BY <1>2, NoRecordType, EmptyTypes DEF SignupUnwritten, TypeOK
  <2> QED BY <1>2, <2>1 DEF SignupUnwritten, TypeOK, waiting
<1>3. ASSUME NEW status \in Status, SetStatus(a, status)
      PROVE  /\ accounts' \in [Account -> AccountRecord]
             /\ hosts' \in [HostId -> HostRecord]
             /\ devices' \in [Device -> DeviceRecord]
             /\ disk' \in [accounts: [Account -> AccountRecord], hosts: [HostId -> HostRecord],
                           devices: [Device -> DeviceRecord]]
  <2>1. [accounts EXCEPT ![a].status = status] \in [Account -> AccountRecord]
    BY DEF TypeOK, AccountRecord
  <2> QED BY <1>3, <2>1, CommitType DEF SetStatus, TypeOK
<1>4. ASSUME AdminApprove(a) PROVE TypeOK'
  BY <1>4, <1>3 DEF AdminApprove, TypeOK, waiting, Status
<1>5. ASSUME AdminDisable(a) PROVE TypeOK'
  <2>1. sessions' \in [Token -> Session]
    BY <1>5, SessionTypes DEF AdminDisable, TypeOK
  <2>2. CASE SetStatus(a, "disabled")
    BY <1>5, <1>3, <2>1, <2>2 DEF AdminDisable, TypeOK, waiting, Status
  <2>3. CASE UNCHANGED <<stored, disk>>
    BY <1>5, <2>1, <2>3 DEF AdminDisable, TypeOK, waiting, stored
  <2> QED BY <1>5, <2>2, <2>3 DEF AdminDisable
<1>6. ASSUME AdminEnable(a) PROVE TypeOK'
  BY <1>6, <1>3 DEF AdminEnable, TypeOK, waiting, Status
<1>7. ASSUME AdminPassword(a) PROVE TypeOK'
  <2>1. [accounts EXCEPT ![a].password = editions + 1] \in [Account -> AccountRecord]
    <3>1. accounts \in [Account -> AccountRecord] /\ editions + 1 \in Nat
      BY DEF TypeOK
    <3>2. \A record \in AccountRecord : [record EXCEPT !.password = editions + 1] \in AccountRecord
      BY <3>1 DEF AccountRecord
    <3>3. [accounts[a] EXCEPT !.password = editions + 1] \in AccountRecord
      BY <3>1, <3>2
    <3> QED BY <3>1, <3>3
  <2>2. [h \in HostId |-> IF h \in HostsOf(hosts, a) THEN [hosts[h] EXCEPT !.token = None]
                          ELSE hosts[h]] \in [HostId -> HostRecord]
    <3>1. hosts \in [HostId -> HostRecord]
      BY DEF TypeOK
    <3>2. \A record \in HostRecord : [record EXCEPT !.token = None] \in HostRecord
      BY DEF HostRecord
    <3> QED BY <3>1, <3>2
  <2>3. RevokeAll(devices, DevicesOf(devices, a), now) \in [Device -> DeviceRecord]
    BY RevokeAllType DEF TypeOK
  <2>4. /\ accounts' \in [Account -> AccountRecord]
        /\ hosts' \in [HostId -> HostRecord]
        /\ devices' \in [Device -> DeviceRecord]
        /\ disk' \in [accounts: [Account -> AccountRecord], hosts: [HostId -> HostRecord],
                      devices: [Device -> DeviceRecord]]
    BY <1>7, <2>1, <2>2, <2>3, CommitType DEF AdminPassword
  <2>5. /\ hostTokens' \in [HostToken -> HostId \cup {None}]
        /\ resetting' \in [Account -> Nat] /\ editions' \in Nat
        /\ UNCHANGED <<now, checking, minted, proof>>
    BY <1>7 DEF AdminPassword, TypeOK
  <2>6. /\ sessions' \in [Token -> Session]
        /\ told' \in [Device -> [creds: SUBSET Nat, ended: BOOLEAN]]
    BY <1>7, SessionTypes, ToldTypes DEF AdminPassword, TypeOK
  <2> QED BY <2>4, <2>5, <2>6 DEF TypeOK
<1>8. ASSUME AdminDelete(a) PROVE TypeOK'
  <2>1. /\ [accounts EXCEPT ![a] = NoAccount] \in [Account -> AccountRecord]
        /\ [h \in HostId |-> IF h \in HostsOf(hosts, a) THEN NoHost ELSE hosts[h]]
             \in [HostId -> HostRecord]
        /\ [d \in Device |-> IF d \in DevicesOf(devices, a) THEN NoRecord ELSE devices[d]]
             \in [Device -> DeviceRecord]
    BY EmptyTypes, NoRecordType DEF TypeOK
  <2>2. /\ accounts' \in [Account -> AccountRecord]
        /\ hosts' \in [HostId -> HostRecord]
        /\ devices' \in [Device -> DeviceRecord]
        /\ disk' \in [accounts: [Account -> AccountRecord], hosts: [HostId -> HostRecord],
                      devices: [Device -> DeviceRecord]]
    BY <1>8, <2>1, CommitType DEF AdminDelete
  <2>3. hostTokens' \in [HostToken -> HostId \cup {None}]
    BY <1>8 DEF AdminDelete, TypeOK
  <2> QED BY <1>8, <2>2, <2>3, SessionTypes, ToldTypes DEF AdminDelete, TypeOK, waiting
<1>9. ASSUME AddAccountFromCli(a) PROVE TypeOK'
  <2>1. [disk.accounts EXCEPT ![a] =
           [status |-> "active", password |-> editions + 1,
            born |-> IF disk.accounts[a].status = "absent" THEN editions + 1
                     ELSE disk.accounts[a].born]] \in [Account -> AccountRecord]
    BY DEF TypeOK, AccountRecord, Status
  <2>2. /\ disk.hosts \in [HostId -> HostRecord] /\ disk.devices \in [Device -> DeviceRecord]
    BY DEF TypeOK
  <2>3. /\ accounts' \in [Account -> AccountRecord]
        /\ hosts' \in [HostId -> HostRecord]
        /\ devices' \in [Device -> DeviceRecord]
        /\ disk' \in [accounts: [Account -> AccountRecord], hosts: [HostId -> HostRecord],
                      devices: [Device -> DeviceRecord]]
    BY <1>9, <2>1, <2>2, CommitType DEF AddAccountFromCli, Boot
  <2>4. hostTokens' \in [HostToken -> HostId \cup {None}]
    BY <1>9, IndexType DEF AddAccountFromCli, Boot
  <2>5. /\ sessions' \in [Token -> Session]
        /\ checking' \in [Account -> Check]
        /\ resetting' \in [Account -> Nat]
    BY <1>9, EmptyTypes DEF AddAccountFromCli, Boot
  <2>6. editions' \in Nat /\ UNCHANGED <<now, minted, told, proof>>
    BY <1>9 DEF AddAccountFromCli, Boot, TypeOK
  <2> QED BY <2>3, <2>4, <2>5, <2>6 DEF TypeOK
<1>10. ASSUME AdminCreate(a) PROVE TypeOK'
  BY <1>10, <1>1 DEF AdminCreate
<1>11. now' = now
  BY DEF Signup, SignupUnwritten, AdminCreate, AdminApprove, AdminDisable, AdminEnable,
         AdminPassword, AdminDelete, AddAccountFromCli, Boot
<1> QED BY <1>1, <1>2, <1>4, <1>5, <1>6, <1>7, <1>8, <1>9, <1>10, <1>11

(* Every step of the directory keeps them so. *)
LEMMA TypeStep ==
  ASSUME TypeOK, ClockStarted, [Next]_vars
  PROVE  TypeOK' /\ ClockStarted'
<1>1. CASE SignIn
  BY <1>1, WaitingType, SignInType DEF SignIn
<1>2. CASE DeviceRoutes
  BY <1>2, DeviceRoutesType
<1>3. CASE Admin
  BY <1>3, WaitingType, AdminType DEF Admin
<1>4. CASE Tick
  BY <1>4 DEF Tick, TypeOK, ClockStarted, stored, waiting
<1>5. CASE Sweep
  BY <1>5, EmptyTypes DEF Sweep, TypeOK, ClockStarted, stored, waiting
<1>6. CASE Restart
  <2>1. /\ disk.accounts \in [Account -> AccountRecord]
        /\ disk.hosts \in [HostId -> HostRecord] /\ disk.devices \in [Device -> DeviceRecord]
    BY DEF TypeOK
  <2> QED BY <1>6, <2>1, CommitType, IndexType, EmptyTypes
          DEF Restart, Boot, TypeOK, ClockStarted
<1>7. CASE UNCHANGED vars
  BY <1>7 DEF vars, TypeOK, ClockStarted, stored, waiting
<1> QED BY <1>1, <1>2, <1>3, <1>4, <1>5, <1>6, <1>7 DEF Next

(* Every variable always holds a value of its kind, and the clock runs. *)
THEOREM TypeInvariant == Spec => [](TypeOK /\ ClockStarted)
<1>1. TypeOK /\ ClockStarted /\ [Next]_vars => (TypeOK /\ ClockStarted)'
  BY TypeStep
<1> QED BY <1>1, InitType, PTL DEF Spec

-----------------------------------------------------------------------------
(* The store and its file *)

(* What is so of every family: one in the store was once given out, was last *)
(* used in the past, and is not behind what callers were told of it; of one  *)
(* never given out nobody was told anything.                                 *)
Good(r, given, t, time, made) ==
  /\ InStore(r) => /\ given /\ r.lastUsedAt <= time /\ r.place <= made
                   /\ \A n \in t.creds : n <= r.cred
  /\ ~given => t.creds = {} /\ ~t.ended
  /\ t.ended => r.revokedAt # 0 \/ ~InStore(r)

FamiliesMade == Cardinality(minted \cap Device)

FamiliesAreGood ==
  \A d \in Device : Good(devices[d], d \in minted, told[d], now, FamiliesMade)

(* The strengthening of AnswersSurviveRestart: it speaks of the file, the    *)
(* handlers read the memory, and taking back a sign-up leaves the two alike  *)
(* only because nothing belongs to an account that does not exist.           *)
StoreInv ==
  /\ TypeOK /\ ClockStarted
  /\ MemoryIsDisk /\ OwnersExist /\ FamiliesAreGood

ToldOf == [creds: SUBSET Nat, ended: BOOLEAN]

(* Each thing that may happen to a family keeps it good. *)
LEMMA GoodSteps ==
  ASSUME NEW r \in DeviceRecord, NEW given \in BOOLEAN, NEW t \in ToldOf, NEW time \in Nat, NEW made \in Nat,
         time > 0, Good(r, given, t, time, made)
  PROVE  /\ Good(NoRecord, given, t, time, made)
         /\ Good(Revoke(r, time), given, t, time, made)
         /\ Good(r, TRUE, t, time, made)
         /\ Good(r, given, t, time + 1, made)
         /\ \A more \in Nat : more >= made => Good(r, given, t, time, more)
         /\ InStore(r) => /\ Good(NoRecord, given, [t EXCEPT !.ended = TRUE], time, made)
                          /\ Good(Revoke(r, time), given, [t EXCEPT !.ended = TRUE], time, made)
         /\ \A how : InStore(r) /\ r.revokedAt = 0 =>
              /\ Good(Rotate(r, how, time), given, t, time, made)
              /\ Good(Rotate(r, how, time), given,
                      [t EXCEPT !.creds = t.creds \cup {r.cred + 1}], time, made)
<1> USE DEF ToldOf
<1>1. /\ Revoke(r, time) \in DeviceRecord
      /\ Revoke(r, time).cred = r.cred
      /\ Revoke(r, time).lastUsedAt = r.lastUsedAt
      /\ Revoke(r, time).place = r.place
      /\ InStore(r) => Revoke(r, time).revokedAt # 0
      /\ r.revokedAt # 0 => Revoke(r, time).revokedAt # 0
  BY RevokeFacts
<1>2. /\ Good(NoRecord, given, t, time, made)
      /\ Good(r, TRUE, t, time, made)
      /\ Good(r, given, t, time + 1, made)
      /\ \A more \in Nat : more >= made => Good(r, given, t, time, more)
  BY NoRecordType DEF Good, DeviceRecord, InStore
<1>3. Good(Revoke(r, time), given, t, time, made)
  BY <1>1 DEF Good, InStore
<1>4. ASSUME InStore(r)
      PROVE  /\ Good(NoRecord, given, [t EXCEPT !.ended = TRUE], time, made)
             /\ Good(Revoke(r, time), given, [t EXCEPT !.ended = TRUE], time, made)
  BY <1>1, <1>4, NoRecordType DEF Good, InStore
<1>5. ASSUME NEW how, InStore(r), r.revokedAt = 0
      PROVE  /\ Good(Rotate(r, how, time), given, t, time, made)
             /\ Good(Rotate(r, how, time), given,
                     [t EXCEPT !.creds = t.creds \cup {r.cred + 1}], time, made)
  <2>1. /\ Rotate(r, how, time).cred = r.cred + 1
        /\ Rotate(r, how, time).lastUsedAt = time
        /\ Rotate(r, how, time).revokedAt = r.revokedAt
        /\ Rotate(r, how, time).place = r.place
    BY RotateFacts
  <2>2. r.cred \in Nat /\ \A n \in t.creds : n \in Nat /\ n <= r.cred + 1
    BY <1>5 DEF DeviceRecord, Good
  <2> QED BY <1>5, <2>1, <2>2 DEF Good, InStore
<1> QED BY <1>2, <1>3, <1>4, <1>5

(* How many families were ever made only grows, and by those made. *)
LEMMA MadeFacts ==
  /\ FamiliesMade \in Nat /\ FamiliesMade' \in Nat
  /\ minted \subseteq minted' => FamiliesMade' >= FamiliesMade
  /\ \A d \in Device : \A v : d \notin minted /\ v \notin Device /\ minted' = minted \cup {d, v}
       => FamiliesMade' = FamiliesMade + 1
  /\ (\A d \in Device : d \in minted' <=> d \in minted) => FamiliesMade' = FamiliesMade
<1>1. /\ IsFiniteSet(minted \cap Device) /\ IsFiniteSet(minted' \cap Device)
  BY DirectoryAssumption, FS_Subset
<1>2. /\ Cardinality(minted \cap Device) \in Nat /\ Cardinality(minted' \cap Device) \in Nat
  BY <1>1, FS_CardinalityType
<1>3. ASSUME minted \subseteq minted'
      PROVE  Cardinality(minted' \cap Device) >= Cardinality(minted \cap Device)
  <2>1. minted \cap Device \subseteq minted' \cap Device
    BY <1>3
  <2>2. Cardinality(minted \cap Device) <= Cardinality(minted' \cap Device)
    BY <1>1, <2>1, FS_Subset
  <2> QED BY <1>2, <2>2
<1>4. ASSUME NEW d \in Device, NEW v, d \notin minted, v \notin Device,
             minted' = minted \cup {d, v}
      PROVE  Cardinality(minted' \cap Device) = Cardinality(minted \cap Device) + 1
  <2>1. minted' \cap Device = (minted \cap Device) \cup {d}
    BY <1>4
  <2> QED BY <1>1, <1>4, <2>1, FS_AddElement
<1>5. ASSUME \A d \in Device : d \in minted' <=> d \in minted
      PROVE  minted' \cap Device = minted \cap Device
  BY <1>5
<1> QED BY <1>2, <1>3, <1>4, <1>5 DEF FamiliesMade

(* Where nothing is added and no account goes, owners stay. *)
LEMMA OwnersKept ==
  ASSUME TypeOK, OwnersExist,
         \A a \in Account : accounts[a].status # "absent" => accounts'[a].status # "absent",
         \A d \in Device : InStore(devices'[d]) =>
           InStore(devices[d]) /\ devices'[d].account = devices[d].account,
         \A h \in HostId : hosts'[h].account \in {None, hosts[h].account}
  PROVE  OwnersExist'
BY DEF OwnersExist, TypeOK, DeviceRecord, HostRecord

(* Steps that leave the store, its file and what callers know alone. *)
LEMMA StoreUntouched ==
  ASSUME StoreInv, UNCHANGED <<stored, disk, told>>,
         now' = now \/ now' = now + 1, minted \subseteq minted'
  PROVE  MemoryIsDisk' /\ OwnersExist' /\ FamiliesAreGood'
<1>1. MemoryIsDisk' /\ OwnersExist'
  BY DEF StoreInv, stored, MemoryIsDisk, OwnersExist
<1>2. ASSUME NEW d \in Device
      PROVE  Good(devices[d], d \in minted', told[d], now', FamiliesMade')
  <2>1. Good(devices[d], d \in minted, told[d], now, FamiliesMade)
    BY DEF StoreInv, FamiliesAreGood
  <2>2. devices[d] \in DeviceRecord /\ now \in Nat
    BY DEF StoreInv, TypeOK
  <2>3. /\ FamiliesMade \in Nat /\ FamiliesMade' \in Nat /\ FamiliesMade' >= FamiliesMade
    BY MadeFacts
  <2> QED BY <2>1, <2>2, <2>3 DEF Good, DeviceRecord
<1> QED BY <1>1, <1>2 DEF FamiliesAreGood, stored

(* Ending families, told or not, keeps them good. *)
LEMMA RevokeAllGood ==
  ASSUME StoreInv, NEW which,
         \A d \in Device : d \in which => InStore(devices[d])
  PROVE  \A d \in Device :
           /\ Good(RevokeAll(devices, which, now)[d], d \in minted, told[d], now, FamiliesMade)
           /\ Good(RevokeAll(devices, which, now)[d], d \in minted, TellEnded(which)[d], now, FamiliesMade)
<1> SUFFICES ASSUME NEW d \in Device
             PROVE  /\ Good(RevokeAll(devices, which, now)[d], d \in minted, told[d], now, FamiliesMade)
                    /\ Good(RevokeAll(devices, which, now)[d], d \in minted,
                            TellEnded(which)[d], now, FamiliesMade)
  OBVIOUS
<1>1. /\ devices[d] \in DeviceRecord /\ told[d] \in ToldOf
      /\ now \in Nat /\ now > 0 /\ (d \in minted) \in BOOLEAN
      /\ Good(devices[d], d \in minted, told[d], now, FamiliesMade)
  BY DEF StoreInv, TypeOK, ClockStarted, ToldOf, FamiliesAreGood
<1>2. CASE d \in which
  <2>1. /\ RevokeAll(devices, which, now)[d] = Revoke(devices[d], now)
        /\ TellEnded(which)[d] = [told[d] EXCEPT !.ended = TRUE]
    BY <1>2 DEF RevokeAll, TellEnded
  <2>2. InStore(devices[d])
    BY <1>2
  <2>3. Good(Revoke(devices[d], now), d \in minted, told[d], now, FamiliesMade)
    BY <1>1, GoodSteps, MadeFacts
  <2>4. Good(Revoke(devices[d], now), d \in minted, [told[d] EXCEPT !.ended = TRUE], now, FamiliesMade)
    BY <1>1, <2>2, GoodSteps, MadeFacts
  <2> QED BY <2>1, <2>3, <2>4
<1>3. CASE d \notin which
  BY <1>1, <1>3 DEF RevokeAll, TellEnded
<1> QED BY <1>2, <1>3

(* ... and with their accounts. *)
LEMMA RevokeAllOwners ==
  ASSUME StoreInv, NEW which
  PROVE  \A d \in Device :
           /\ InStore(RevokeAll(devices, which, now)[d]) => InStore(devices[d])
           /\ RevokeAll(devices, which, now)[d].account = devices[d].account
BY RevokeFacts DEF StoreInv, TypeOK, ClockStarted, RevokeAll, InStore

(* A sign-in with a password: the family it starts is good, pruning leaves   *)
(* the others so.                                                            *)
LEMMA LoginStore ==
  ASSUME StoreInv, NEW a \in Account, NEW d \in Device, NEW t \in Token, NEW heard \in BOOLEAN,
         Login(a, d, t, heard)
  PROVE  MemoryIsDisk' /\ OwnersExist' /\ FamiliesAreGood'
<1> DEFINE place == 1 + Cardinality(minted \cap Device)
           made == CreateFamily(devices, a, d, place, now)
           pruned == Prune(made, a, now)
<1>1. /\ accounts' = accounts /\ hosts' = hosts /\ devices' = pruned /\ now' = now
      /\ disk' = [accounts |-> accounts, hosts |-> hosts, devices |-> pruned]
      /\ told' = TellCredential(d, 1, heard)
      /\ d \notin minted /\ minted' = minted \cup {d, t}
      /\ accounts[a].status = "active"
  BY DEF Login, Commit, Admitted
<1>2. /\ now \in Nat /\ now > 0 /\ place \in Nat
      /\ devices \in [Device -> DeviceRecord] /\ told \in [Device -> ToldOf]
      /\ made \in [Device -> DeviceRecord]
  BY CreateFamilyType, PlaceType DEF StoreInv, TypeOK, ClockStarted, ToldOf
<1>3. /\ made[d] \in DeviceRecord /\ made[d].cred = 1 /\ made[d].account = a
      /\ made[d].lastUsedAt = now
      /\ made[d].place = place
      /\ \A e \in Device \ {d} : made[e] = devices[e]
  BY <1>2 DEF CreateFamily, StoreInv, TypeOK
<1>4. \A e \in Device : \/ pruned[e] = made[e]
                        \/ pruned[e] = NoRecord
                        \/ pruned[e] = Revoke(made[e], now)
  BY ZenonT(30), <1>2, PruneFacts
<1> HIDE DEF made, pruned
<1>5. \A e \in Device : InStore(pruned[e]) => InStore(made[e]) /\ pruned[e].account = made[e].account
  <2> SUFFICES ASSUME NEW e \in Device, InStore(pruned[e])
               PROVE  InStore(made[e]) /\ pruned[e].account = made[e].account
    OBVIOUS
  <2>1. made[e] \in DeviceRecord
    BY <1>2
  <2>2. /\ Revoke(made[e], now).cred = made[e].cred
        /\ Revoke(made[e], now).account = made[e].account
    BY <1>2, <2>1, RevokeFacts
  <2> QED BY <1>4, <2>2, NoRecordType DEF InStore
<1>6. MemoryIsDisk'
  BY <1>1 DEF MemoryIsDisk
<1>7. OwnersExist'
  BY <1>1, <1>3, <1>5, NoneAssumption DEF OwnersExist, StoreInv
<1>8. ASSUME NEW e \in Device
      PROVE  Good(pruned[e], e \in minted', told'[e], now, FamiliesMade')
  <2>1. told'[e] \in ToldOf /\ made[e] \in DeviceRecord /\ (e \in minted') \in BOOLEAN
    BY <1>1, <1>2 DEF TellCredential, ToldOf
  <2>2. Good(devices[e], e \in minted, told[e], now, FamiliesMade)
    BY DEF StoreInv, FamiliesAreGood
  <2>3. ASSUME e = d PROVE Good(made[e], e \in minted', told'[e], now, FamiliesMade')
    <3>1. told'[e].creds \subseteq {1} /\ ~told'[e].ended /\ e \in minted'
      BY <1>1, <1>2, <2>2, <2>3 DEF Good, TellCredential, ToldOf
    <3>2. FamiliesMade' = FamiliesMade + 1 /\ FamiliesMade \in Nat
      <4>1. t \notin Device
        BY RandomAssumption
      <4> QED BY <1>1, <4>1, MadeFacts
    <3>3. made[e].place = FamiliesMade + 1
      BY <1>2, <1>3, <2>3, <3>2 DEF FamiliesMade
    <3> QED BY <1>2, <1>3, <2>3, <3>1, <3>2, <3>3 DEF Good
  <2>4. ASSUME e # d PROVE Good(made[e], e \in minted', told'[e], now, FamiliesMade')
    <3>1. told'[e] = told[e] /\ (e \in minted' <=> e \in minted) /\ made[e] = devices[e]
      BY <1>1, <1>2, <1>3, <2>4, RandomAssumption DEF TellCredential
    <3>2. FamiliesMade \in Nat /\ FamiliesMade' \in Nat /\ FamiliesMade' >= FamiliesMade
      BY <1>1, MadeFacts
    <3>3. told[e] \in ToldOf /\ devices[e] \in DeviceRecord /\ (e \in minted) \in BOOLEAN
      BY <1>2
    <3>4. Good(devices[e], e \in minted, told[e], now, FamiliesMade')
      BY <1>2, <2>2, <3>2, <3>3, GoodSteps
    <3> QED BY <3>1, <3>4
  <2>5. Good(made[e], e \in minted', told'[e], now, FamiliesMade')
    BY <2>3, <2>4
  <2>6. FamiliesMade' \in Nat
    BY MadeFacts
  <2>7. /\ Good(NoRecord, e \in minted', told'[e], now, FamiliesMade')
        /\ Good(Revoke(made[e], now), e \in minted', told'[e], now, FamiliesMade')
    BY <1>2, <2>1, <2>5, <2>6, GoodSteps
  <2> QED BY <1>4, <2>5, <2>7
<1> QED BY <1>1, <1>6, <1>7, <1>8 DEF FamiliesAreGood

(* Every other way of signing in, and what it waits for. *)
LEMMA SignInStore ==
  ASSUME StoreInv, SignIn
  PROVE  MemoryIsDisk' /\ OwnersExist' /\ FamiliesAreGood'
<1>1. ASSUME NEW a \in Account, NEW purpose \in {"login", "plain", "register"},
             BeginCheck(a, purpose)
      PROVE  MemoryIsDisk' /\ OwnersExist' /\ FamiliesAreGood'
  BY <1>1, StoreUntouched DEF BeginCheck
<1>2. ASSUME NEW a \in Account, CheckRefused(a)
      PROVE  MemoryIsDisk' /\ OwnersExist' /\ FamiliesAreGood'
  BY <1>2, StoreUntouched DEF CheckRefused
<1>3. ASSUME NEW a \in Account, NEW t \in Token, PlainLogin(a, t)
      PROVE  MemoryIsDisk' /\ OwnersExist' /\ FamiliesAreGood'
  BY <1>3, StoreUntouched DEF PlainLogin, Fresh
<1>4. ASSUME NEW a \in Account, NEW m \in Machine, NEW h \in HostId, NEW k \in HostToken,
             RegisterHost(a, m, h, k)
      PROVE  MemoryIsDisk' /\ OwnersExist' /\ FamiliesAreGood'
  <2>1. /\ accounts' = accounts /\ devices' = devices /\ now' = now /\ told' = told
        /\ hosts' = [hosts EXCEPT ![h] = [account |-> a, machine |-> m, token |-> k]]
        /\ disk' = [accounts |-> accounts, hosts |-> hosts', devices |-> devices]
        /\ minted' = minted \cup {h, k}
        /\ accounts[a].status = "active"
    BY <1>4 DEF RegisterHost, Commit, Admitted
  <2>2. MemoryIsDisk'
    BY <2>1 DEF MemoryIsDisk
  <2>3. OwnersExist'
    BY <2>1 DEF OwnersExist, StoreInv, TypeOK
  <2>4. \A d \in Device : d \in minted' <=> d \in minted
    BY <2>1, RandomAssumption
  <2>5. FamiliesAreGood'
    BY <2>1, <2>4, MadeFacts DEF FamiliesAreGood, StoreInv
  <2> QED BY <2>2, <2>3, <2>5
<1> QED BY <1>1, <1>2, <1>3, <1>4, LoginStore DEF SignIn

(* A change that ends families and does nothing else. *)
LEMMA RevokedStore ==
  ASSUME StoreInv, NEW which,
         \A d \in Device : d \in which => InStore(devices[d]),
         Commit(accounts, hosts, RevokeAll(devices, which, now)),
         UNCHANGED <<now, minted>>, told' = TellEnded(which)
  PROVE  MemoryIsDisk' /\ OwnersExist' /\ FamiliesAreGood'
<1>1. MemoryIsDisk'
  BY DEF MemoryIsDisk, Commit
<1>2. OwnersExist'
  BY RevokeAllOwners, OwnersKept DEF Commit, StoreInv
<1>3. FamiliesAreGood'
  BY RevokeAllGood, MadeFacts DEF FamiliesAreGood, Commit
<1> QED BY <1>1, <1>2, <1>3

(* The routes of a client: a rotation moves the credential on as it is told,  *)
(* an end is on file when it is told.                                         *)
LEMMA RoutesStore ==
  ASSUME StoreInv, DeviceRoutes
  PROVE  MemoryIsDisk' /\ OwnersExist' /\ FamiliesAreGood'
<1>1. ASSUME NEW d \in Device, NEW t \in Token, NEW heard \in BOOLEAN,
             NEW n \in Presentable(d), Refresh(d, n, t, heard)
      PROVE  MemoryIsDisk' /\ OwnersExist' /\ FamiliesAreGood'
  <2> DEFINE how == Classify(devices[d], n, now)
             next == Rotate(devices[d], how, now)
  <2>1. /\ accounts' = accounts /\ hosts' = hosts /\ now' = now
        /\ devices' = [devices EXCEPT ![d] = next]
        /\ disk' = [accounts |-> accounts, hosts |-> hosts, devices |-> devices']
        /\ told' = TellCredential(d, devices[d].cred + 1, heard)
        /\ minted' = minted \cup {t}
    BY <1>1 DEF Refresh, Commit, Fresh
  <2>2. InStore(devices[d]) /\ devices[d].revokedAt = 0
    BY <1>1, AcceptedIsLive DEF Refresh
  <2>3. /\ now \in Nat /\ now > 0 /\ devices[d] \in DeviceRecord
        /\ devices \in [Device -> DeviceRecord] /\ told \in [Device -> ToldOf]
    BY DEF StoreInv, TypeOK, ClockStarted, ToldOf
  <2>4. next.account = devices[d].account
    BY <2>3, RotateFacts
  <2>5. /\ Good(next, d \in minted, told[d], now, FamiliesMade)
        /\ Good(next, d \in minted,
                [told[d] EXCEPT !.creds = told[d].creds \cup {devices[d].cred + 1}], now, FamiliesMade)
    <3>1. /\ told[d] \in ToldOf /\ (d \in minted) \in BOOLEAN
          /\ Good(devices[d], d \in minted, told[d], now, FamiliesMade)
      BY <2>3 DEF StoreInv, FamiliesAreGood
    <3> QED BY <2>2, <2>3, <3>1, GoodSteps, MadeFacts
  <2> HIDE DEF next
  <2>6. \A e \in Device : e \in minted' <=> e \in minted
    BY <2>1, RandomAssumption
  <2>7. told'[d] \in {told[d], [told[d] EXCEPT !.creds = told[d].creds \cup {devices[d].cred + 1}]}
        /\ \A e \in Device \ {d} : told'[e] = told[e]
    BY <2>1, <2>3 DEF TellCredential
  <2>8. FamiliesAreGood'
    <3> SUFFICES ASSUME NEW e \in Device
                 PROVE  Good(devices'[e], e \in minted', told'[e], now, FamiliesMade')
      BY <2>1 DEF FamiliesAreGood
    <3>1. CASE e = d
      BY <2>1, <2>3, <2>5, <2>6, <2>7, <3>1, MadeFacts
    <3>2. CASE e # d
      BY <2>1, <2>3, <2>6, <2>7, <3>2, MadeFacts DEF StoreInv, FamiliesAreGood
    <3> QED BY <3>1, <3>2
  <2>9. MemoryIsDisk'
    BY <2>1 DEF MemoryIsDisk
  <2>10. OwnersExist'
    BY <2>1, <2>2, <2>3, <2>4, OwnersKept DEF StoreInv
  <2> QED BY <2>8, <2>9, <2>10
<1>2. ASSUME NEW d \in Device, NEW n \in Presentable(d), RefreshReused(d, n)
      PROVE  MemoryIsDisk' /\ OwnersExist' /\ FamiliesAreGood'
  <2>1. InStore(devices[d])
    BY <1>2 DEF RefreshReused, Classify
  <2> QED BY <1>2, <2>1, RevokedStore DEF RefreshReused
<1>3. ASSUME NEW t \in Token \cup {None}, NEW d \in Device \cup {None}, NEW w \in BOOLEAN,
             Logout(t, d, w)
      PROVE  MemoryIsDisk' /\ OwnersExist' /\ FamiliesAreGood'
  <2> DEFINE dev == IF d # None THEN d
                    ELSE IF t # None /\ Valid(t) THEN sessions[t].device ELSE None
  <2>1. \/ /\ InStore(devices[dev]) /\ dev # None
           /\ Commit(accounts, hosts, RevokeAll(devices, {dev}, now))
           /\ told' = TellEnded({dev})
        \/ UNCHANGED <<stored, disk, told>>
    BY <1>3 DEF Logout
  <2>2. UNCHANGED <<now, minted>>
    BY <1>3 DEF Logout
  <2> HIDE DEF dev
  <2>3. CASE UNCHANGED <<stored, disk, told>>
    BY <2>2, <2>3, StoreUntouched
  <2>4. CASE /\ InStore(devices[dev])
             /\ Commit(accounts, hosts, RevokeAll(devices, {dev}, now))
             /\ told' = TellEnded({dev})
    BY <2>2, <2>4, RevokedStore
  <2> QED BY <2>1, <2>3, <2>4
<1>4. ASSUME NEW t \in Token, NEW d \in Device, RevokeDevice(t, d)
      PROVE  MemoryIsDisk' /\ OwnersExist' /\ FamiliesAreGood'
  BY <1>4, RevokedStore DEF RevokeDevice
<1> QED BY <1>1, <1>2, <1>3, <1>4 DEF DeviceRoutes

(* What an operator does: only a deletion makes an account absent, and takes *)
(* everything of it along; taking back a sign-up takes nothing.              *)
LEMMA AdminStore ==
  ASSUME StoreInv, TypeOK', Admin
  PROVE  MemoryIsDisk' /\ OwnersExist' /\ FamiliesAreGood'
<1>1. PICK a \in Account :
        \/ Signup(a) \/ SignupUnwritten(a) \/ AdminCreate(a)
        \/ AdminApprove(a) \/ AdminDisable(a) \/ AdminEnable(a)
        \/ BeginAdminPassword(a) \/ AdminPassword(a) \/ AdminPasswordRefused(a)
        \/ AdminDelete(a)
        \/ AddAccountFromCli(a)
  BY DEF Admin
<1>2. ASSUME NEW accs, Commit(accs, hosts, devices), UNCHANGED <<now, minted, told>>,
             \A b \in Account : accounts[b].status # "absent" => accs[b].status # "absent"
      PROVE  MemoryIsDisk' /\ OwnersExist' /\ FamiliesAreGood'
  <2>1. MemoryIsDisk'
    BY <1>2 DEF MemoryIsDisk, Commit
  <2>2. OwnersExist'
    BY <1>2, OwnersKept DEF Commit, StoreInv
  <2>3. FamiliesAreGood'
    BY <1>2, MadeFacts DEF FamiliesAreGood, Commit, StoreInv
  <2> QED BY <2>1, <2>2, <2>3
<1>3. CASE Signup(a) \/ AdminCreate(a)
  <2>1. Commit([accounts EXCEPT ![a] = NewAccount], hosts, devices) /\ UNCHANGED <<now, minted, told>>
    BY <1>3 DEF Signup, AdminCreate
  <2>2. \A b \in Account : accounts[b].status # "absent"
          => [accounts EXCEPT ![a] = NewAccount][b].status # "absent"
    BY DEF NewAccount, StoreInv, TypeOK
  <2> QED BY <1>2, <2>1, <2>2
<1>4. CASE SignupUnwritten(a)
  <2>1. HostsOf(hosts, a) = {} /\ DevicesOf(devices, a) = {}
    BY <1>4, NoneAssumption DEF SignupUnwritten, HostsOf, DevicesOf, StoreInv, OwnersExist
  <2>2. hosts' = hosts /\ devices' = devices
    BY <1>4, <2>1 DEF SignupUnwritten, StoreInv, TypeOK
  <2> QED BY <1>4, <2>2, StoreUntouched DEF SignupUnwritten, stored
<1>5. ASSUME NEW status \in Status \ {"absent"}, SetStatus(a, status),
             UNCHANGED <<now, minted, told>>
      PROVE  MemoryIsDisk' /\ OwnersExist' /\ FamiliesAreGood'
  <2>1. \A b \in Account : accounts[b].status # "absent"
          => [accounts EXCEPT ![a].status = status][b].status # "absent"
    BY DEF StoreInv, TypeOK, AccountRecord
  <2> QED BY <1>2, <1>5, <2>1 DEF SetStatus
<1>6. CASE AdminApprove(a) \/ AdminEnable(a)
  BY <1>5, <1>6 DEF AdminApprove, AdminEnable, Status
<1>7. CASE AdminDisable(a)
  <2>1. CASE SetStatus(a, "disabled")
    BY <1>5, <1>7, <2>1 DEF AdminDisable, Status
  <2>2. CASE UNCHANGED <<stored, disk>>
    BY <1>7, <2>2, StoreUntouched DEF AdminDisable
  <2> QED BY <1>7, <2>1, <2>2 DEF AdminDisable
<1>8. CASE BeginAdminPassword(a) \/ AdminPasswordRefused(a)
  BY <1>8, StoreUntouched DEF BeginAdminPassword, AdminPasswordRefused
<1>9. CASE AdminPassword(a)
  <2> DEFINE theirs == DevicesOf(devices, a)
             ended == {d \in theirs : devices[d].revokedAt = 0}
             accs == [accounts EXCEPT ![a].password = editions + 1]
             hs == [h \in HostId |-> IF h \in HostsOf(hosts, a)
                                     THEN [hosts[h] EXCEPT !.token = None] ELSE hosts[h]]
  <2>1. /\ Commit(accs, hs, RevokeAll(devices, theirs, now))
        /\ UNCHANGED <<now, minted>> /\ told' = TellEnded(ended)
    BY <1>9 DEF AdminPassword
  <2>2. /\ \A b \in Account : accs[b].status = accounts[b].status
        /\ \A h \in HostId : hs[h].account = hosts[h].account
    BY DEF StoreInv, TypeOK, AccountRecord, HostRecord
  <2>3. \A d \in Device : d \in theirs => InStore(devices[d])
    BY DEF DevicesOf
  <2> HIDE DEF accs, hs, theirs
  <2>4. MemoryIsDisk'
    BY <2>1 DEF MemoryIsDisk, Commit
  <2>5. OwnersExist'
    BY <2>1, <2>2, RevokeAllOwners, OwnersKept DEF Commit, StoreInv
  <2>6. ASSUME NEW d \in Device
        PROVE  Good(RevokeAll(devices, theirs, now)[d], d \in minted, TellEnded(ended)[d], now, FamiliesMade)
    <3>1. TellEnded(ended)[d] \in {told[d], TellEnded(theirs)[d]}
      BY DEF TellEnded
    <3> QED BY <2>3, <3>1, RevokeAllGood
  <2>7. FamiliesAreGood'
    BY <2>1, <2>6, MadeFacts DEF FamiliesAreGood, Commit
  <2> QED BY <2>4, <2>5, <2>7
<1>10. CASE AdminDelete(a)
  <2> DEFINE gone == DevicesOf(devices, a)
             hs == [h \in HostId |-> IF h \in HostsOf(hosts, a) THEN NoHost ELSE hosts[h]]
             ds == [d \in Device |-> IF d \in gone THEN NoRecord ELSE devices[d]]
  <2>1. /\ Commit([accounts EXCEPT ![a] = NoAccount], hs, ds)
        /\ UNCHANGED <<now, minted>> /\ told' = TellEnded(gone)
    BY <1>10 DEF AdminDelete
  <2>2. MemoryIsDisk'
    BY <2>1 DEF MemoryIsDisk, Commit
  <2>3. OwnersExist'
    <3>1. /\ \A b \in Account \ {a} : accounts'[b] = accounts[b]
          /\ devices' = ds /\ hosts' = hs
      BY <2>1 DEF Commit, StoreInv, TypeOK
    <3>2. \A d \in Device : InStore(ds[d]) =>
            InStore(devices[d]) /\ devices[d].account # a /\ ds[d] = devices[d]
      BY NoRecordType DEF DevicesOf
    <3>3. \A h \in HostId : hs[h].account # None => hosts[h].account # a /\ hs[h] = hosts[h]
      BY DEF HostsOf, NoHost
    <3>4. /\ \A d \in Device : devices[d].account \in Account \cup {None}
          /\ \A h \in HostId : hosts[h].account \in Account \cup {None}
      BY DEF StoreInv, TypeOK, DeviceRecord, HostRecord
    <3> HIDE DEF ds, hs
    <3> QED BY <3>1, <3>2, <3>3, <3>4 DEF OwnersExist, StoreInv
  <2>4. ASSUME NEW d \in Device
        PROVE  Good(ds[d], d \in minted, TellEnded(gone)[d], now, FamiliesMade)
    <3>1. /\ devices[d] \in DeviceRecord /\ told[d] \in ToldOf
          /\ now \in Nat /\ now > 0 /\ (d \in minted) \in BOOLEAN
          /\ Good(devices[d], d \in minted, told[d], now, FamiliesMade)
      BY DEF StoreInv, TypeOK, ClockStarted, ToldOf, FamiliesAreGood
    <3>2. CASE d \in gone
      <4>1. InStore(devices[d])
        BY <3>2 DEF DevicesOf
      <4>2. Good(NoRecord, d \in minted, [told[d] EXCEPT !.ended = TRUE], now, FamiliesMade)
        BY <3>1, <4>1, GoodSteps, MadeFacts
      <4> QED BY <3>2, <4>2 DEF TellEnded
    <3>3. CASE d \notin gone
      BY <3>1, <3>3 DEF TellEnded
    <3> QED BY <3>2, <3>3
  <2>5. FamiliesAreGood'
    BY <2>1, <2>4, MadeFacts DEF FamiliesAreGood, Commit
  <2> QED BY <2>2, <2>3, <2>5
<1>11. CASE AddAccountFromCli(a)
  <2> DEFINE put == [status |-> "active", password |-> editions + 1,
                     born |-> IF disk.accounts[a].status = "absent" THEN editions + 1
                              ELSE disk.accounts[a].born]
  <2>1. Commit([disk.accounts EXCEPT ![a] = put], disk.hosts, disk.devices)
        /\ UNCHANGED <<now, minted, told>>
    BY <1>11 DEF AddAccountFromCli, Boot
  <2>2. disk.accounts = accounts /\ disk.hosts = hosts /\ disk.devices = devices
    BY DEF StoreInv, MemoryIsDisk
  <2>3. \A b \in Account : accounts[b].status # "absent"
          => [accounts EXCEPT ![a] = put][b].status # "absent"
    BY DEF StoreInv, TypeOK
  <2> HIDE DEF put
  <2> QED BY <1>2, <2>1, <2>2, <2>3
<1> QED BY <1>1, <1>3, <1>4, <1>6, <1>7, <1>8, <1>9, <1>10, <1>11

(* The store and its file agree to begin with, and hold nothing. *)
LEMMA StoreInit == Init => StoreInv
BY InitType, NoRecordType DEF Init, StoreInv, MemoryIsDisk, OwnersExist, FamiliesAreGood, Good,
   NoAccount, NoHost

(* Every step keeps the store and its file together. *)
LEMMA StoreStep ==
  ASSUME StoreInv, [Next]_vars
  PROVE  StoreInv'
<1>1. TypeOK' /\ ClockStarted'
  BY TypeStep DEF StoreInv
<1>2. CASE SignIn
  BY <1>1, <1>2, SignInStore DEF StoreInv
<1>3. CASE DeviceRoutes
  BY <1>1, <1>3, RoutesStore DEF StoreInv
<1>4. CASE Admin
  BY <1>1, <1>4, AdminStore DEF StoreInv
<1>5. CASE Tick \/ Sweep \/ UNCHANGED vars
  BY <1>1, <1>5, StoreUntouched DEF Tick, Sweep, vars, stored, StoreInv
<1>6. CASE Restart
  <2>1. Commit(disk.accounts, disk.hosts, disk.devices) /\ UNCHANGED <<now, minted, told>>
    BY <1>6 DEF Restart, Boot
  <2>2. UNCHANGED <<stored, disk, told>>
    BY <2>1 DEF Commit, StoreInv, MemoryIsDisk, stored
  <2> QED BY <1>1, <2>1, <2>2, StoreUntouched DEF StoreInv
<1> QED BY <1>2, <1>3, <1>4, <1>5, <1>6 DEF Next

(* ... and so they always are. *)
LEMMA StoreInvariant == Spec => []StoreInv
BY StoreInit, StoreStep, PTL DEF Spec

(* A restart at any moment changes nothing of what is stored, and nothing     *)
(* belongs to an account that does not exist (commitStore, accounts.remove).  *)
THEOREM StoreIsConsistent == Spec => [](MemoryIsDisk /\ OwnersExist)
<1>1. StoreInv => MemoryIsDisk /\ OwnersExist
  BY DEF StoreInv
<1> QED BY <1>1, StoreInvariant, PTL

(* An account that is made again under the id of one that was deleted owns    *)
(* nothing of it, whatever failed on the way (accounts.remove).               *)
THEOREM NothingWithoutOwner == Spec => []OwnersExist
BY StoreIsConsistent, PTL

(* What a caller was told stays so across a restart at any moment: a         *)
(* credential handed out is not ahead of the file, an ended family is not    *)
(* back in it (commitDevices before every answer).                           *)
THEOREM AnswersAreKept == Spec => []AnswersSurviveRestart
<1>1. StoreInv => AnswersSurviveRestart
  BY DEF StoreInv, MemoryIsDisk, FamiliesAreGood, Good, AnswersSurviveRestart
<1> QED BY <1>1, StoreInvariant, PTL

-----------------------------------------------------------------------------
(* Sessions, and the family a sign-in starts *)

(* Of a session, also one past its time and not yet swept: its account is    *)
(* active, and its family has not ended and is used at least as late as the  *)
(* session began.                                                            *)
Follows(s, accs, ds) ==
  s.account # None =>
    /\ accs[s.account].status = "active"
    /\ s.device # None => LET r == ds[s.device] IN
         /\ InStore(r) /\ r.revokedAt = 0 /\ r.account = s.account
         /\ s.until <= r.lastUsedAt + SessionTtl

SessionsFollow == \A t \in Token : Follows(sessions[t], accounts, devices)

(* SessionsEndWithTheirFamily is not inductive: that a session expires before *)
(* its family does follows from when both were last pushed out, and that a    *)
(* new family meets no session left over from ids never being given out twice. *)
SessionInv == StoreInv /\ SessionsFollow

(* No session stands on nothing. *)
LEMMA NoSessionFollows == \A accs, ds : Follows(NoSession, accs, ds)
BY DEF Follows, NoSession

(* The store's families with a new one added to them. *)
Joined(a, d) == CreateFamily(devices, a, d, 1 + Cardinality(minted \cap Device), now)

(* A family just started is not what pruning makes room with: it was used    *)
(* last, and of those used at the same moment it stands last in the store.   *)
LEMMA NewFamilyIsKept ==
  ASSUME StoreInv, NEW a \in Account, NEW d \in Device, d \notin minted
  PROVE  /\ d \notin PruneTouches(Joined(a, d), a, now)
         /\ IsLive(Joined(a, d)[d], now)
         /\ \A e \in Device \ {d} : Joined(a, d)[e] = devices[e]
         /\ Joined(a, d)[d].account = a /\ Joined(a, d)[d].lastUsedAt = now
<1> DEFINE made == Joined(a, d)
<1>1. /\ now \in Nat /\ FamiliesMade \in Nat
      /\ devices \in [Device -> DeviceRecord]
      /\ DeviceTtl \in Nat /\ DeviceTtl > 0 /\ PerAccount \in Nat /\ PerAccount > 0
  BY MadeFacts, LimitsAssumption DEF StoreInv, TypeOK
<1>2. /\ made[d].cred = 1 /\ made[d].revokedAt = 0 /\ made[d].lastUsedAt = now
      /\ made[d].account = a /\ made[d].place = 1 + FamiliesMade
      /\ \A e \in Device \ {d} : made[e] = devices[e]
  BY <1>1 DEF Joined, CreateFamily, FamiliesMade
<1> HIDE DEF made
<1>3. IsLive(made[d], now)
  BY <1>1, <1>2 DEF IsLive, InStore, ExpiresAt
<1>4. d \notin Forgotten(made, now)
  BY <1>1, <1>2 DEF Forgotten, EndedAt, ExpiresAt
<1>5. ASSUME NEW e \in LiveOf(made, a, now)
      PROVE  ~UsedBefore(made[d], made[e])
  <2>1. CASE e = d
    BY <1>1, <1>2, <2>1 DEF UsedBefore
  <2>2. CASE e # d
    <3>1. e \in Device /\ made[e] = devices[e] /\ InStore(devices[e])
      BY <1>2, <2>2 DEF LiveOf, IsLive
    <3>2. devices[e].lastUsedAt <= now /\ devices[e].place <= FamiliesMade
      BY <3>1 DEF StoreInv, FamiliesAreGood, Good
    <3>3. devices[e].lastUsedAt \in Nat /\ devices[e].place \in Nat
      BY <1>1, <3>1 DEF DeviceRecord
    <3> QED BY <1>1, <1>2, <3>1, <3>2, <3>3 DEF UsedBefore
  <2> QED BY <2>1, <2>2
<1>6. {e \in LiveOf(made, a, now) : UsedBefore(made[d], made[e])} = {}
  BY <1>5
<1>7. d \notin Surplus(made, a, now)
  BY <1>1, <1>6, FS_EmptySet DEF Surplus
<1> QED BY <1>2, <1>3, <1>4, <1>7 DEF PruneTouches, made

(* What a session needs to go on following. *)
LEMMA FollowsKept ==
  ASSUME NEW s, NEW accs, NEW ds, Follows(s, accounts, devices),
         s.account # None =>
           /\ accs[s.account].status = "active"
           /\ s.device # None => ds[s.device] = devices[s.device]
  PROVE  Follows(s, accs, ds)
BY DEF Follows

(* A sign-in ends the sessions of the families it made room with. *)
LEMMA LoginSessions ==
  ASSUME SessionInv, NEW a \in Account, NEW d \in Device, NEW t \in Token, NEW heard \in BOOLEAN,
         Login(a, d, t, heard)
  PROVE  /\ SessionsFollow'
         /\ \A e \in Device : ~InStore(devices[e]) /\ InStore(devices'[e])
                              => IsLive(devices'[e], now')
<1> DEFINE made == Joined(a, d)
           touched == PruneTouches(made, a, now)
           pruned == Prune(made, a, now)
           kept == EndSessionsOf(sessions, touched)
<1>1. /\ accounts' = accounts /\ devices' = pruned /\ now' = now
      /\ sessions' = StartSession(kept, t, a, d)
      /\ d \notin minted /\ accounts[a].status = "active"
  BY DEF Login, Commit, Admitted, Joined
<1>2. /\ now \in Nat /\ now > 0
      /\ sessions \in [Token -> Session] /\ devices \in [Device -> DeviceRecord]
      /\ made \in [Device -> DeviceRecord]
  BY CreateFamilyType, PlaceType DEF SessionInv, StoreInv, TypeOK, ClockStarted, Joined
<1>3. /\ d \notin touched /\ IsLive(made[d], now)
      /\ \A e \in Device \ {d} : made[e] = devices[e]
      /\ made[d].account = a /\ made[d].lastUsedAt = now
  BY <1>1, NewFamilyIsKept DEF SessionInv
<1>4. /\ \A e \in Device : e \notin touched => pruned[e] = made[e]
      /\ \A e \in Device : \/ pruned[e] = made[e]
                           \/ pruned[e] = NoRecord
                           \/ pruned[e] = Revoke(made[e], now)
  BY <1>2, PruneFacts
<1>5. /\ \A u \in Token \ {t} : sessions'[u] = kept[u]
      /\ sessions'[t] = [account |-> a, device |-> d, until |-> now + SessionTtl]
      /\ \A u \in Token : kept[u] = IF sessions[u].device \in touched THEN NoSession ELSE sessions[u]
  BY <1>1, <1>2, SessionTypes DEF StartSession, EndSessionsOf
<1>6. ASSUME NEW e \in Device, ~InStore(devices[e]), InStore(devices'[e])
      PROVE  IsLive(devices'[e], now')
  <2>1. InStore(made[e])
    <3>1. Revoke(made[e], now).cred = made[e].cred
      BY <1>2, RevokeFacts
    <3> QED BY <1>1, <1>4, <1>6, <3>1, NoRecordType DEF InStore
  <2>2. e = d
    BY <1>3, <1>6, <2>1
  <2> QED BY <1>1, <1>3, <1>4, <2>2
<1> HIDE DEF made, touched, pruned, kept
<1>7. ASSUME NEW u \in Token
      PROVE  Follows(sessions'[u], accounts, pruned)
  <2>1. CASE u = t
    <3>1. pruned[d] = made[d]
      BY <1>3, <1>4
    <3> QED BY <1>1, <1>2, <1>3, <1>5, <2>1, <3>1, DirectoryAssumption DEF Follows, IsLive
  <2>2. CASE u # t /\ sessions[u].device \in touched
    BY <1>5, <2>2, NoSessionFollows
  <2>3. CASE u # t /\ sessions[u].device \notin touched
    <3>1. sessions'[u] = sessions[u]
      BY <1>5, <2>3
    <3>2. Follows(sessions[u], accounts, devices)
      BY DEF SessionInv, SessionsFollow
    <3>3. ASSUME sessions[u].account # None, sessions[u].device # None
          PROVE  pruned[sessions[u].device] = devices[sessions[u].device]
      <4>1. sessions[u].device \in Device /\ InStore(devices[sessions[u].device])
        BY <1>2, <3>2, <3>3 DEF Session, Follows
      <4>2. sessions[u].device \in minted
        BY <4>1 DEF SessionInv, StoreInv, FamiliesAreGood, Good
      <4> QED BY <1>1, <1>3, <1>4, <2>3, <4>1, <4>2
    <3> QED BY <3>1, <3>2, <3>3, FollowsKept DEF Follows
  <2> QED BY <2>1, <2>2, <2>3
<1> QED BY <1>1, <1>6, <1>7 DEF SessionsFollow

NothingNew == \A e \in Device : InStore(devices'[e]) => InStore(devices[e])

(* Where every session stays or goes, those that stay need their account and *)
(* their family left alone.                                                  *)
LEMMA SessionsKept ==
  ASSUME SessionInv, UNCHANGED devices,
         \A t \in Token : \/ sessions'[t] = NoSession
                          \/ /\ sessions'[t] = sessions[t]
                             /\ sessions[t].account # None =>
                                  accounts'[sessions[t].account].status = "active"
  PROVE  SessionsFollow' /\ NothingNew
<1>1. ASSUME NEW t \in Token PROVE Follows(sessions'[t], accounts', devices)
  <2>1. Follows(sessions[t], accounts, devices)
    BY DEF SessionInv, SessionsFollow
  <2> QED BY <2>1, NoSessionFollows, FollowsKept
<1> QED BY <1>1 DEF SessionsFollow, NothingNew

(* Families end together with their sessions. *)
EndTogether(which) ==
  /\ accounts' = accounts
  /\ devices' = RevokeAll(devices, which, now)
  /\ \A t \in Token : \/ sessions'[t] = NoSession
                      \/ sessions'[t] = sessions[t] /\ sessions[t].device \notin which

(* ... and then the sessions left follow theirs. *)
LEMMA SessionsEnd ==
  ASSUME SessionInv, NEW which, EndTogether(which)
  PROVE  SessionsFollow' /\ NothingNew
<1> USE DEF EndTogether
<1>1. ASSUME NEW t \in Token PROVE Follows(sessions'[t], accounts, devices')
  <2>1. Follows(sessions[t], accounts, devices)
    BY DEF SessionInv, SessionsFollow
  <2>2. sessions[t].device # None /\ sessions[t].device \notin which
          => devices'[sessions[t].device] = devices[sessions[t].device]
    BY DEF RevokeAll, SessionInv, StoreInv, TypeOK, Session
  <2> QED BY <2>1, <2>2, NoSessionFollows, FollowsKept DEF Follows
<1>2. NothingNew
  BY RevokeAllOwners DEF NothingNew, SessionInv
<1> QED BY <1>1, <1>2 DEF SessionsFollow

(* sessionFor only forgets. *)
LEMMA SessionFacts ==
  ASSUME sessions \in [Token -> Session], NEW t
  PROVE  \A u \in Token : AfterDoor(t)[u] = NoSession \/ AfterDoor(t)[u] = sessions[u]
BY DEF AfterDoor

(* The other ways of signing in. *)
LEMMA SignInSessions ==
  ASSUME SessionInv, SignIn
  PROVE  /\ SessionsFollow'
         /\ \A e \in Device : ~InStore(devices[e]) /\ InStore(devices'[e])
                              => IsLive(devices'[e], now')
<1>1. sessions \in [Token -> Session] /\ now \in Nat
  BY DEF SessionInv, StoreInv, TypeOK
<1>2. \A t \in Token : sessions[t].account # None =>
        accounts[sessions[t].account].status = "active"
  BY DEF SessionInv, SessionsFollow, Follows
<1>3. ASSUME NEW a \in Account, NEW purpose \in {"login", "plain", "register"},
             BeginCheck(a, purpose)
      PROVE  SessionsFollow' /\ NothingNew
  BY <1>2, <1>3, SessionsKept DEF BeginCheck, stored
<1>4. ASSUME NEW a \in Account, CheckRefused(a)
      PROVE  SessionsFollow' /\ NothingNew
  BY <1>2, <1>4, SessionsKept DEF CheckRefused, stored
<1>5. ASSUME NEW a \in Account, NEW t \in Token, PlainLogin(a, t)
      PROVE  SessionsFollow' /\ NothingNew
  <2>1. /\ sessions' = StartSession(sessions, t, a, None) /\ UNCHANGED stored
        /\ accounts[a].status = "active"
    BY <1>5 DEF PlainLogin, Admitted
  <2>2. ASSUME NEW u \in Token PROVE Follows(sessions'[u], accounts, devices)
    <3>1. CASE u = t
      <4>1. sessions'[u] = [account |-> a, device |-> None, until |-> now + SessionTtl]
        BY <1>1, <2>1, <3>1 DEF StartSession
      <4> QED BY <2>1, <4>1 DEF Follows
    <3>2. CASE u # t
      <4>1. sessions'[u] = sessions[u]
        BY <1>1, <2>1, <3>2 DEF StartSession
      <4> QED BY <4>1 DEF SessionInv, SessionsFollow
    <3> QED BY <3>1, <3>2
  <2> QED BY <2>1, <2>2 DEF SessionsFollow, NothingNew, stored
<1>6. ASSUME NEW a \in Account, NEW m \in Machine, NEW h \in HostId, NEW k \in HostToken,
             RegisterHost(a, m, h, k)
      PROVE  SessionsFollow' /\ NothingNew
  BY <1>2, <1>6, SessionsKept DEF RegisterHost, Commit
<1> QED BY <1>3, <1>4, <1>5, <1>6, LoginSessions DEF SignIn, NothingNew

(* The routes of a client: a rotation pushes the expiry of the family out    *)
(* with that of the session, an end takes the sessions along.                *)
LEMMA RoutesSessions ==
  ASSUME SessionInv, DeviceRoutes
  PROVE  SessionsFollow' /\ NothingNew
<1>1. /\ sessions \in [Token -> Session] /\ now \in Nat /\ SessionTtl \in Nat
      /\ devices \in [Device -> DeviceRecord]
  BY DirectoryAssumption DEF SessionInv, StoreInv, TypeOK
<1>2. ASSUME NEW d \in Device, NEW t \in Token, NEW heard \in BOOLEAN,
             NEW n \in Presentable(d), Refresh(d, n, t, heard)
      PROVE  SessionsFollow' /\ NothingNew
  <2> DEFINE next == Rotate(devices[d], Classify(devices[d], n, now), now)
  <2>1. /\ accounts' = accounts /\ devices' = [devices EXCEPT ![d] = next]
        /\ sessions' = StartSession(sessions, t, devices[d].account, d)
        /\ accounts[devices[d].account].status = "active"
    BY <1>2 DEF Refresh, Commit, IsActive
  <2>2. InStore(devices[d]) /\ devices[d].revokedAt = 0
    BY <1>2, AcceptedIsLive DEF Refresh
  <2>3. /\ next.cred = devices[d].cred + 1 /\ next.account = devices[d].account
        /\ next.lastUsedAt = now /\ next.revokedAt = 0
    BY <1>1, <2>2, RotateFacts
  <2>4. devices[d].lastUsedAt \in Nat /\ devices[d].lastUsedAt <= now /\ devices[d].cred \in Nat
    BY <1>1, <2>2 DEF DeviceRecord, SessionInv, StoreInv, FamiliesAreGood, Good
  <2> HIDE DEF next
  <2>5. /\ devices'[d] = next /\ InStore(next)
        /\ \A e \in Device \ {d} : devices'[e] = devices[e]
    BY <1>1, <2>1, <2>3, <2>4 DEF InStore
  <2>6. ASSUME NEW u \in Token PROVE Follows(sessions'[u], accounts, devices')
    <3>1. CASE u = t
      <4>1. sessions'[u] = [account |-> devices[d].account, device |-> d,
                            until |-> now + SessionTtl]
        BY <1>1, <2>1, <3>1 DEF StartSession
      <4> QED BY <1>1, <2>1, <2>3, <2>5, <4>1 DEF Follows
    <3>2. CASE u # t
      <4>1. sessions'[u] = sessions[u] /\ Follows(sessions[u], accounts, devices)
        BY <1>1, <2>1, <3>2 DEF StartSession, SessionInv, SessionsFollow
      <4>2. CASE sessions[u].device = d
        <5>1. sessions[u].until \in Nat
          BY <1>1 DEF Session
        <5> QED BY <1>1, <2>3, <2>4, <2>5, <4>1, <4>2, <5>1 DEF Follows
      <4>3. CASE sessions[u].device # d
        BY <1>1, <2>5, <4>1, <4>3, FollowsKept DEF Session, Follows
      <4> QED BY <4>2, <4>3
    <3> QED BY <3>1, <3>2
  <2>7. NothingNew
    BY <2>2, <2>5 DEF NothingNew
  <2> QED BY <2>1, <2>6, <2>7 DEF SessionsFollow
<1>3. ASSUME NEW d \in Device, NEW n \in Presentable(d), RefreshReused(d, n)
      PROVE  SessionsFollow' /\ NothingNew
  <2>1. EndTogether({d})
    BY <1>3 DEF RefreshReused, Commit, EndSessionsOf, EndTogether
  <2> QED BY <2>1, SessionsEnd
<1>4. ASSUME NEW t \in Token \cup {None}, NEW d \in Device \cup {None}, NEW w \in BOOLEAN,
             Logout(t, d, w)
      PROVE  SessionsFollow' /\ NothingNew
  <2> DEFINE dev == IF d # None THEN d
                    ELSE IF t # None /\ Valid(t) THEN sessions[t].device ELSE None
             which == {dev}
             open == AfterDoor(t)
             closed == EndSessionsOf(open, which)
  <2>1. \/ /\ Commit(accounts, hosts, RevokeAll(devices, which, now))
           /\ sessions' = closed \/ sessions' = [closed EXCEPT ![t] = NoSession]
        \/ /\ UNCHANGED stored
           /\ sessions' = open \/ sessions' = [open EXCEPT ![t] = NoSession]
    BY <1>4 DEF Logout
  <2>2. /\ \A u \in Token : open[u] = NoSession \/ open[u] = sessions[u]
        /\ open \in [Token -> Session] /\ closed \in [Token -> Session]
    BY <1>1, SessionFacts, SessionTypes
  <2>3. \A u \in Token : closed[u] = IF open[u].device \in which THEN NoSession ELSE open[u]
    BY DEF EndSessionsOf
  <2> HIDE DEF which, open, closed
  <2>4. CASE /\ Commit(accounts, hosts, RevokeAll(devices, which, now))
             /\ sessions' = closed \/ sessions' = [closed EXCEPT ![t] = NoSession]
    <3>1. \A u \in Token : sessions'[u] = NoSession \/ sessions'[u] = closed[u]
      BY <2>2, <2>4
    <3>2. \A u \in Token : \/ sessions'[u] = NoSession
                           \/ sessions'[u] = sessions[u] /\ sessions[u].device \notin which
      BY <2>2, <2>3, <3>1
    <3>3. EndTogether(which)
      BY <2>4, <3>2 DEF Commit, EndTogether
    <3> QED BY <3>3, SessionsEnd
  <2>5. CASE /\ UNCHANGED stored
             /\ sessions' = open \/ sessions' = [open EXCEPT ![t] = NoSession]
    <3>1. \A u \in Token : sessions'[u] = NoSession \/ sessions'[u] = sessions[u]
      BY <2>2, <2>5
    <3> QED BY <2>5, <3>1, SessionsKept DEF stored, SessionInv, SessionsFollow, Follows
  <2> QED BY <2>1, <2>4, <2>5
<1>5. ASSUME NEW t \in Token, NEW d \in Device, RevokeDevice(t, d)
      PROVE  SessionsFollow' /\ NothingNew
  <2>1. EndTogether({d})
    BY <1>5 DEF RevokeDevice, Commit, EndSessionsOf, EndTogether
  <2> QED BY <2>1, SessionsEnd
<1> QED BY <1>2, <1>3, <1>4, <1>5 DEF DeviceRoutes

(* What an operator does, and the sessions it ends. *)
LEMMA AdminSessions ==
  ASSUME SessionInv, Admin
  PROVE  SessionsFollow' /\ NothingNew
<1>1. PICK a \in Account :
        \/ Signup(a) \/ SignupUnwritten(a) \/ AdminCreate(a)
        \/ AdminApprove(a) \/ AdminDisable(a) \/ AdminEnable(a)
        \/ BeginAdminPassword(a) \/ AdminPassword(a) \/ AdminPasswordRefused(a)
        \/ AdminDelete(a)
        \/ AddAccountFromCli(a)
  BY DEF Admin
<1>2. /\ sessions \in [Token -> Session] /\ devices \in [Device -> DeviceRecord]
      /\ accounts \in [Account -> AccountRecord]
      /\ \A t \in Token : sessions[t].account # None =>
           accounts[sessions[t].account].status = "active"
  BY DEF SessionInv, StoreInv, TypeOK, SessionsFollow, Follows
<1>3. ASSUME NEW accs, UNCHANGED devices, accounts' = accs, sessions' = sessions,
             \A b \in Account : accounts[b].status = "active" => accs[b].status = "active"
      PROVE  SessionsFollow' /\ NothingNew
  <2>1. \A t \in Token : sessions[t].account # None => sessions[t].account \in Account
    BY <1>2 DEF Session
  <2> QED BY <1>2, <1>3, <2>1, SessionsKept
<1>4. CASE Signup(a) \/ AdminCreate(a)
  <2>1. /\ accounts[a].status = "absent" /\ devices' = devices /\ sessions' = sessions
        /\ accounts' = [accounts EXCEPT ![a] = NewAccount]
    BY <1>4 DEF Signup, AdminCreate, Commit
  <2>2. \A b \in Account : accounts[b].status = "active" => accounts'[b].status = "active"
    BY <1>2, <2>1
  <2> QED BY <1>3, <2>1, <2>2
<1>5. CASE SignupUnwritten(a)
  <2>1. DevicesOf(devices, a) = {}
    BY <1>5 DEF SignupUnwritten, DevicesOf, SessionInv, StoreInv, OwnersExist
  <2>2. devices' = devices
    BY <1>2, <1>5, <2>1 DEF SignupUnwritten
  <2> QED BY <1>3, <1>5, <2>2 DEF SignupUnwritten
<1>6. CASE AdminApprove(a) \/ AdminEnable(a)
  <2>1. /\ accounts' = [accounts EXCEPT ![a].status = "active"]
        /\ devices' = devices /\ sessions' = sessions
    BY <1>6 DEF AdminApprove, AdminEnable, SetStatus, Commit
  <2>2. \A b \in Account : accounts[b].status = "active" => accounts'[b].status = "active"
    BY <1>2, <2>1 DEF AccountRecord
  <2> QED BY <1>3, <2>1, <2>2
<1>7. CASE AdminDisable(a)
  <2>1. /\ \A b \in Account \ {a} : accounts'[b] = accounts[b]
        /\ devices' = devices /\ sessions' = EndSessionsOfAccount(sessions, a)
    BY <1>2, <1>7 DEF AdminDisable, SetStatus, Commit, stored
  <2>2. \A t \in Token : \/ sessions'[t] = NoSession
                         \/ sessions'[t] = sessions[t] /\ sessions[t].account # a
    BY <2>1 DEF EndSessionsOfAccount
  <2>3. \A t \in Token : sessions[t].account \in Account \cup {None}
    BY <1>2 DEF Session
  <2> QED BY <1>2, <2>1, <2>2, <2>3, SessionsKept
<1>8. CASE BeginAdminPassword(a) \/ AdminPasswordRefused(a)
  BY <1>3, <1>8 DEF BeginAdminPassword, AdminPasswordRefused, stored
<1>9. ASSUME devices' \in [Device -> DeviceRecord],
             \A b \in Account \ {a} : accounts'[b] = accounts[b],
             \A d \in Device : devices[d].account # a => devices'[d] = devices[d],
             \A t \in Token : \/ sessions'[t] = NoSession
                              \/ sessions'[t] = sessions[t] /\ sessions[t].account # a
      PROVE  SessionsFollow'
  <2>1. ASSUME NEW t \in Token PROVE Follows(sessions'[t], accounts', devices')
    <3>1. CASE sessions'[t] = NoSession
      BY <3>1, NoSessionFollows
    <3>2. CASE sessions'[t] = sessions[t] /\ sessions[t].account # a
      <4>1. Follows(sessions[t], accounts, devices)
        BY DEF SessionInv, SessionsFollow
      <4>2. /\ sessions[t].account \in Account \cup {None}
            /\ sessions[t].device \in Device \cup {None}
        BY <1>2 DEF Session
      <4> QED BY <1>9, <3>2, <4>1, <4>2 DEF Follows
    <3> QED BY <1>9, <3>1, <3>2
  <2> QED BY <2>1 DEF SessionsFollow
<1>10. CASE AdminPassword(a)
  <2> DEFINE theirs == DevicesOf(devices, a)
             ended == {d \in theirs : devices[d].revokedAt = 0}
             left == EndSessionsOf(sessions, ended)
  <2>1. /\ accounts' = [accounts EXCEPT ![a].password = editions + 1]
        /\ devices' = RevokeAll(devices, theirs, now)
        /\ sessions' = EndSessionsOfAccount(left, a)
    BY <1>10 DEF AdminPassword, Commit
  <2>2. \A t \in Token : left[t] = NoSession \/ left[t] = sessions[t]
    BY DEF EndSessionsOf
  <2>3. \A d \in Device : devices[d].account # a => d \notin theirs
    BY DEF DevicesOf
  <2> HIDE DEF left, theirs
  <2>4. \A t \in Token : \/ sessions'[t] = NoSession
                         \/ sessions'[t] = sessions[t] /\ sessions[t].account # a
    BY <2>1, <2>2 DEF EndSessionsOfAccount
  <2>5. \A d \in Device : devices[d].account # a => devices'[d] = devices[d]
    BY <2>1, <2>3 DEF RevokeAll
  <2>6. \A b \in Account \ {a} : accounts'[b] = accounts[b]
    BY <1>2, <2>1
  <2>7. devices' \in [Device -> DeviceRecord] /\ NothingNew
    BY <1>2, <2>1, RevokeAllType, RevokeAllOwners
       DEF NothingNew, SessionInv, StoreInv, TypeOK, ClockStarted
  <2> QED BY <1>9, <2>4, <2>5, <2>6, <2>7
<1>11. CASE AdminDelete(a)
  <2> DEFINE gone == DevicesOf(devices, a)
  <2>1. /\ accounts' = [accounts EXCEPT ![a] = NoAccount]
        /\ devices' = [d \in Device |-> IF d \in gone THEN NoRecord ELSE devices[d]]
        /\ sessions' = EndSessionsOfAccount(sessions, a)
    BY <1>11 DEF AdminDelete, Commit
  <2>2. \A t \in Token : \/ sessions'[t] = NoSession
                         \/ sessions'[t] = sessions[t] /\ sessions[t].account # a
    BY <2>1 DEF EndSessionsOfAccount
  <2>3. \A d \in Device : devices[d].account # a => devices'[d] = devices[d]
    BY <2>1 DEF DevicesOf
  <2>4. \A b \in Account \ {a} : accounts'[b] = accounts[b]
    BY <1>2, <2>1
  <2>5. devices' \in [Device -> DeviceRecord] /\ NothingNew
    BY <1>2, <2>1, NoRecordType DEF NothingNew
  <2> QED BY <1>9, <2>2, <2>3, <2>4, <2>5
<1>12. CASE AddAccountFromCli(a)
  <2>1. /\ devices' = devices /\ \A t \in Token : sessions'[t] = NoSession
    BY <1>12 DEF AddAccountFromCli, Boot, Commit, SessionInv, StoreInv, MemoryIsDisk
  <2> QED BY <2>1, SessionsKept
<1> QED BY <1>1, <1>4, <1>5, <1>6, <1>7, <1>8, <1>10, <1>11, <1>12

(* There are no sessions to begin with. *)
LEMMA SessionInit == Init => SessionInv
BY StoreInit, NoSessionFollows DEF Init, SessionInv, SessionsFollow

(* One step: sessions go on following, and a family that appears is live. *)
LEMMA SessionStep ==
  ASSUME SessionInv, [Next]_vars
  PROVE  /\ SessionInv'
         /\ \A d \in Device : ~InStore(devices[d]) /\ InStore(devices'[d])
                              => IsLive(devices'[d], now')
<1>1. StoreInv'
  BY StoreStep DEF SessionInv
<1>2. \A t \in Token : sessions[t].account # None =>
        accounts[sessions[t].account].status = "active"
  BY DEF SessionInv, SessionsFollow, Follows
<1>3. CASE SignIn
  <2>1. now' = now
    BY ZenonT(30), <1>3 DEF SignIn, BeginCheck, CheckRefused, Login, PlainLogin, RegisterHost
  <2> QED BY <1>1, <1>3, <2>1, SignInSessions DEF SessionInv
<1>4. CASE DeviceRoutes
  BY <1>1, <1>4, RoutesSessions DEF SessionInv, NothingNew
<1>5. CASE Admin
  BY <1>1, <1>5, AdminSessions DEF SessionInv, NothingNew
<1>6. CASE Tick \/ UNCHANGED vars
  <2>1. UNCHANGED <<accounts, devices, sessions>>
    BY <1>6 DEF Tick, vars, stored
  <2> QED BY <1>1, <1>2, <2>1, SessionsKept DEF SessionInv, NothingNew
<1>7. CASE Sweep
  <2>1. /\ UNCHANGED <<accounts, devices>>
        /\ \A t \in Token : sessions'[t] = NoSession \/ sessions'[t] = sessions[t]
    BY <1>7 DEF Sweep, stored
  <2> QED BY <1>1, <1>2, <2>1, SessionsKept DEF SessionInv, NothingNew
<1>8. CASE Restart
  <2>1. /\ devices' = devices /\ \A t \in Token : sessions'[t] = NoSession
    BY <1>8 DEF Restart, Boot, Commit, SessionInv, StoreInv, MemoryIsDisk
  <2> QED BY <1>1, <2>1, SessionsKept DEF SessionInv, NothingNew
<1> QED BY <1>3, <1>4, <1>5, <1>6, <1>7, <1>8 DEF Next

(* ... and so they always do. *)
LEMMA SessionInvariant == Spec => []SessionInv
BY SessionInit, SessionStep, PTL DEF Spec

(* Every session that has not expired belongs to an active account and, if it *)
(* was issued through a device, to a live family of that account: ending a    *)
(* family, an account or a password ends its sessions in the same step        *)
(* (endSessionsOf, endSessionsOfAccount), and a session never outlives the    *)
(* family's own time.                                                         *)
THEOREM SessionsEndInTime == Spec => []SessionsEndWithTheirFamily
<1>1. ASSUME SessionInv PROVE SessionsEndWithTheirFamily
  <2> SUFFICES ASSUME NEW t \in Token, sessions[t].account # None, sessions[t].until > now
               PROVE  /\ accounts[sessions[t].account].status = "active"
                      /\ sessions[t].device # None =>
                           /\ IsLive(devices[sessions[t].device], now)
                           /\ devices[sessions[t].device].account = sessions[t].account
    BY DEF SessionsEndWithTheirFamily
  <2>1. Follows(sessions[t], accounts, devices)
    BY <1>1 DEF SessionInv, SessionsFollow
  <2>2. accounts[sessions[t].account].status = "active"
    BY <2>1 DEF Follows
  <2>3. ASSUME sessions[t].device # None
        PROVE  /\ IsLive(devices[sessions[t].device], now)
               /\ devices[sessions[t].device].account = sessions[t].account
    <3> DEFINE r == devices[sessions[t].device]
    <3>1. /\ InStore(r) /\ r.revokedAt = 0 /\ r.account = sessions[t].account
          /\ sessions[t].until <= r.lastUsedAt + SessionTtl
      BY <2>1, <2>3 DEF Follows
    <3>2. /\ now \in Nat /\ sessions[t].until \in Nat /\ r.lastUsedAt \in Nat
          /\ SessionTtl \in Nat /\ DeviceTtl \in Nat
      BY <1>1, <2>3, DirectoryAssumption, LimitsAssumption
         DEF SessionInv, StoreInv, TypeOK, Session, DeviceRecord
    <3> HIDE DEF r
    <3>3. r.lastUsedAt + DeviceTtl > now
      BY <3>1, <3>2, SessionTtlAssumption
    <3> QED BY <3>1, <3>3 DEF IsLive, ExpiresAt, r
  <2> QED BY <2>2, <2>3
<1> QED BY <1>1, SessionInvariant, PTL

(* Making room for a family never ends the one it was made for, however many *)
(* were used at the same moment (createFamily and prune in handleLogin).      *)
THEOREM NewFamiliesLive == Spec => NewFamilyIsLive
<1>1. SessionInv /\ [Next]_vars =>
        [\A d \in Device : ~InStore(devices[d]) /\ InStore(devices'[d])
                             => IsLive(devices'[d], now')]_vars
  BY SessionStep
<1> QED BY <1>1, SessionInvariant, PTL DEF Spec, NewFamilyIsLive

-----------------------------------------------------------------------------
(* The index of host tokens *)

TokensAreGivenOut ==
  \A h \in HostId : hosts[h].token # None =>
    hosts[h].token \in minted /\ hosts[h].account # None

(* IndexIsTheStore is not inductive: a new token must not be one that another *)
(* host has, and is not because it was never given out.                       *)
HostInv == SessionInv /\ IndexIsTheStore /\ TokensAreGivenOut

(* Where tokens are only taken away, and taken away in both places. *)
LEMMA TokensTaken ==
  ASSUME HostInv, minted \subseteq minted', NEW gone \in SUBSET HostId,
         \A h \in HostId : IF h \in gone THEN hosts'[h].token = None
                           ELSE hosts'[h] = hosts[h],
         hostTokens' = [k \in HostToken |-> IF \E h \in gone : hosts[h].token = k
                                              THEN None ELSE hostTokens[k]]
  PROVE  IndexIsTheStore' /\ TokensAreGivenOut'
<1>1. ASSUME NEW k \in HostToken, NEW h \in HostId
      PROVE  hostTokens'[k] = h <=> hosts'[h].token = k
  <2>1. hostTokens[k] = h <=> hosts[h].token = k
    BY DEF HostInv, IndexIsTheStore
  <2>2. \A g \in gone : hosts[g].token = k => hostTokens[k] = g
    BY DEF HostInv, IndexIsTheStore
  <2> QED BY <2>1, <2>2, DirectoryAssumption
<1>2. TokensAreGivenOut'
  BY DEF HostInv, TokensAreGivenOut
<1> QED BY <1>1, <1>2 DEF IndexIsTheStore

(* Where neither the hosts nor the index changes. *)
LEMMA TokensKept ==
  ASSUME HostInv, UNCHANGED <<hosts, hostTokens>>, minted \subseteq minted'
  PROVE  IndexIsTheStore' /\ TokensAreGivenOut'
BY DEF HostInv, IndexIsTheStore, TokensAreGivenOut

(* A server that starts finds the token of every host again. *)
LEMMA TokensBooted ==
  ASSUME HostInv, NEW accs, Boot(accs)
  PROVE  IndexIsTheStore' /\ TokensAreGivenOut'
<1>1. hosts' = hosts /\ hostTokens' = Index(hosts) /\ minted' = minted
  BY DEF Boot, Commit, HostInv, SessionInv, StoreInv, MemoryIsDisk
<1>2. ASSUME NEW k \in HostToken, NEW h \in HostId
      PROVE  Index(hosts)[k] = h <=> hosts[h].token = k
  <2>1. \A g \in HostId : hostTokens[k] = g <=> hosts[g].token = k
    BY DEF HostInv, IndexIsTheStore
  <2> QED BY <2>1, DirectoryAssumption DEF Index
<1> QED BY <1>1, <1>2 DEF HostInv, IndexIsTheStore, TokensAreGivenOut

(* A registration replaces the token of its host and of no other. *)
LEMMA RegisterTokens ==
  ASSUME HostInv, NEW a \in Account, NEW m \in Machine, NEW h \in HostId, NEW k \in HostToken,
         RegisterHost(a, m, h, k)
  PROVE  IndexIsTheStore' /\ TokensAreGivenOut'
<1> DEFINE old == hosts[h].token
           kept == [j \in HostToken |-> IF j = old THEN None ELSE hostTokens[j]]
<1>1. /\ hosts' = [hosts EXCEPT ![h] = [account |-> a, machine |-> m, token |-> k]]
      /\ hostTokens' = [kept EXCEPT ![k] = h]
      /\ k \notin minted /\ minted' = minted \cup {h, k}
  BY DEF RegisterHost, Commit
<1>2. hosts \in [HostId -> HostRecord]
  BY DEF HostInv, SessionInv, StoreInv, TypeOK
<1>3. /\ hosts'[h].token = k /\ hosts'[h].account = a
      /\ \A g \in HostId \ {h} : hosts'[g] = hosts[g]
  BY <1>1, <1>2
<1>4. \A g \in HostId : hosts[g].token # k
  BY <1>1, DirectoryAssumption DEF HostInv, TokensAreGivenOut
<1>5. ASSUME NEW j \in HostToken, NEW g \in HostId
      PROVE  hostTokens'[j] = g <=> hosts'[g].token = j
  <2>1. CASE j = k
    BY <1>1, <1>3, <1>4, <2>1
  <2>2. CASE j # k
    <3>1. hostTokens'[j] = IF j = old THEN None ELSE hostTokens[j]
      BY <1>1, <2>2
    <3>2. \A f \in HostId : hostTokens[j] = f <=> hosts[f].token = j
      BY DEF HostInv, IndexIsTheStore
    <3> QED BY <1>3, <2>2, <3>1, <3>2, DirectoryAssumption
  <2> QED BY <2>1, <2>2
<1>6. TokensAreGivenOut'
  BY <1>1, <1>3, NoneAssumption DEF HostInv, TokensAreGivenOut
<1> QED BY <1>5, <1>6 DEF IndexIsTheStore

(* Nobody has a token to begin with. *)
LEMMA HostInit == Init => HostInv
BY SessionInit, DirectoryAssumption
   DEF Init, HostInv, IndexIsTheStore, TokensAreGivenOut, NoHost

(* One step keeps the index and the store together. *)
LEMMA HostStep ==
  ASSUME HostInv, [Next]_vars
  PROVE  HostInv'
<1>1. SessionInv'
  BY SessionStep DEF HostInv
<1>2. CASE SignIn
  <2>1. ASSUME NEW a \in Account,
               \/ \E purpose \in {"login", "plain", "register"} : BeginCheck(a, purpose)
               \/ CheckRefused(a)
               \/ \E d \in Device, t \in Token, heard \in BOOLEAN : Login(a, d, t, heard)
               \/ \E t \in Token : PlainLogin(a, t)
        PROVE  UNCHANGED <<hosts, hostTokens>> /\ minted \subseteq minted'
    BY <2>1 DEF BeginCheck, CheckRefused, Login, PlainLogin, Commit, stored, Fresh
  <2> QED BY <1>1, <1>2, <2>1, TokensKept, RegisterTokens DEF SignIn, HostInv
<1>3. CASE DeviceRoutes
  <2>1. UNCHANGED <<hosts, hostTokens>> /\ minted \subseteq minted'
    <3>1. ASSUME NEW d \in Device, NEW t \in Token, NEW heard \in BOOLEAN,
                 NEW n \in Presentable(d), Refresh(d, n, t, heard)
          PROVE  UNCHANGED <<hosts, hostTokens>> /\ minted \subseteq minted'
      BY <3>1 DEF Refresh, Commit, Fresh
    <3>2. ASSUME NEW d \in Device, NEW n \in Presentable(d), RefreshReused(d, n)
          PROVE  UNCHANGED <<hosts, hostTokens, minted>>
      BY <3>2 DEF RefreshReused, Commit
    <3>3. ASSUME NEW t \in Token \cup {None}, NEW d \in Device \cup {None}, NEW w \in BOOLEAN,
                 Logout(t, d, w)
          PROVE  UNCHANGED <<hosts, hostTokens, minted>>
      BY <3>3 DEF Logout, Commit, stored
    <3>4. ASSUME NEW t \in Token, NEW d \in Device, RevokeDevice(t, d)
          PROVE  UNCHANGED <<hosts, hostTokens, minted>>
      BY <3>4 DEF RevokeDevice, Commit
    <3> QED BY <1>3, <3>1, <3>2, <3>3, <3>4 DEF DeviceRoutes
  <2> QED BY <1>1, <2>1, TokensKept DEF HostInv
<1>4. ASSUME NEW a \in Account, AdminPassword(a) \/ AdminDelete(a)
      PROVE  HostInv'
  <2> DEFINE theirs == HostsOf(hosts, a)
  <2>1. /\ theirs \in SUBSET HostId /\ minted \subseteq minted'
        /\ \A h \in HostId : IF h \in theirs THEN hosts'[h].token = None
                             ELSE hosts'[h] = hosts[h]
        /\ hostTokens' = [k \in HostToken |-> IF \E h \in theirs : hosts[h].token = k
                                                THEN None ELSE hostTokens[k]]
    <3>1. hosts \in [HostId -> HostRecord]
      BY DEF HostInv, SessionInv, StoreInv, TypeOK
    <3>2. theirs \in SUBSET HostId
      BY DEF HostsOf
    <3> HIDE DEF theirs
    <3>3. CASE AdminPassword(a)
      <4>1. hosts' = [h \in HostId |-> IF h \in theirs THEN [hosts[h] EXCEPT !.token = None]
                                      ELSE hosts[h]]
        BY <3>3 DEF AdminPassword, Commit, theirs
      <4> QED BY <3>1, <3>2, <3>3, <4>1 DEF AdminPassword, theirs, HostRecord
    <3>4. CASE AdminDelete(a)
      <4>1. hosts' = [h \in HostId |-> IF h \in theirs THEN NoHost ELSE hosts[h]]
        BY <3>4 DEF AdminDelete, Commit, theirs
      <4> QED BY <3>2, <3>4, <4>1 DEF AdminDelete, theirs, NoHost
    <3> QED BY <1>4, <3>3, <3>4
  <2> HIDE DEF theirs
  <2> QED BY <1>1, <2>1, TokensTaken DEF HostInv
<1>5. ASSUME NEW a \in Account, SignupUnwritten(a)
      PROVE  HostInv'
  <2>1. HostsOf(hosts, a) = {}
    BY <1>5, NoneAssumption DEF SignupUnwritten, HostsOf, HostInv, SessionInv, StoreInv, OwnersExist
  <2>2. UNCHANGED <<hosts, hostTokens, minted>>
    BY <1>5, <2>1 DEF SignupUnwritten, HostInv, SessionInv, StoreInv, TypeOK
  <2> QED BY <1>1, <2>2, TokensKept DEF HostInv
<1>6. ASSUME NEW a \in Account, AddAccountFromCli(a)
      PROVE  HostInv'
  BY <1>1, <1>6, TokensBooted DEF AddAccountFromCli, HostInv
<1>7. ASSUME NEW a \in Account,
             \/ Signup(a) \/ AdminCreate(a) \/ AdminApprove(a) \/ AdminDisable(a)
             \/ AdminEnable(a) \/ BeginAdminPassword(a) \/ AdminPasswordRefused(a)
      PROVE  HostInv'
  <2>1. UNCHANGED <<hosts, hostTokens, minted>>
    BY <1>7 DEF Signup, AdminCreate, AdminApprove, AdminDisable, AdminEnable, SetStatus,
                BeginAdminPassword, AdminPasswordRefused, Commit, stored
  <2> QED BY <1>1, <2>1, TokensKept DEF HostInv
<1>8. CASE Tick \/ Sweep \/ UNCHANGED vars
  <2>1. UNCHANGED <<hosts, hostTokens, minted>>
    BY <1>8 DEF Tick, Sweep, vars, stored
  <2> QED BY <1>1, <2>1, TokensKept DEF HostInv
<1>9. CASE Restart
  BY <1>1, <1>9, TokensBooted DEF Restart, HostInv
<1> QED BY <1>2, <1>3, <1>4, <1>5, <1>6, <1>7, <1>8, <1>9 DEF Next, Admin

(* ... and so always. *)
LEMMA HostInvariant == Spec => []HostInv
BY HostInit, HostStep, PTL DEF Spec

(* A token finds the host that was last given it and no other token finds    *)
(* that host, across registrations, deletions, password changes and restarts *)
(* (indexHostTokens, handleHostRegister, adminPassword, adminDelete).         *)
THEOREM TheIndexIsTheStore == Spec => []IndexIsTheStore
<1>1. HostInv => IndexIsTheStore
  BY DEF HostInv
<1> QED BY <1>1, HostInvariant, PTL

-----------------------------------------------------------------------------
(* The password behind what works *)

SessionsStand ==
  \A t \in Token : sessions[t].account # None =>
    proof[t] = accounts[sessions[t].account].password

FamiliesStand ==
  \A d \in Device : InStore(devices[d]) /\ devices[d].revokedAt = 0 =>
    proof[d] = accounts[devices[d].account].password

TokensStand ==
  \A h \in HostId : hosts[h].token # None =>
    proof[hosts[h].token] = accounts[hosts[h].account].password

(* What a check under way has seen is still what stands behind it when it is *)
(* found to be the same account: that, and what HostInv says of ids and      *)
(* owners, carries StandsOnThePresentPassword from step to step.             *)
PasswordInv == HostInv /\ SessionsStand /\ FamiliesStand /\ TokensStand

(* Where nothing is added, what is left must be of accounts whose password   *)
(* is left alone.                                                            *)
LEMMA StandsKept ==
  ASSUME PasswordInv, HostInv', proof' = proof,
         \A t \in Token : sessions'[t].account # None =>
           /\ sessions'[t] = sessions[t]
           /\ accounts'[sessions[t].account].password = accounts[sessions[t].account].password,
         \A d \in Device : InStore(devices'[d]) /\ devices'[d].revokedAt = 0 =>
           /\ devices'[d] = devices[d]
           /\ accounts'[devices[d].account].password = accounts[devices[d].account].password,
         \A h \in HostId : hosts'[h].token # None =>
           /\ hosts'[h] = hosts[h]
           /\ accounts'[hosts[h].account].password = accounts[hosts[h].account].password
  PROVE  PasswordInv'
BY DEF PasswordInv, SessionsStand, FamiliesStand, TokensStand

(* Steps that only end sessions. *)
LEMMA StandsUntouched ==
  ASSUME PasswordInv, HostInv', UNCHANGED <<accounts, hosts, devices, proof>>,
         \A t \in Token : sessions'[t] = NoSession \/ sessions'[t] = sessions[t]
  PROVE  PasswordInv'
BY StandsKept DEF NoSession

(* Steps that end families and sessions. *)
LEMMA StandsRevoked ==
  ASSUME PasswordInv, HostInv', UNCHANGED <<accounts, hosts, proof>>, NEW which,
         devices' = RevokeAll(devices, which, now),
         \A t \in Token : sessions'[t] = NoSession \/ sessions'[t] = sessions[t]
  PROVE  PasswordInv'
<1>1. devices \in [Device -> DeviceRecord] /\ now \in Nat /\ now > 0
  BY DEF PasswordInv, HostInv, SessionInv, StoreInv, TypeOK, ClockStarted
<1>2. ASSUME NEW d \in Device, InStore(devices'[d]), devices'[d].revokedAt = 0
      PROVE  devices'[d] = devices[d]
  <2>1. CASE d \in which
    <3>1. devices'[d] = Revoke(devices[d], now)
      BY <2>1 DEF RevokeAll
    <3>2. /\ Revoke(devices[d], now).cred = devices[d].cred
          /\ InStore(devices[d]) => Revoke(devices[d], now).revokedAt # 0
      BY <1>1, RevokeFacts
    <3> QED BY <1>2, <3>1, <3>2 DEF InStore
  <2>2. CASE d \notin which
    BY <2>2 DEF RevokeAll
  <2> QED BY <2>1, <2>2
<1> QED BY <1>2, StandsKept DEF NoSession

(* A sign-in stands on the password that was checked, and it is still the    *)
(* account's when the sign-in goes ahead (stillTheSame).                     *)
LEMMA LoginStands ==
  ASSUME PasswordInv, HostInv',
         NEW a \in Account, NEW d \in Device, NEW t \in Token, NEW heard \in BOOLEAN,
         Login(a, d, t, heard)
  PROVE  PasswordInv'
<1> DEFINE made == Joined(a, d)
           touched == PruneTouches(made, a, now)
           pruned == Prune(made, a, now)
<1>1. /\ accounts' = accounts /\ hosts' = hosts /\ devices' = pruned
      /\ sessions' = StartSession(EndSessionsOf(sessions, touched), t, a, d)
      /\ d \notin minted /\ checking[a].password = accounts[a].password
      /\ proof' = [proof EXCEPT ![d] = checking[a].password, ![t] = checking[a].password]
  BY DEF Login, Commit, Admitted, StillTheSame, Joined
<1>2. /\ now \in Nat /\ now > 0 /\ SessionInv
      /\ sessions \in [Token -> Session] /\ devices \in [Device -> DeviceRecord]
      /\ hosts \in [HostId -> HostRecord]
      /\ made \in [Device -> DeviceRecord]
      /\ proof \in [Device \cup Token \cup HostToken -> Nat]
  BY CreateFamilyType, PlaceType
     DEF PasswordInv, HostInv, SessionInv, StoreInv, TypeOK, ClockStarted, Joined
<1>3. /\ made[d].account = a
      /\ \A e \in Device \ {d} : made[e] = devices[e]
  BY <1>1, <1>2, NewFamilyIsKept DEF SessionInv
<1>4. \A e \in Device : \/ pruned[e] = made[e]
                        \/ pruned[e] = NoRecord
                        \/ pruned[e] = Revoke(made[e], now)
  BY <1>2, PruneFacts
<1> HIDE DEF made, touched, pruned
<1>5. /\ proof'[d] = accounts[a].password /\ proof'[t] = accounts[a].password
      /\ \A u \in Token \ {t} : proof'[u] = proof[u]
      /\ \A e \in Device \ {d} : proof'[e] = proof[e]
      /\ \A k \in HostToken : proof'[k] = proof[k]
  BY <1>1, <1>2, RandomAssumption
<1>6. SessionsStand'
  <2> SUFFICES ASSUME NEW u \in Token, sessions'[u].account # None
               PROVE  proof'[u] = accounts[sessions'[u].account].password
    BY <1>1 DEF SessionsStand
  <2>1. CASE u = t
    BY <1>1, <1>5, <2>1 DEF StartSession, EndSessionsOf
  <2>2. CASE u # t
    <3>1. sessions'[u] = NoSession \/ sessions'[u] = sessions[u]
      BY <1>1, <2>2 DEF StartSession, EndSessionsOf
    <3> QED BY <1>5, <2>2, <3>1 DEF NoSession, PasswordInv, SessionsStand
  <2> QED BY <2>1, <2>2
<1>7. FamiliesStand'
  <2> SUFFICES ASSUME NEW e \in Device, InStore(pruned[e]), pruned[e].revokedAt = 0
               PROVE  proof'[e] = accounts[pruned[e].account].password
    BY <1>1 DEF FamiliesStand
  <2>1. pruned[e] = made[e]
    <3>1. /\ Revoke(made[e], now).cred = made[e].cred
          /\ InStore(made[e]) => Revoke(made[e], now).revokedAt # 0
      BY <1>2, RevokeFacts
    <3> QED BY <1>4, <3>1, NoRecordType DEF InStore
  <2>2. CASE e = d
    BY <1>3, <1>5, <2>1, <2>2
  <2>3. CASE e # d
    BY <1>3, <1>5, <2>1, <2>3 DEF PasswordInv, FamiliesStand
  <2> QED BY <2>2, <2>3
<1>8. TokensStand'
  <2>1. \A h \in HostId : hosts[h].token # None => hosts[h].token \in HostToken
    BY <1>2 DEF HostRecord
  <2> QED BY <1>1, <1>5, <2>1 DEF PasswordInv, TokensStand
<1> QED BY <1>6, <1>7, <1>8 DEF PasswordInv

(* The other ways of signing in. *)
LEMMA SignInStands ==
  ASSUME PasswordInv, HostInv', SignIn
  PROVE  PasswordInv'
<1>1. /\ hosts \in [HostId -> HostRecord] /\ sessions \in [Token -> Session]
      /\ proof \in [Device \cup Token \cup HostToken -> Nat]
      /\ \A h \in HostId : hosts[h].token # None =>
           hosts[h].token \in HostToken /\ hosts[h].token \in minted
  BY DEF PasswordInv, HostInv, SessionInv, StoreInv, TypeOK, HostRecord, TokensAreGivenOut
<1>2. ASSUME NEW a \in Account, NEW purpose \in {"login", "plain", "register"},
             BeginCheck(a, purpose)
      PROVE  PasswordInv'
  BY <1>2, StandsUntouched DEF BeginCheck, stored
<1>3. ASSUME NEW a \in Account, CheckRefused(a) PROVE PasswordInv'
  BY <1>3, StandsUntouched DEF CheckRefused, stored
<1>4. ASSUME NEW a \in Account, NEW t \in Token, PlainLogin(a, t)
      PROVE  PasswordInv'
  <2>1. /\ UNCHANGED stored /\ sessions' = StartSession(sessions, t, a, None)
        /\ proof' = [proof EXCEPT ![t] = checking[a].password]
        /\ checking[a].password = accounts[a].password
    BY <1>4 DEF PlainLogin, Admitted, StillTheSame
  <2>2. /\ proof'[t] = accounts[a].password
        /\ \A v \in (Device \cup Token \cup HostToken) \ {t} : proof'[v] = proof[v]
    BY <1>1, <2>1
  <2>3. /\ sessions'[t].account = a
        /\ \A u \in Token \ {t} : sessions'[u] = sessions[u]
    BY <1>1, <2>1 DEF StartSession
  <2>4. SessionsStand'
    BY <2>1, <2>2, <2>3 DEF stored, PasswordInv, SessionsStand
  <2>5. FamiliesStand' /\ TokensStand'
    BY <1>1, <2>1, <2>2, RandomAssumption DEF stored, PasswordInv, FamiliesStand, TokensStand
  <2> QED BY <2>4, <2>5 DEF PasswordInv
<1>5. ASSUME NEW a \in Account, NEW m \in Machine, NEW h \in HostId, NEW k \in HostToken,
             RegisterHost(a, m, h, k)
      PROVE  PasswordInv'
  <2>1. /\ UNCHANGED <<accounts, devices, sessions>> /\ k \notin minted
        /\ hosts' = [hosts EXCEPT ![h] = [account |-> a, machine |-> m, token |-> k]]
        /\ proof' = [proof EXCEPT ![k] = checking[a].password]
        /\ checking[a].password = accounts[a].password
    BY <1>5 DEF RegisterHost, Commit, Admitted, StillTheSame
  <2>2. /\ proof'[k] = accounts[a].password
        /\ \A v \in (Device \cup Token \cup HostToken) \ {k} : proof'[v] = proof[v]
    BY <1>1, <2>1
  <2>3. /\ hosts'[h].token = k /\ hosts'[h].account = a
        /\ \A g \in HostId \ {h} : hosts'[g] = hosts[g]
    BY <1>1, <2>1
  <2>4. TokensStand'
    BY <1>1, <2>1, <2>2, <2>3 DEF PasswordInv, TokensStand
  <2>5. SessionsStand' /\ FamiliesStand'
    BY <2>1, <2>2, RandomAssumption DEF PasswordInv, SessionsStand, FamiliesStand
  <2> QED BY <2>4, <2>5 DEF PasswordInv
<1> QED BY <1>2, <1>3, <1>4, <1>5, LoginStands DEF SignIn

(* The routes of a client: the session a credential is exchanged for stands  *)
(* on what its family stands on.                                             *)
LEMMA RoutesStand ==
  ASSUME PasswordInv, HostInv', DeviceRoutes
  PROVE  PasswordInv'
<1>1. /\ hosts \in [HostId -> HostRecord] /\ sessions \in [Token -> Session]
      /\ devices \in [Device -> DeviceRecord] /\ now \in Nat
      /\ proof \in [Device \cup Token \cup HostToken -> Nat]
  BY DEF PasswordInv, HostInv, SessionInv, StoreInv, TypeOK
<1>2. ASSUME NEW d \in Device, NEW t \in Token, NEW heard \in BOOLEAN,
             NEW n \in Presentable(d), Refresh(d, n, t, heard)
      PROVE  PasswordInv'
  <2> DEFINE next == Rotate(devices[d], Classify(devices[d], n, now), now)
  <2>1. /\ accounts' = accounts /\ hosts' = hosts
        /\ devices' = [devices EXCEPT ![d] = next]
        /\ sessions' = StartSession(sessions, t, devices[d].account, d)
        /\ proof' = [proof EXCEPT ![t] = proof[d]]
    BY <1>2 DEF Refresh, Commit
  <2>2. InStore(devices[d]) /\ devices[d].revokedAt = 0
    BY <1>2, AcceptedIsLive DEF Refresh
  <2>3. next.account = devices[d].account
    BY <1>1, RotateFacts
  <2> HIDE DEF next
  <2>4. /\ proof'[t] = proof[d]
        /\ \A v \in (Device \cup Token \cup HostToken) \ {t} : proof'[v] = proof[v]
        /\ proof[d] = accounts[devices[d].account].password
    BY <1>1, <2>1, <2>2 DEF PasswordInv, FamiliesStand
  <2>5. /\ sessions'[t].account = devices[d].account
        /\ \A u \in Token \ {t} : sessions'[u] = sessions[u]
    BY <1>1, <2>1 DEF StartSession
  <2>6. SessionsStand'
    BY <2>1, <2>4, <2>5 DEF PasswordInv, SessionsStand
  <2>7. \A e \in Device : proof'[e] = proof[e]
    BY <2>4, RandomAssumption
  <2>8. /\ devices'[d] = next
        /\ \A e \in Device \ {d} : devices'[e] = devices[e]
    BY <1>1, <2>1
  <2>9. FamiliesStand'
    BY <2>1, <2>3, <2>4, <2>7, <2>8 DEF PasswordInv, FamiliesStand
  <2>10. TokensStand'
    BY <1>1, <2>1, <2>4, RandomAssumption DEF PasswordInv, TokensStand, HostRecord
  <2> QED BY <2>6, <2>9, <2>10 DEF PasswordInv
<1>3. ASSUME NEW d \in Device, NEW n \in Presentable(d), RefreshReused(d, n)
      PROVE  PasswordInv'
  <2>1. /\ UNCHANGED <<accounts, hosts, proof>> /\ devices' = RevokeAll(devices, {d}, now)
        /\ \A u \in Token : sessions'[u] = NoSession \/ sessions'[u] = sessions[u]
    BY <1>3 DEF RefreshReused, Commit, EndSessionsOf
  <2> QED BY <2>1, StandsRevoked
<1>4. ASSUME NEW t \in Token \cup {None}, NEW d \in Device \cup {None}, NEW w \in BOOLEAN,
             Logout(t, d, w)
      PROVE  PasswordInv'
  <2> DEFINE dev == IF d # None THEN d
                    ELSE IF t # None /\ Valid(t) THEN sessions[t].device ELSE None
             which == {dev}
             open == AfterDoor(t)
             closed == EndSessionsOf(open, which)
  <2>1. /\ \/ Commit(accounts, hosts, RevokeAll(devices, which, now))
           \/ UNCHANGED stored
        /\ \/ sessions' = open \/ sessions' = [open EXCEPT ![t] = NoSession]
           \/ sessions' = closed \/ sessions' = [closed EXCEPT ![t] = NoSession]
        /\ proof' = proof
    BY <1>4 DEF Logout
  <2>2. /\ \A u \in Token : open[u] = NoSession \/ open[u] = sessions[u]
        /\ open \in [Token -> Session] /\ closed \in [Token -> Session]
    BY <1>1, SessionFacts, SessionTypes
  <2>3. \A u \in Token : closed[u] = NoSession \/ closed[u] = open[u]
    BY DEF EndSessionsOf
  <2> HIDE DEF which, open, closed
  <2>4. ASSUME NEW u \in Token PROVE sessions'[u] = NoSession \/ sessions'[u] = sessions[u]
    <3>1. closed[u] = NoSession \/ closed[u] = sessions[u]
      BY <2>2, <2>3
    <3>2. CASE sessions' = open \/ sessions' = [open EXCEPT ![t] = NoSession]
      BY <2>2, <3>2
    <3>3. CASE sessions' = closed \/ sessions' = [closed EXCEPT ![t] = NoSession]
      BY <2>2, <3>1, <3>3
    <3> QED BY <2>1, <3>2, <3>3
  <2> QED BY <2>1, <2>4, StandsRevoked, StandsUntouched DEF Commit, stored
<1>5. ASSUME NEW t \in Token, NEW d \in Device, RevokeDevice(t, d)
      PROVE  PasswordInv'
  <2>1. /\ UNCHANGED <<accounts, hosts, proof>> /\ devices' = RevokeAll(devices, {d}, now)
        /\ \A u \in Token : sessions'[u] = NoSession \/ sessions'[u] = sessions[u]
    BY <1>5 DEF RevokeDevice, Commit, EndSessionsOf
  <2> QED BY <2>1, StandsRevoked
<1> QED BY <1>2, <1>3, <1>4, <1>5 DEF DeviceRoutes

(* What an operator who keeps to the admin page does: a new password, or an   *)
(* account that goes, leaves nothing standing on the old one.                 *)
LEMMA AdminStands ==
  ASSUME PasswordInv, HostInv', OperatorCli = FALSE, Admin
  PROVE  PasswordInv'
<1>1. PICK a \in Account :
        \/ Signup(a) \/ SignupUnwritten(a) \/ AdminCreate(a)
        \/ AdminApprove(a) \/ AdminDisable(a) \/ AdminEnable(a)
        \/ BeginAdminPassword(a) \/ AdminPassword(a) \/ AdminPasswordRefused(a)
        \/ AdminDelete(a)
  BY DEF Admin, AddAccountFromCli
<1>2. /\ sessions \in [Token -> Session] /\ devices \in [Device -> DeviceRecord]
      /\ accounts \in [Account -> AccountRecord] /\ hosts \in [HostId -> HostRecord]
      /\ now \in Nat /\ now > 0
  BY DEF PasswordInv, HostInv, SessionInv, StoreInv, TypeOK, ClockStarted
<1>3. /\ \A t \in Token : sessions[t].account # None =>
           /\ sessions[t].account \in Account
           /\ accounts[sessions[t].account].status = "active"
      /\ \A d \in Device : InStore(devices[d]) =>
           /\ devices[d].account \in Account
           /\ accounts[devices[d].account].status # "absent"
      /\ \A h \in HostId : hosts[h].token # None =>
           /\ hosts[h].account \in Account
           /\ accounts[hosts[h].account].status # "absent"
  BY <1>2 DEF PasswordInv, HostInv, SessionInv, StoreInv, SessionsFollow, Follows,
              OwnersExist, TokensAreGivenOut, Session, DeviceRecord, HostRecord
<1>4. ASSUME UNCHANGED <<devices, hosts, proof>>,
             \A b \in Account : accounts[b].status # "absent"
               => accounts'[b].password = accounts[b].password,
             \A t \in Token : sessions'[t] = NoSession \/ sessions'[t] = sessions[t]
      PROVE  PasswordInv'
  BY <1>3, <1>4, StandsKept DEF NoSession
<1>5. CASE Signup(a) \/ AdminCreate(a)
  <2>1. /\ accounts[a].status = "absent" /\ UNCHANGED <<devices, hosts, proof, sessions>>
        /\ accounts' = [accounts EXCEPT ![a] = NewAccount]
    BY <1>5 DEF Signup, AdminCreate, Commit
  <2>2. \A b \in Account : accounts[b].status # "absent"
          => accounts'[b].password = accounts[b].password
    BY <1>2, <2>1
  <2> QED BY <1>4, <2>1, <2>2
<1>6. CASE SignupUnwritten(a)
  <2>1. HostsOf(hosts, a) = {} /\ DevicesOf(devices, a) = {}
    BY <1>6, NoneAssumption DEF SignupUnwritten, HostsOf, DevicesOf, PasswordInv, HostInv,
                                SessionInv, StoreInv, OwnersExist
  <2>2. UNCHANGED <<hosts, devices, accounts, sessions, proof>>
    BY <1>2, <1>6, <2>1 DEF SignupUnwritten
  <2> QED BY <1>4, <2>2
<1>7. ASSUME NEW status \in Status, SetStatus(a, status), proof' = proof,
             \A t \in Token : sessions'[t] = NoSession \/ sessions'[t] = sessions[t]
      PROVE  PasswordInv'
  <2>1. UNCHANGED <<hosts, devices>> /\ accounts' = [accounts EXCEPT ![a].status = status]
    BY <1>7 DEF SetStatus, Commit
  <2>2. \A b \in Account : accounts'[b].password = accounts[b].password
    BY <1>2, <2>1 DEF AccountRecord
  <2> QED BY <1>4, <1>7, <2>1, <2>2
<1>8. CASE AdminApprove(a) \/ AdminEnable(a)
  BY <1>7, <1>8 DEF AdminApprove, AdminEnable, Status
<1>9. CASE AdminDisable(a)
  <2>1. \A t \in Token : sessions'[t] = NoSession \/ sessions'[t] = sessions[t]
    BY <1>9 DEF AdminDisable, EndSessionsOfAccount
  <2>2. CASE SetStatus(a, "disabled")
    BY <1>7, <1>9, <2>1, <2>2 DEF AdminDisable, Status
  <2>3. CASE UNCHANGED stored
    BY <1>4, <1>9, <2>1, <2>3 DEF AdminDisable, stored
  <2> QED BY <1>9, <2>2, <2>3 DEF AdminDisable
<1>10. CASE BeginAdminPassword(a) \/ AdminPasswordRefused(a)
  BY <1>4, <1>10 DEF BeginAdminPassword, AdminPasswordRefused, stored
<1>11. ASSUME proof' = proof, \A b \in Account \ {a} : accounts'[b] = accounts[b],
              \A t \in Token : sessions'[t].account # None =>
                sessions'[t] = sessions[t] /\ sessions[t].account # a,
              \A d \in Device : InStore(devices'[d]) /\ devices'[d].revokedAt = 0 =>
                devices'[d] = devices[d] /\ devices[d].account # a,
              \A h \in HostId : hosts'[h].token # None =>
                hosts'[h] = hosts[h] /\ hosts[h].account # a
       PROVE  PasswordInv'
  BY <1>3, <1>11, StandsKept
<1>12. CASE AdminPassword(a)
  <2> DEFINE theirs == DevicesOf(devices, a)
             left == EndSessionsOf(sessions, {d \in theirs : devices[d].revokedAt = 0})
  <2>1. /\ accounts' = [accounts EXCEPT ![a].password = editions + 1]
        /\ devices' = RevokeAll(devices, theirs, now)
        /\ hosts' = [h \in HostId |-> IF h \in HostsOf(hosts, a)
                                      THEN [hosts[h] EXCEPT !.token = None] ELSE hosts[h]]
        /\ sessions' = EndSessionsOfAccount(left, a) /\ proof' = proof
    BY <1>12 DEF AdminPassword, Commit
  <2>2. \A t \in Token : left[t] = NoSession \/ left[t] = sessions[t]
    BY DEF EndSessionsOf
  <2>3. \A d \in Device : d \in theirs <=> InStore(devices[d]) /\ devices[d].account = a
    BY DEF DevicesOf
  <2> HIDE DEF left, theirs
  <2>4. \A t \in Token : sessions'[t].account # None =>
          sessions'[t] = sessions[t] /\ sessions[t].account # a
    BY <2>1, <2>2 DEF EndSessionsOfAccount, NoSession
  <2>5. ASSUME NEW d \in Device, InStore(devices'[d]), devices'[d].revokedAt = 0
        PROVE  devices'[d] = devices[d] /\ devices[d].account # a
    <3>1. /\ Revoke(devices[d], now).cred = devices[d].cred
          /\ InStore(devices[d]) => Revoke(devices[d], now).revokedAt # 0
      BY <1>2, RevokeFacts
    <3>2. CASE d \in theirs
      BY <2>1, <2>3, <2>5, <3>1, <3>2 DEF RevokeAll
    <3>3. CASE d \notin theirs
      BY <2>1, <2>3, <2>5, <3>3 DEF RevokeAll
    <3> QED BY <3>2, <3>3
  <2>6. \A h \in HostId : hosts'[h].token # None =>
          hosts'[h] = hosts[h] /\ hosts[h].account # a
    BY <1>2, <2>1 DEF HostsOf, HostRecord
  <2>7. \A b \in Account \ {a} : accounts'[b] = accounts[b]
    BY <1>2, <2>1
  <2> QED BY <1>11, <2>1, <2>4, <2>5, <2>6, <2>7
<1>13. CASE AdminDelete(a)
  <2>1. /\ accounts' = [accounts EXCEPT ![a] = NoAccount]
        /\ devices' = [d \in Device |-> IF d \in DevicesOf(devices, a) THEN NoRecord
                                        ELSE devices[d]]
        /\ hosts' = [h \in HostId |-> IF h \in HostsOf(hosts, a) THEN NoHost ELSE hosts[h]]
        /\ sessions' = EndSessionsOfAccount(sessions, a) /\ proof' = proof
    BY <1>13 DEF AdminDelete, Commit
  <2>2. \A t \in Token : sessions'[t].account # None =>
          sessions'[t] = sessions[t] /\ sessions[t].account # a
    BY <2>1 DEF EndSessionsOfAccount, NoSession
  <2>3. \A d \in Device : InStore(devices'[d]) /\ devices'[d].revokedAt = 0 =>
          devices'[d] = devices[d] /\ devices[d].account # a
    BY <2>1, NoRecordType DEF DevicesOf
  <2>4. \A h \in HostId : hosts'[h].token # None =>
          hosts'[h] = hosts[h] /\ hosts[h].account # a
    BY <2>1 DEF HostsOf, NoHost
  <2>5. \A b \in Account \ {a} : accounts'[b] = accounts[b]
    BY <1>2, <2>1
  <2> QED BY <1>11, <2>1, <2>2, <2>3, <2>4, <2>5
<1> QED BY <1>1, <1>5, <1>6, <1>8, <1>9, <1>10, <1>12, <1>13

(* Nothing stands on anything to begin with. *)
LEMMA PasswordInit == Init => PasswordInv
BY HostInit, NoRecordType
   DEF Init, PasswordInv, SessionsStand, FamiliesStand, TokensStand, NoSession, NoHost

(* One step keeps everything on the present password. *)
LEMMA PasswordStep ==
  ASSUME OperatorCli = FALSE, PasswordInv, [Next]_vars
  PROVE  PasswordInv'
<1>1. HostInv'
  BY HostStep DEF PasswordInv
<1>2. CASE SignIn
  BY <1>1, <1>2, SignInStands
<1>3. CASE DeviceRoutes
  BY <1>1, <1>3, RoutesStand
<1>4. CASE Admin
  BY <1>1, <1>4, AdminStands
<1>5. CASE Tick \/ Sweep \/ UNCHANGED vars
  <2>1. /\ UNCHANGED <<accounts, hosts, devices, proof>>
        /\ \A t \in Token : sessions'[t] = NoSession \/ sessions'[t] = sessions[t]
    BY <1>5 DEF Tick, Sweep, vars, stored
  <2> QED BY <1>1, <2>1, StandsUntouched
<1>6. CASE Restart
  <2>1. /\ UNCHANGED <<accounts, hosts, devices, proof>>
        /\ \A t \in Token : sessions'[t] = NoSession
    BY <1>6 DEF Restart, Boot, Commit, PasswordInv, HostInv, SessionInv, StoreInv, MemoryIsDisk
  <2> QED BY <1>1, <2>1, StandsUntouched
<1> QED BY <1>2, <1>3, <1>4, <1>5, <1>6 DEF Next

(* Nothing works that was obtained with a password the account no longer has, *)
(* as long as the operator keeps to the admin page -- although a check of the *)
(* old one may be under way when the password is changed, or the account      *)
(* deleted and made again (stillTheSame, adminPassword, adminDelete).         *)
THEOREM OldPasswordsAreWorthNothing ==
  ASSUME OperatorCli = FALSE
  PROVE  Spec => []StandsOnThePresentPassword
<1>1. PasswordInv => StandsOnThePresentPassword
  BY NoneAssumption, DirectoryAssumption
     DEF PasswordInv, HostInv, SessionsStand, FamiliesStand, TokensStand, IndexIsTheStore,
         SessionInv, StoreInv, TypeOK, StandsOnThePresentPassword
<1>2. PasswordInv /\ [Next]_vars => PasswordInv'
  BY PasswordStep
<1> QED BY <1>1, <1>2, PasswordInit, PTL DEF Spec

-----------------------------------------------------------------------------
(* What may happen to a family *)

Kept(d) == devices'[d] = devices[d] /\ now' \in {now, now + 1} /\ (d \in minted' <=> d \in minted)

Dropped(d) == devices'[d] = NoRecord /\ now' = now /\ (d \in minted' <=> d \in minted)

Revoked(d) == devices'[d] = Revoke(devices[d], now) /\ now' = now /\ (d \in minted' <=> d \in minted)

Rotated(d) ==
  /\ \E n \in Nat : LET how == Classify(devices[d], n, now)
                    IN  how \in {"current", "grace"} /\ devices'[d] = Rotate(devices[d], how, now)
  /\ now' = now /\ (d \in minted' <=> d \in minted)

Made(d) ==
  /\ d \notin minted /\ d \in minted' /\ now' = now
  /\ \E a \in Account : devices'[d] = CreateFamily(devices, a, d, 1 + FamiliesMade, now)[d]

Happens(d) == Kept(d) \/ Dropped(d) \/ Revoked(d) \/ Rotated(d)

(* A sign-in starts one family, and what it ends is pruned. *)
LEMMA LoginHappens ==
  ASSUME StoreInv, NEW a \in Account, NEW d \in Device, NEW t \in Token, NEW heard \in BOOLEAN,
         Login(a, d, t, heard)
  PROVE  Made(d) /\ \A e \in Device \ {d} : Happens(e)
<1> DEFINE made == Joined(a, d)
           pruned == Prune(made, a, now)
<1>1. devices' = pruned /\ now' = now /\ d \notin minted /\ minted' = minted \cup {d, t}
  BY DEF Login, Commit, Joined
<1>2. made \in [Device -> DeviceRecord] /\ now \in Nat /\ now > 0
  BY CreateFamilyType, PlaceType DEF StoreInv, TypeOK, ClockStarted, Joined
<1>3. /\ d \notin PruneTouches(made, a, now)
      /\ \A e \in Device \ {d} : made[e] = devices[e]
  BY <1>1, NewFamilyIsKept
<1>4. /\ \A e \in Device : e \notin PruneTouches(made, a, now) => pruned[e] = made[e]
      /\ \A e \in Device : \/ pruned[e] = made[e]
                           \/ pruned[e] = NoRecord
                           \/ pruned[e] = Revoke(made[e], now)
  BY <1>2, PruneFacts
<1>5. \A e \in Device \ {d} : e \in minted' <=> e \in minted
  BY <1>1, RandomAssumption
<1> HIDE DEF pruned
<1>6. Made(d)
  BY <1>1, <1>3, <1>4 DEF Made, Joined, FamiliesMade
<1>7. ASSUME NEW e \in Device \ {d} PROVE Happens(e)
  <2>1. \/ devices'[e] = devices[e] \/ devices'[e] = NoRecord \/ devices'[e] = Revoke(devices[e], now)
    BY <1>1, <1>3, <1>4
  <2> QED BY <1>1, <1>5, <2>1 DEF Happens, Kept, Dropped, Revoked
<1> QED BY <1>6, <1>7

(* Routes that revoke families, and nothing else. *)
LEMMA RevokeAllHappens ==
  ASSUME NEW which, devices' = RevokeAll(devices, which, now), UNCHANGED <<now, minted>>
  PROVE  \A d \in Device : Happens(d)
BY DEF RevokeAll, Happens, Kept, Revoked

(* Steps that only give out values that are no device's. *)
LEMMA NothingHappens ==
  ASSUME UNCHANGED devices, now' \in {now, now + 1},
         \/ UNCHANGED minted
         \/ \E more \in SUBSET (Token \cup HostId \cup HostToken) : minted' = minted \cup more
  PROVE  \A d \in Device : Happens(d)
BY RandomAssumption DEF Happens, Kept

Starts ==
  \E a \in Account, d \in Device, t \in Token, heard \in BOOLEAN : Login(a, d, t, heard)

LEMMA SignInHappens ==
  ASSUME StoreInv, SignIn
  PROVE  (\A d \in Device : Happens(d)) \/ Starts
<1>2. ASSUME NEW a \in Account,
             CheckRefused(a) \/ \E purpose \in {"login", "plain", "register"} : BeginCheck(a, purpose)
      PROVE  \A d \in Device : Happens(d)
  BY <1>2, NothingHappens DEF CheckRefused, BeginCheck, stored
<1>3. ASSUME NEW a \in Account, NEW t \in Token, PlainLogin(a, t)
      PROVE  \A d \in Device : Happens(d)
  <2>1. minted' = minted \cup {t} /\ UNCHANGED <<devices, now>>
    BY <1>3 DEF PlainLogin, Fresh, stored
  <2> QED BY <2>1, NothingHappens
<1>4. ASSUME NEW a \in Account, NEW m \in Machine, NEW h \in HostId, NEW k \in HostToken,
             RegisterHost(a, m, h, k)
      PROVE  \A d \in Device : Happens(d)
  <2>1. minted' = minted \cup {h, k} /\ UNCHANGED <<devices, now>>
    BY <1>4 DEF RegisterHost, Commit
  <2> QED BY <2>1, NothingHappens
<1> QED BY <1>2, <1>3, <1>4 DEF SignIn, Starts

LEMMA RoutesHappen ==
  ASSUME StoreInv, DeviceRoutes
  PROVE  \A d \in Device : Happens(d)
<1>1. ASSUME NEW d \in Device, NEW t \in Token, NEW heard \in BOOLEAN,
             NEW n \in Presentable(d), Refresh(d, n, t, heard)
      PROVE  \A e \in Device : Happens(e)
  <2> DEFINE how == Classify(devices[d], n, now)
  <2>1. /\ how \in {"current", "grace"} /\ devices' = [devices EXCEPT ![d] = Rotate(devices[d], how, now)]
        /\ minted' = minted \cup {t} /\ now' = now
    BY <1>1 DEF Refresh, Commit, Fresh
  <2>2. n \in Nat
    BY DEF Presentable, StoreInv, TypeOK
  <2>3. \A e \in Device : e \in minted' <=> e \in minted
    BY <2>1, RandomAssumption
  <2>4. \A e \in Device : devices'[e] = IF e = d THEN Rotate(devices[d], how, now) ELSE devices[e]
    BY <2>1 DEF StoreInv, TypeOK
  <2> HIDE DEF how
  <2>5. ASSUME NEW e \in Device \ {d} PROVE Kept(e)
    BY <2>1, <2>3, <2>4 DEF Kept
  <2>6. Rotated(d)
    BY <2>1, <2>2, <2>3, <2>4 DEF Rotated, how
  <2> QED BY <2>5, <2>6 DEF Happens
<1>2. ASSUME NEW d \in Device, NEW n \in Presentable(d), RefreshReused(d, n)
      PROVE  \A e \in Device : Happens(e)
  BY <1>2, RevokeAllHappens DEF RefreshReused, Commit
<1>3. ASSUME NEW t \in Token \cup {None}, NEW d \in Device \cup {None}, NEW w \in BOOLEAN, Logout(t, d, w)
      PROVE  \A e \in Device : Happens(e)
  <2>1. UNCHANGED <<now, minted>>
        /\ (UNCHANGED devices \/ \E which : devices' = RevokeAll(devices, which, now))
    BY <1>3 DEF Logout, Commit, stored
  <2> QED BY <2>1, NothingHappens, RevokeAllHappens
<1>4. ASSUME NEW t \in Token, NEW d \in Device, RevokeDevice(t, d)
      PROVE  \A e \in Device : Happens(e)
  BY <1>4, RevokeAllHappens DEF RevokeDevice, Commit
<1> QED BY <1>1, <1>2, <1>3, <1>4 DEF DeviceRoutes

LEMMA AdminHappens ==
  ASSUME StoreInv, Admin
  PROVE  \A d \in Device : Happens(d)
<1>1. PICK a \in Account :
        \/ Signup(a) \/ SignupUnwritten(a) \/ AdminCreate(a)
        \/ AdminApprove(a) \/ AdminDisable(a) \/ AdminEnable(a)
        \/ BeginAdminPassword(a) \/ AdminPassword(a) \/ AdminPasswordRefused(a)
        \/ AdminDelete(a)
        \/ AddAccountFromCli(a)
  BY DEF Admin
<1>2. CASE Signup(a) \/ AdminCreate(a)
  BY <1>2, NothingHappens DEF AdminCreate, Signup, Commit
<1>3. CASE SignupUnwritten(a)
  <2>1. \A d \in Device : devices'[d] \in {NoRecord, devices[d]}
    BY <1>3 DEF SignupUnwritten
  <2>2. UNCHANGED <<now, minted>>
    BY <1>3 DEF SignupUnwritten
  <2> QED BY <2>1, <2>2 DEF Happens, Kept, Dropped
<1>4. CASE AdminApprove(a) \/ AdminDisable(a) \/ AdminEnable(a)
  BY <1>4, NothingHappens DEF AdminApprove, AdminDisable, AdminEnable, SetStatus, Commit, stored
<1>5. CASE BeginAdminPassword(a) \/ AdminPasswordRefused(a)
  BY <1>5, NothingHappens DEF BeginAdminPassword, AdminPasswordRefused, stored
<1>6. CASE AdminPassword(a)
  BY <1>6, RevokeAllHappens DEF AdminPassword, Commit
<1>7. CASE AdminDelete(a)
  <2>1. \A d \in Device : devices'[d] \in {NoRecord, devices[d]}
    BY <1>7 DEF AdminDelete, Commit
  <2>2. UNCHANGED <<now, minted>>
    BY <1>7 DEF AdminDelete
  <2> QED BY <2>1, <2>2 DEF Happens, Kept, Dropped
<1>8. CASE AddAccountFromCli(a)
  <2>1. devices' = disk.devices /\ UNCHANGED <<now, minted>>
    BY <1>8 DEF AddAccountFromCli, Boot, Commit
  <2> QED BY <2>1, NothingHappens DEF StoreInv, MemoryIsDisk
<1> QED BY <1>1, <1>2, <1>3, <1>4, <1>5, <1>6, <1>7, <1>8

(* No step does anything else to a family, and only a sign-in starts one. *)
LEMMA EachHappens ==
  ASSUME StoreInv, [Next]_vars
  PROVE  (\A d \in Device : Happens(d)) \/ Starts
<1>1. CASE Tick \/ Sweep \/ UNCHANGED vars
  BY <1>1, NothingHappens DEF Tick, Sweep, vars, stored
<1>2. CASE Restart
  <2>1. devices' = disk.devices /\ UNCHANGED <<now, minted>>
    BY <1>2 DEF Restart, Boot, Commit
  <2> QED BY <2>1, NothingHappens DEF StoreInv, MemoryIsDisk
<1> QED BY <1>1, <1>2, SignInHappens, RoutesHappen, AdminHappens DEF Next

-----------------------------------------------------------------------------
(* The promise, one family at a time *)

(* A credential that was replaced is an earlier one. *)
EarlierIsKept(r) == InStore(r) => r.prev < r.cred

PromiseInv == StoreInv /\ \A d \in Device : EarlierIsKept(devices[d])

AcceptedOf(r, time) == {n \in 1 .. r.cred : Classify(r, n, time) \in {"current", "grace"}}

(* What is accepted of a family: its newest, and the one before it in grace. *)
InGrace(r, time) == r.prev # 0 /\ r.prevUses > 0 /\ time <= r.prevUntil

LEMMA AcceptedIs ==
  ASSUME NEW r \in DeviceRecord, EarlierIsKept(r), NEW time \in Nat
  PROVE  AcceptedOf(r, time) = IF ~IsLive(r, time) THEN {}
                               ELSE IF InGrace(r, time) THEN {r.prev, r.cred} ELSE {r.cred}
<1>1. r.cred \in Nat /\ r.prev \in Nat /\ r.prevUses \in Nat
  BY DEF DeviceRecord
<1>2. CASE ~IsLive(r, time)
  BY <1>2 DEF AcceptedOf, Classify
<1>3. CASE IsLive(r, time)
  <2>1. InStore(r) /\ r.cred \in 1 .. r.cred /\ r.prev < r.cred
    BY <1>1, <1>3 DEF IsLive, InStore, EarlierIsKept
  <2>2. \A n \in 1 .. r.cred :
          Classify(r, n, time) \in {"current", "grace"} <=> n = r.cred \/ (n = r.prev /\ InGrace(r, time))
    BY <1>1, <1>3, <2>1 DEF Classify, InGrace
  <2> QED BY <1>1, <1>3, <2>1, <2>2 DEF AcceptedOf, InGrace
<1> QED BY <1>2, <1>3

(* A rotation makes the newest the earlier one, in grace where it was the    *)
(* newest that was presented.                                                *)
LEMMA RotatedIs ==
  ASSUME NEW r \in DeviceRecord, EarlierIsKept(r), NEW time \in Nat, NEW how \in {"current", "grace"},
         IsLive(r, time)
  PROVE  LET s == Rotate(r, how, time)
         IN  /\ s \in DeviceRecord /\ EarlierIsKept(s) /\ IsLive(s, time) /\ s.cred = r.cred + 1
             /\ AcceptedOf(s, time) = IF how = "current" THEN {r.cred, r.cred + 1} ELSE {r.cred + 1}
<1> DEFINE s == Rotate(r, how, time)
<1>1. /\ s \in DeviceRecord /\ s.cred = r.cred + 1 /\ s.lastUsedAt = time /\ s.revokedAt = r.revokedAt
  BY RotateFacts
<1>2. /\ s.prev = IF how = "current" THEN r.cred ELSE r.prev
      /\ s.prevUntil = IF how = "current" THEN time + GraceTime ELSE 0
      /\ s.prevUses = IF how = "current" THEN GraceUses ELSE 0
  BY DEF Rotate
<1>3. r.cred \in Nat /\ r.cred # 0 /\ r.prev \in Nat /\ r.prev < r.cred
  BY DEF DeviceRecord, IsLive, InStore, EarlierIsKept
<1> HIDE DEF s
<1>4. EarlierIsKept(s)
  BY <1>1, <1>2, <1>3 DEF EarlierIsKept
<1>5. IsLive(s, time)
  BY <1>1, <1>3, LimitsAssumption DEF IsLive, InStore, ExpiresAt
<1>6. InGrace(s, time) <=> how = "current"
  BY <1>2, <1>3, LimitsAssumption DEF InGrace
<1>7. AcceptedOf(s, time) = IF how = "current" THEN {r.cred, r.cred + 1} ELSE {r.cred + 1}
  BY <1>1, <1>2, <1>4, <1>5, <1>6, AcceptedIs
<1> QED BY <1>1, <1>4, <1>5, <1>7 DEF s

LEMMA FirstIs ==
  ASSUME StoreInv, NEW a \in Account, NEW d \in Device
  PROVE  LET s == CreateFamily(devices, a, d, 1 + FamiliesMade, now)[d]
         IN  /\ s \in DeviceRecord /\ EarlierIsKept(s) /\ IsLive(s, now) /\ s.cred = 1
             /\ AcceptedOf(s, now) = {1}
<1> DEFINE s == CreateFamily(devices, a, d, 1 + FamiliesMade, now)[d]
<1>1. now \in Nat /\ FamiliesMade \in Nat /\ devices \in [Device -> DeviceRecord]
  BY MadeFacts DEF StoreInv, TypeOK
<1>2. /\ s.cred = 1 /\ s.prev = 0 /\ s.lastUsedAt = now /\ s.revokedAt = 0
      /\ s \in DeviceRecord
  BY <1>1, CreateFamilyType DEF CreateFamily
<1> HIDE DEF s
<1>3. EarlierIsKept(s) /\ IsLive(s, now) /\ ~InGrace(s, now)
  BY <1>1, <1>2, LimitsAssumption DEF EarlierIsKept, IsLive, InStore, ExpiresAt, InGrace
<1>4. AcceptedOf(s, now) = {1}
  BY <1>1, <1>2, <1>3, AcceptedIs
<1> QED BY <1>2, <1>3, <1>4 DEF s

(* What ended is not live, and has no earlier credential that it did not have. *)
LEMMA RevokedIs ==
  ASSUME NEW r \in DeviceRecord, EarlierIsKept(r), NEW time \in Nat, time > 0
  PROVE  EarlierIsKept(Revoke(r, time)) /\ ~IsLive(Revoke(r, time), time)
<1>1. Revoke(r, time).prev = r.prev
  BY DEF Revoke, DeviceRecord
<1> QED BY <1>1, RevokeFacts DEF EarlierIsKept, IsLive, InStore

(* The promise about one family, of a step that makes it as Happens says. *)
LEMMA OneFamily ==
  ASSUME PromiseInv, TypeOK', NEW d \in Device, Happens(d) \/ Made(d)
  PROVE  /\ EarlierIsKept(devices'[d])
         /\ Life!Stays(d) \/ Life!Starts(d) \/ Life!Exchanged(d) \/ Life!Lapses(d) \/ Life!Ends(d)
<1> DEFINE r == devices[d]
           s == devices'[d]
           born == d \in minted
           Lives(x, time) == IF IsLive(x, time) THEN "live" ELSE "ended"
           Newest(x, time) == IF IsLive(x, time) THEN x.cred ELSE 0
<1>1. /\ r \in DeviceRecord /\ s \in DeviceRecord /\ now \in Nat /\ now > 0
      /\ EarlierIsKept(r) /\ (~born => ~InStore(r))
  BY DEF PromiseInv, StoreInv, TypeOK, ClockStarted, FamiliesAreGood, Good
<1>2. /\ [e \in Device |-> IF e \notin minted THEN "unborn" ELSE IF IsLive(devices[e], now) THEN "live" ELSE "ended"][d]
            = IF ~born THEN "unborn" ELSE Lives(r, now)
      /\ [e \in Device |-> IF IsLive(devices[e], now) THEN devices[e].cred ELSE 0][d] = Newest(r, now)
      /\ [e \in Device |-> Accepted(e)][d] = AcceptedOf(r, now)
  BY DEF Accepted, AcceptedOf
<1>3. /\ [e \in Device |-> IF e \notin minted THEN "unborn" ELSE IF IsLive(devices[e], now) THEN "live" ELSE "ended"]'[d]
            = IF d \notin minted' THEN "unborn" ELSE Lives(s, now')
      /\ [e \in Device |-> IF IsLive(devices[e], now) THEN devices[e].cred ELSE 0]'[d] = Newest(s, now')
      /\ [e \in Device |-> Accepted(e)]'[d] = AcceptedOf(s, now')
  BY DEF Accepted, AcceptedOf
<1> HIDE DEF r, s, born
<1> USE DEF Life!Stays, Life!Starts, Life!Exchanged, Life!Lapses, Life!Ends
<1>4. CASE Kept(d)
  <2>1. s = r /\ now' \in {now, now + 1} /\ (d \in minted' <=> born)
    BY <1>4 DEF Kept, r, s, born
  <2>2. IsLive(s, now') => IsLive(r, now)
    BY <1>1, <2>1, LimitsAssumption DEF IsLive, ExpiresAt, DeviceRecord
  <2>3. InGrace(s, now') => InGrace(r, now)
    BY <1>1, <2>1 DEF InGrace, DeviceRecord
  <2>4. EarlierIsKept(s) /\ now' \in Nat
    BY <1>1, <2>1
  <2>5. /\ AcceptedOf(r, now) = IF ~IsLive(r, now) THEN {} ELSE IF InGrace(r, now) THEN {r.prev, r.cred} ELSE {r.cred}
        /\ AcceptedOf(s, now') = IF ~IsLive(r, now') THEN {}
                                 ELSE IF InGrace(r, now') THEN {r.prev, r.cred} ELSE {r.cred}
    BY <1>1, <2>1, <2>4, AcceptedIs
  <2>6. CASE ~IsLive(r, now)
    BY <1>2, <1>3, <2>1, <2>2, <2>4, <2>5, <2>6 DEF s
  <2>7. CASE IsLive(r, now) /\ ~IsLive(r, now')
    BY <1>1, <1>2, <1>3, <2>1, <2>4, <2>5, <2>7 DEF s, IsLive
  <2>8. CASE IsLive(r, now) /\ IsLive(r, now')
    BY <1>1, <1>2, <1>3, <2>1, <2>3, <2>4, <2>5, <2>8 DEF s, IsLive
  <2> QED BY <2>1, <2>2, <2>6, <2>7, <2>8
<1>5. CASE Dropped(d) \/ Revoked(d)
  <2>1. now' = now /\ (d \in minted' <=> born)
    BY <1>5 DEF Dropped, Revoked, born
  <2>2. EarlierIsKept(s) /\ ~IsLive(s, now')
    BY <1>1, <1>5, RevokedIs, NoRecordType DEF Dropped, Revoked, r, s, EarlierIsKept, IsLive
  <2> QED BY <1>1, <1>2, <1>3, <2>1, <2>2, AcceptedIs DEF s, IsLive
<1>6. CASE Rotated(d)
  <2>1. PICK n \in Nat : Classify(r, n, now) \in {"current", "grace"} /\ s = Rotate(r, Classify(r, n, now), now)
    BY <1>6 DEF Rotated, r, s
  <2>2. now' = now /\ (d \in minted' <=> born)
    BY <1>6 DEF Rotated, born
  <2>3. IsLive(r, now) /\ (Classify(r, n, now) = "current" <=> n = r.cred) /\ n \in {r.cred, r.prev}
        /\ n \in AcceptedOf(r, now)
    BY <1>1, <2>1 DEF Classify, AcceptedOf, EarlierIsKept, DeviceRecord, IsLive, InStore
  <2> QED BY <1>1, <1>2, <1>3, <2>1, <2>2, <2>3, RotatedIs DEF s, IsLive
<1>7. CASE Made(d)
  <2>1. PICK a \in Account : s = CreateFamily(devices, a, d, 1 + FamiliesMade, now)[d]
    BY <1>7 DEF Made, s
  <2>2. ~born /\ d \in minted' /\ now' = now
    BY <1>7 DEF Made, born
  <2> QED BY <1>2, <1>3, <2>1, <2>2, FirstIs DEF s, PromiseInv
<1> QED BY <1>4, <1>5, <1>6, <1>7 DEF Happens

LEMMA PromiseStep ==
  ASSUME PromiseInv, [Next]_vars
  PROVE  PromiseInv' /\ [Life!Next]_(Life!vars)
<1>1. StoreInv' /\ TypeOK'
  BY StoreStep DEF PromiseInv, StoreInv
<1>2. \A d \in Device :
        /\ EarlierIsKept(devices'[d])
        /\ Life!Stays(d) \/ Life!Starts(d) \/ Life!Exchanged(d) \/ Life!Lapses(d) \/ Life!Ends(d)
  <2>1. \A d \in Device : Happens(d) \/ Made(d)
    BY EachHappens, LoginHappens DEF PromiseInv, Starts
  <2> QED BY <1>1, <2>1, OneFamily
<1>3. PromiseInv'
  BY <1>1, <1>2 DEF PromiseInv, EarlierIsKept, InStore
<1> QED BY <1>2, <1>3 DEF Life!Next

LEMMA PromiseInit == Init => PromiseInv /\ Life!Init
<1> SUFFICES ASSUME Init PROVE PromiseInv /\ Life!Init
  OBVIOUS
<1>1. StoreInv
  BY StoreInit
<1>2. \A d \in Device : devices[d] = NoRecord /\ d \notin minted
  BY DEF Init
<1>3. \A d \in Device : ~InStore(devices[d]) /\ ~IsLive(devices[d], now)
  BY <1>2, NoRecordType DEF IsLive
<1>4. \A d \in Device : EarlierIsKept(devices[d])
  BY <1>3 DEF EarlierIsKept
<1>5. \A d \in Device : Accepted(d) = {}
  BY <1>3 DEF Accepted, Classify
<1> QED BY <1>1, <1>2, <1>3, <1>4, <1>5 DEF PromiseInv, Life!Init

(* The directory implements DeviceLife: whatever is presented, lost, retried, *)
(* pruned, restarted or deleted, each family starts and ends once, no more    *)
(* than two credentials of it are accepted, only an exchange makes another    *)
(* one accepted, and what is refused stays refused (classify, rotate, revoke, *)
(* prune and every handler that stores what they decide).                     *)
THEOREM DirectoryKeepsThePromise == Spec => KeepsThePromise
BY PromiseInit, PromiseStep, PTL DEF Spec, KeepsThePromise, Life!Spec

-----------------------------------------------------------------------------
(* The limit *)

(* No two families stand at the same place of the store. *)
PlacesDiffer(ds) ==
  \A d, e \in Device : InStore(ds[d]) /\ InStore(ds[e]) /\ ds[d].place = ds[e].place => d = e

LimitInv == StoreInv /\ PlacesDiffer(devices) /\ WithinTheLimit

(* Pruning leaves an account as many live families as it may have: each of   *)
(* those left has fewer than PerAccount used after it, and no two as many,   *)
(* since last use and place put families in a row (prune).                   *)
LEMMA PruneKeepsTheLimit ==
  ASSUME NEW ds \in [Device -> DeviceRecord], PlacesDiffer(ds), NEW a \in Account, NEW time \in Nat, time > 0
  PROVE  Cardinality(LiveOf(Prune(ds, a, time), a, time)) <= PerAccount
<1> DEFINE live == LiveOf(ds, a, time)
           After(d) == {e \in live : UsedBefore(ds[d], ds[e])}
           left == LiveOf(Prune(ds, a, time), a, time)
           f == [d \in left |-> Cardinality(After(d))]
<1>1. IsFiniteSet(live) /\ \A d \in live : IsFiniteSet(After(d)) /\ Cardinality(After(d)) \in Nat
  <2>1. IsFiniteSet(live)
    BY DirectoryAssumption, FS_Subset DEF LiveOf
  <2> QED BY <2>1, FS_Subset, FS_CardinalityType
<1>2. left \subseteq live /\ \A d \in left : Cardinality(After(d)) < PerAccount
  <2> SUFFICES ASSUME NEW d \in left PROVE d \in live /\ Cardinality(After(d)) < PerAccount
    OBVIOUS
  <2>1. d \in Device /\ IsLive(Prune(ds, a, time)[d], time) /\ Prune(ds, a, time)[d].account = a
    BY DEF LiveOf
  <2>2. ~IsLive(NoRecord, time) /\ ~IsLive(Revoke(ds[d], time), time)
    BY <2>1, NoRecordType, RevokeFacts DEF IsLive, InStore
  <2>3. Prune(ds, a, time)[d] = ds[d] /\ d \notin Surplus(ds, a, time)
    BY <2>1, <2>2 DEF Prune
  <2>4. d \in live
    BY <2>1, <2>3 DEF LiveOf
  <2> QED BY <1>1, <2>3, <2>4, LimitsAssumption DEF Surplus
<1>3. ASSUME NEW d \in live, NEW e \in live, UsedBefore(ds[d], ds[e])
      PROVE  Cardinality(After(e)) < Cardinality(After(d))
  <2>1. /\ e \notin After(e) /\ After(e) \cup {e} \subseteq After(d)
    BY <1>3 DEF UsedBefore, LiveOf, DeviceRecord
  <2>2. Cardinality(After(e) \cup {e}) = Cardinality(After(e)) + 1
    BY <1>1, <2>1, FS_AddElement
  <2>3. Cardinality(After(e) \cup {e}) <= Cardinality(After(d))
    BY <1>1, <2>1, FS_Subset
  <2> HIDE DEF After
  <2> QED BY <1>1, <2>2, <2>3
<1>4. \A d, e \in live : d # e => UsedBefore(ds[d], ds[e]) \/ UsedBefore(ds[e], ds[d])
  BY DEF LiveOf, PlacesDiffer, IsLive, UsedBefore, DeviceRecord
<1> HIDE DEF live, left, After
<1>5. \A d, e \in left : f[d] = f[e] => d = e
  BY <1>1, <1>2, <1>3, <1>4
<1>6. f \in [left -> 0 .. PerAccount - 1]
  BY <1>1, <1>2, LimitsAssumption
<1>7. f \in Injection(left, 0 .. PerAccount - 1)
  BY <1>5, <1>6 DEF Injection, IsInjective
<1>8. IsFiniteSet(0 .. PerAccount - 1) /\ Cardinality(0 .. PerAccount - 1) = PerAccount
  BY FS_Interval, LimitsAssumption
<1>9. Cardinality(left) <= PerAccount
  BY <1>7, <1>8, FS_Injection
<1> QED BY <1>9 DEF left

(* What is not started stays where it stands, and is live only if it was. *)
LEMMA OthersLive ==
  ASSUME StoreInv, NEW d \in Device, Happens(d)
  PROVE  /\ InStore(devices'[d]) => InStore(devices[d]) /\ devices'[d].place = devices[d].place
         /\ IsLive(devices'[d], now') => IsLive(devices[d], now) /\ devices'[d].account = devices[d].account
<1>1. /\ devices[d] \in DeviceRecord /\ now \in Nat /\ now > 0
  BY DEF StoreInv, TypeOK, ClockStarted
<1>2. CASE Kept(d)
  BY <1>1, <1>2, LimitsAssumption DEF Kept, IsLive, ExpiresAt, DeviceRecord
<1>3. CASE Dropped(d) \/ Revoked(d)
  BY <1>1, <1>3, NoRecordType, RevokeFacts DEF Dropped, Revoked, IsLive, InStore
<1>4. CASE Rotated(d)
  <2>1. PICK n \in Nat : /\ Classify(devices[d], n, now) \in {"current", "grace"}
                        /\ devices'[d] = Rotate(devices[d], Classify(devices[d], n, now), now)
    BY <1>4 DEF Rotated
  <2>2. IsLive(devices[d], now) /\ InStore(devices[d])
    BY <2>1 DEF Classify
  <2> QED BY <1>1, <2>1, <2>2, RotateFacts
<1> QED BY <1>2, <1>3, <1>4 DEF Happens

(* With fewer live families an account is within its limit. *)
LEMMA FewerLive ==
  ASSUME NEW a, NEW f, NEW g, NEW time, NEW later, LiveOf(g, a, later) \subseteq LiveOf(f, a, time),
         Cardinality(LiveOf(f, a, time)) <= PerAccount
  PROVE  Cardinality(LiveOf(g, a, later)) <= PerAccount
<1>1. IsFiniteSet(LiveOf(f, a, time))
  BY DirectoryAssumption, FS_Subset DEF LiveOf
<1>2. /\ Cardinality(LiveOf(g, a, later)) <= Cardinality(LiveOf(f, a, time))
      /\ Cardinality(LiveOf(g, a, later)) \in Nat /\ Cardinality(LiveOf(f, a, time)) \in Nat
  BY <1>1, FS_Subset, FS_CardinalityType
<1> QED BY <1>2, LimitsAssumption

(* Only a sign-in adds to the live families, and it prunes. *)
LEMMA LimitStep ==
  ASSUME LimitInv, [Next]_vars
  PROVE  LimitInv'
<1>1. StoreInv' /\ StoreInv
  BY StoreStep DEF LimitInv
<1>2. CASE \A d \in Device : Happens(d)
  <2>1. PlacesDiffer(devices')
    BY <1>1, <1>2, OthersLive DEF LimitInv, PlacesDiffer
  <2>2. ASSUME NEW a \in Account PROVE Cardinality(LiveOf(devices', a, now')) <= PerAccount
    <3>1. LiveOf(devices', a, now') \subseteq LiveOf(devices, a, now)
      BY <1>1, <1>2, OthersLive DEF LiveOf
    <3> QED BY <3>1, FewerLive DEF LimitInv, WithinTheLimit
  <2> QED BY <1>1, <2>1, <2>2 DEF LimitInv, WithinTheLimit, PlacesDiffer, InStore
<1>3. ASSUME NEW a \in Account, NEW d \in Device, NEW t \in Token, NEW heard \in BOOLEAN,
             Login(a, d, t, heard)
      PROVE  LimitInv'
  <2> DEFINE made == Joined(a, d)
  <2>1. /\ devices' = Prune(made, a, now) /\ now' = now /\ d \notin minted
        /\ made \in [Device -> DeviceRecord] /\ now \in Nat /\ now > 0
    BY <1>1, <1>3, CreateFamilyType, PlaceType DEF Login, Commit, Joined, StoreInv, TypeOK, ClockStarted
  <2>2. /\ \A e \in Device \ {d} : made[e] = devices[e]
        /\ made[d].account = a /\ made[d].place = 1 + FamiliesMade
    BY <1>1, <2>1, NewFamilyIsKept DEF Joined, CreateFamily, FamiliesMade
  <2>3. \A e \in Device : InStore(devices[e]) => devices[e].place <= FamiliesMade /\ devices[e].place \in Nat
    BY <1>1 DEF StoreInv, FamiliesAreGood, Good, TypeOK, DeviceRecord
  <2> HIDE DEF made
  <2>4. PlacesDiffer(made)
    BY <2>2, <2>3, MadeFacts DEF LimitInv, PlacesDiffer
  <2>5. \A e \in Device : \/ devices'[e] = made[e]
                          \/ ~InStore(devices'[e])
                          \/ /\ devices'[e] = Revoke(made[e], now) /\ ~IsLive(devices'[e], now)
                             /\ devices'[e].place = made[e].place /\ (InStore(devices'[e]) <=> InStore(made[e]))
    BY <2>1, PruneFacts, NoRecordType, RevokeFacts DEF IsLive, InStore
  <2>6. PlacesDiffer(devices')
    BY <2>4, <2>5 DEF PlacesDiffer
  <2>7. ASSUME NEW b \in Account PROVE Cardinality(LiveOf(devices', b, now')) <= PerAccount
    <3>1. CASE b = a
      BY <2>1, <2>4, <3>1, PruneKeepsTheLimit
    <3>2. CASE b # a
      <4>1. LiveOf(devices', b, now') \subseteq LiveOf(devices, b, now)
        BY <2>1, <2>2, <2>5, <3>2 DEF LiveOf, IsLive
      <4> QED BY <4>1, FewerLive DEF LimitInv, WithinTheLimit
    <3> QED BY <3>1, <3>2
  <2> QED BY <1>1, <2>6, <2>7 DEF LimitInv, WithinTheLimit, PlacesDiffer, InStore
<1> QED BY <1>2, <1>3, EachHappens DEF LimitInv, Starts

LEMMA LimitInit == Init => LimitInv
<1> SUFFICES ASSUME Init PROVE LimitInv
  OBVIOUS
<1>1. \A d \in Device : ~InStore(devices[d])
  BY NoRecordType DEF Init
<1>2. \A a \in Account : LiveOf(devices, a, now) = {}
  BY <1>1 DEF LiveOf, IsLive
<1> QED BY <1>1, <1>2, StoreInit, FS_EmptySet, LimitsAssumption DEF LimitInv, PlacesDiffer, WithinTheLimit

(* No account ever has more live families than it may: a sign-in makes room  *)
(* for the family it starts, and nothing else brings one to life (prune in   *)
(* handleLogin, LIMITS.PER_ACCOUNT).                                         *)
THEOREM AccountsAreWithinTheLimit == Spec => []WithinTheLimit
<1>1. LimitInv => WithinTheLimit
  BY DEF LimitInv
<1> QED BY <1>1, LimitInit, LimitStep, PTL DEF Spec
=============================================================================
