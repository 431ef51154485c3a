------------------------------ MODULE RelayProofs ------------------------------
(***************************************************************************)
(* That the relay's indexes never disagree with its sessions, and that a   *)
(* closed account keeps nothing open, for any number of hosts, clients,    *)
(* addresses and connects.                                                 *)
(***************************************************************************)
EXTENDS Relay, FiniteSetTheorems, TLAPS

SessionRecord == [id : Ids, host : Hosts, aim : Addrs, active : BOOLEAN]

(* What the four variables of the engine are, as one record. *)
Engines ==
  [sessions : SUBSET SessionRecord, byClient : [Clients -> Ids \cup {NoSession}],
   byHost : [Addrs -> Ids \cup {NoSession}], lease : [Hosts -> Ids \cup {NoSession}]]

(* The indexes agree, and an id names one session: the former alone is not *)
(* inductive, since what is dropped is dropped by its id.                  *)
OneOfEachName(r) == \A s, t \in r.sessions : s.id = t.id => s = t
Agree(r) ==
  /\ \A s \in r.sessions : r.byClient[s.id.client] = s.id /\ r.lease[s.host] = s.id
  /\ \A c \in Clients : r.byClient[c] # NoSession => \E s \in r.sessions : s.id = r.byClient[c]
  /\ \A h \in Hosts : r.lease[h] # NoSession => \E s \in r.sessions : s.id = r.lease[h] /\ s.host = h
  /\ \A a \in Addrs : r.byHost[a] # NoSession => \E s \in r.sessions : s.id = r.byHost[a] /\ s.aim = a

Good(r) == r \in Engines /\ OneOfEachName(r) /\ Agree(r)

RelayInv == TypeOK /\ minted \in 0..MaxTokens /\ Good(Relay)

-----------------------------------------------------------------------------
(* What stands for no session is the name of none. *)
LEMMA NoSessionIsNone == NoSession \notin Ids
BY DEF NoSession, Ids, Tokens, None

(* Named sessions are at most one. *)
LEMMA NamedIsOne ==
  ASSUME NEW r, OneOfEachName(r), NEW id, NEW s \in Named(r, id), NEW t \in Named(r, id)
  PROVE  s = t
BY DEF OneOfEachName, Named

(* Dropping sessions takes them out of every index and leaves the rest of *)
(* each alone (relayDropSession).                                         *)
LEMMA DropIsGood ==
  ASSUME NEW r, Good(r), NEW gone \in SUBSET r.sessions
  PROVE  /\ Good(Drop(r, gone)) /\ Drop(r, gone).sessions = r.sessions \ gone
<1> DEFINE q == Drop(r, gone)
<1>1. /\ q.sessions = r.sessions \ gone
      /\ q.byClient = [c \in Clients |-> IF \E s \in gone : s.id = r.byClient[c] THEN NoSession ELSE r.byClient[c]]
      /\ q.byHost = [a \in Addrs |-> IF \E s \in gone : s.id = r.byHost[a] THEN NoSession ELSE r.byHost[a]]
      /\ q.lease = [h \in Hosts |-> IF \E s \in gone : s.id = r.lease[h] THEN NoSession ELSE r.lease[h]]
  BY DEF Drop, Good, Engines
<1>2. q \in Engines
  BY DEF Drop, Good, Engines
<1>3. OneOfEachName(q)
  BY <1>1 DEF Good, OneOfEachName
<1>4. \A s \in q.sessions : \A t \in gone : t.id # s.id
  BY <1>1 DEF Good, OneOfEachName
<1>5. \A s \in q.sessions : q.byClient[s.id.client] = s.id /\ q.lease[s.host] = s.id
  BY <1>1, <1>4 DEF Good, Agree, Engines, SessionRecord, Ids
<1>6. \A c \in Clients : q.byClient[c] # NoSession => \E s \in q.sessions : s.id = q.byClient[c]
  BY <1>1 DEF Good, Agree
<1>7. \A h \in Hosts : q.lease[h] # NoSession => \E s \in q.sessions : s.id = q.lease[h] /\ s.host = h
  BY <1>1 DEF Good, Agree
<1>8. \A a \in Addrs : q.byHost[a] # NoSession => \E s \in q.sessions : s.id = q.byHost[a] /\ s.aim = a
  BY <1>1 DEF Good, Agree
<1> QED BY <1>1, <1>2, <1>3, <1>5, <1>6, <1>7, <1>8 DEF Good, Agree

(* A new session has its client, its host and its address to itself         *)
(* (relayBindSession).                                                      *)
LEMMA BindIsGood ==
  ASSUME NEW r, Good(r), NEW id \in Ids, NEW h \in Hosts, NEW aim \in Addrs, r.byClient[id.client] # id
  PROVE  /\ Good(Bind(r, id, h, aim))
         /\ \A s \in Bind(r, id, h, aim).sessions : s.host = h \/ s \in r.sessions
<1> DEFINE gone == Named(r, r.lease[h]) \cup Named(r, r.byClient[id.client])
           p == Drop(r, gone)
           q == Bind(r, id, h, aim)
           new == [id |-> id, host |-> h, aim |-> aim, active |-> FALSE]
<1>1. Good(p) /\ p.sessions = r.sessions \ gone
  BY DropIsGood DEF Named
<1>2. /\ q.sessions = p.sessions \cup {new}
      /\ q.byClient = [p.byClient EXCEPT ![id.client] = id]
      /\ q.byHost = [p.byHost EXCEPT ![aim] = id]
      /\ q.lease = [p.lease EXCEPT ![h] = id]
  BY DEF Bind
<1>3. new \in SessionRecord /\ new.id = id /\ new.host = h /\ new.aim = aim
  BY DEF SessionRecord
<1>4. q \in Engines
  BY <1>1, <1>3 DEF Bind, Good, Engines, Ids
<1>5. \A s \in p.sessions : s.id # id /\ s.id.client # id.client /\ s.host # h
  BY <1>1 DEF Good, Agree, Named
<1>6. OneOfEachName(q)
  BY <1>1, <1>2, <1>3, <1>5 DEF Good, OneOfEachName
<1>12. /\ \A c \in Clients : q.byClient[c] = IF c = id.client THEN id ELSE p.byClient[c]
       /\ \A g \in Hosts : q.lease[g] = IF g = h THEN id ELSE p.lease[g]
       /\ \A a \in Addrs : q.byHost[a] = IF a = aim THEN id ELSE p.byHost[a]
  BY <1>1, <1>2 DEF Good, Engines
<1>13. \A s \in p.sessions : s.id.client \in Clients /\ s.host \in Hosts
  BY <1>1 DEF Good, Engines, SessionRecord, Ids
<1>14. id.client \in Clients
  BY DEF Ids
<1> HIDE DEF p, q, new, gone
<1>7. \A s \in q.sessions : q.byClient[s.id.client] = s.id /\ q.lease[s.host] = s.id
  <2> SUFFICES ASSUME NEW s \in q.sessions PROVE q.byClient[s.id.client] = s.id /\ q.lease[s.host] = s.id
    OBVIOUS
  <2>1. CASE s = new
    BY <2>1, <1>3, <1>12, <1>14
  <2>2. CASE s \in p.sessions
    BY <2>2, <1>1, <1>5, <1>12, <1>13 DEF Good, Agree
  <2> QED BY <2>1, <2>2, <1>2
<1>8. \A c \in Clients : q.byClient[c] # NoSession => \E s \in q.sessions : s.id = q.byClient[c]
  BY <1>1, <1>2, <1>3, <1>12 DEF Good, Agree
<1>9. \A g \in Hosts : q.lease[g] # NoSession => \E s \in q.sessions : s.id = q.lease[g] /\ s.host = g
  BY <1>1, <1>2, <1>3, <1>12 DEF Good, Agree
<1>10. \A a \in Addrs : q.byHost[a] # NoSession => \E s \in q.sessions : s.id = q.byHost[a] /\ s.aim = a
  BY <1>1, <1>2, <1>3, <1>12 DEF Good, Agree
<1>11. \A s \in q.sessions : s.host = h \/ s \in r.sessions
  BY <1>1, <1>2, <1>3
<1> QED BY <1>4, <1>6, <1>7, <1>8, <1>9, <1>10, <1>11 DEF Good, Agree, q

(* A session that follows its host drops what was at the new address, and is *)
(* found there and nowhere else (relayFollowHostWire).                       *)
LEMMA FollowIsGood ==
  ASSUME NEW r, Good(r), NEW h \in Hosts, NEW aim \in Addrs
  PROVE  /\ Good(Follow(r, h, aim))
         /\ \A s \in Follow(r, h, aim).sessions : \E t \in r.sessions : s.host = t.host
<1> DEFINE mine == Named(r, r.lease[h])
           gone == Named(r, r.byHost[aim]) \ mine
           p == Drop(r, gone)
           q == Follow(r, h, aim)
<1>1. CASE \A s \in mine : s.aim = aim
  BY <1>1 DEF Follow
<1>2. CASE ~ \A s \in mine : s.aim = aim
  <2>1. PICK m \in r.sessions : m.id = r.lease[h]
    BY <1>2 DEF Named
  <2> DEFINE moved == [m EXCEPT !.aim = aim]
  <2>2. mine = {m}
    BY <2>1, NamedIsOne DEF Good, Named
  <2>3. Good(p) /\ p.sessions = r.sessions \ gone
    BY DropIsGood DEF Named
  <2>4. m \in p.sessions /\ m.id \in Ids /\ m.host = h /\ m \in SessionRecord
    <3>1. m \in SessionRecord /\ m.id \in Ids
      BY DEF Good, Engines, SessionRecord
    <3>2. \E s \in r.sessions : s.id = r.lease[h] /\ s.host = h
      BY <2>1, <3>1, NoSessionIsNone DEF Good, Agree
    <3> QED BY <2>1, <2>2, <2>3, <3>1, <3>2 DEF Good, OneOfEachName
  <2>5. moved \in SessionRecord /\ moved.id = m.id /\ moved.host = m.host /\ moved.aim = aim
    BY <2>4 DEF SessionRecord
  <2>6. /\ q.sessions = (p.sessions \ {m}) \cup {moved}
        /\ q.byClient = p.byClient /\ q.lease = p.lease
        /\ q.byHost = [Unindex(p.byHost, m.id) EXCEPT ![aim] = m.id]
    BY <1>2, <2>1, <2>2 DEF Follow
  <2>7. \A a \in Addrs : q.byHost[a] = IF a = aim THEN m.id ELSE IF p.byHost[a] = m.id THEN NoSession ELSE p.byHost[a]
    BY <2>3, <2>6 DEF Good, Engines, Unindex
  <2>8. q \in Engines
    <3>1. q = [p EXCEPT !.sessions = (p.sessions \ {m}) \cup {moved},
                        !.byHost = [Unindex(p.byHost, m.id) EXCEPT ![aim] = m.id]]
      BY <1>2, <2>1, <2>2 DEF Follow
    <3>2. (p.sessions \ {m}) \cup {moved} \in SUBSET SessionRecord
      BY <2>3, <2>5 DEF Good, Engines
    <3>3. [Unindex(p.byHost, m.id) EXCEPT ![aim] = m.id] \in [Addrs -> Ids \cup {NoSession}]
      BY <2>3, <2>4 DEF Good, Engines, Unindex
    <3> HIDE DEF p, q, moved
    <3> QED BY <2>3, <3>1, <3>2, <3>3 DEF Good, Engines
  <2>9. \A s \in p.sessions : s.id = m.id => s = m
    BY <2>3, <2>4 DEF Good, OneOfEachName
  <2> HIDE DEF p, q, gone, mine, moved
  <2>10. OneOfEachName(q)
    BY <2>3, <2>5, <2>6, <2>9 DEF Good, OneOfEachName
  <2>11. \A s \in q.sessions : q.byClient[s.id.client] = s.id /\ q.lease[s.host] = s.id
    BY <2>3, <2>4, <2>5, <2>6 DEF Good, Agree
  <2>12. \A c \in Clients : q.byClient[c] # NoSession => \E s \in q.sessions : s.id = q.byClient[c]
    BY <2>3, <2>5, <2>6 DEF Good, Agree
  <2>13. \A g \in Hosts : q.lease[g] # NoSession => \E s \in q.sessions : s.id = q.lease[g] /\ s.host = g
    BY <2>3, <2>5, <2>6 DEF Good, Agree
  <2>14. \A a \in Addrs : q.byHost[a] # NoSession => \E s \in q.sessions : s.id = q.byHost[a] /\ s.aim = a
    BY <2>3, <2>5, <2>6, <2>7 DEF Good, Agree
  <2>15. \A s \in q.sessions : \E t \in r.sessions : s.host = t.host
    BY <2>3, <2>5, <2>6
  <2> QED BY <2>8, <2>10, <2>11, <2>12, <2>13, <2>14, <2>15 DEF Good, Agree, q
<1> QED BY <1>1, <1>2

Activated(r, id) ==
  [r EXCEPT !.sessions = {IF s.id = id THEN [s EXCEPT !.active = TRUE] ELSE s : s \in r.sessions}]

(* A session that becomes active is the session it was (relayHandleHostPacket). *)
LEMMA ActivateIsGood ==
  ASSUME NEW r, Good(r), NEW id
  PROVE  /\ Good(Activated(r, id))
         /\ \A s \in Activated(r, id).sessions : \E t \in r.sessions : s.host = t.host
<1> DEFINE q == Activated(r, id)
           Now(s) == IF s.id = id THEN [s EXCEPT !.active = TRUE] ELSE s
<1>1. /\ q.sessions = {Now(s) : s \in r.sessions} /\ q.byClient = r.byClient
      /\ q.byHost = r.byHost /\ q.lease = r.lease
  BY DEF Activated, Good, Engines
<1>2. \A s \in r.sessions : /\ Now(s) \in SessionRecord /\ Now(s).id = s.id /\ Now(s).host = s.host
                            /\ Now(s).aim = s.aim
  BY DEF Good, Engines, SessionRecord
<1>3. q \in Engines
  <2>1. {Now(s) : s \in r.sessions} \in SUBSET SessionRecord
    BY <1>2
  <2> QED BY <2>1 DEF Activated, Good, Engines
<1> HIDE DEF Now, q
<1>4. OneOfEachName(q)
  BY <1>1, <1>2 DEF Good, OneOfEachName
<1>5. Agree(q)
  BY <1>1, <1>2 DEF Good, Agree
<1> QED BY <1>1, <1>2, <1>3, <1>4, <1>5 DEF Good, q

-----------------------------------------------------------------------------
(* The invariant of the whole *)

Rest == /\ where \in [Hosts -> Addrs \cup {Off}] /\ held \in [Hosts -> SUBSET Tokens]
        /\ acks \subseteq Hosts \X Tokens /\ active \in [Hosts -> BOOLEAN]
        /\ host \in [Hosts -> [aim : Addrs \cup {Off}, fresh : BOOLEAN]]
        /\ pendingPunch \in [Hosts -> SUBSET Tokens] /\ aged \subseteq Tokens
        /\ auth \subseteq [token : Tokens, host : Hosts, ip : Ips]
        /\ latest \in [Hosts -> Tokens \cup {None}]
        /\ minted \in 0..MaxTokens

Timers == /\ resend \in [Hosts -> {Idle} \cup [token : Tokens, sent : 0..WAKE_RESEND_MAX]]
          /\ Cardinality({h \in Hosts : resend[h] # Idle}) <= WAKE_RESEND_MAX_TIMERS

LEMMA TypesAre == TypeOK /\ minted \in 0..MaxTokens /\ Relay \in Engines <=> Rest /\ Timers /\ Relay \in Engines
BY DEF TypeOK, Rest, Timers, Relay, Engines, SessionRecord

LEMMA RelayInit == Init => RelayInv /\ ClosedHostHasNothing
<1> SUFFICES ASSUME Init PROVE RelayInv /\ ClosedHostHasNothing
  OBVIOUS
<1>1. Rest
  BY RelayConstants DEF Init, Rest
<1>2. Timers
  <2>1. {h \in Hosts : resend[h] # Idle} = {}
    BY DEF Init
  <2>2. Cardinality({h \in Hosts : resend[h] # Idle}) <= WAKE_RESEND_MAX_TIMERS
    BY <2>1, FS_EmptySet, RelayConstants
  <2>3. resend \in [Hosts -> {Idle} \cup [token : Tokens, sent : 0..WAKE_RESEND_MAX]]
    BY DEF Init
  <2> QED BY <2>2, <2>3 DEF Timers
<1>3. Good(Relay)
  BY DEF Init, Good, OneOfEachName, Agree, Relay, Engines
<1>4. ClosedHostHasNothing
  BY DEF Init, ClosedHostHasNothing
<1> QED BY <1>1, <1>2, <1>3, <1>4, TypesAre DEF RelayInv, Good

(* Timers only ever go off, count or are taken over where there were as many *)
(* before, but for one that finds room (startWakeResend).                    *)
LEMMA FewerTimers ==
  ASSUME Timers, NEW f \in [Hosts -> {Idle} \cup [token : Tokens, sent : 0..WAKE_RESEND_MAX]],
         \A h \in Hosts : f[h] # Idle => resend[h] # Idle
  PROVE  Cardinality({h \in Hosts : f[h] # Idle}) <= WAKE_RESEND_MAX_TIMERS
<1> DEFINE A == {h \in Hosts : f[h] # Idle}
           B == {h \in Hosts : resend[h] # Idle}
<1>1. IsFiniteSet(B) /\ A \subseteq B
  BY RelayConstants, FS_Subset
<1>2. Cardinality(A) <= Cardinality(B) /\ Cardinality(A) \in Nat /\ Cardinality(B) \in Nat
  BY <1>1, FS_Subset, FS_CardinalityType
<1> QED BY <1>2, RelayConstants DEF Timers

LEMMA ArmedIsATimer ==
  ASSUME Timers, NEW h \in Hosts, NEW t \in Tokens, resend' = Armed(h, t)
  PROVE  Timers'
<1> DEFINE B == {g \in Hosts : resend[g] # Idle}
           f == [resend EXCEPT ![h] = [token |-> t, sent |-> 0]]
<1>1. CASE resend[h] = Idle /\ Cardinality(B) >= WAKE_RESEND_MAX_TIMERS
  BY <1>1 DEF Armed, Timers
<1>2. CASE ~(resend[h] = Idle /\ Cardinality(B) >= WAKE_RESEND_MAX_TIMERS)
  <2>1. resend' = f
    BY <1>2 DEF Armed
  <2>2. f \in [Hosts -> {Idle} \cup [token : Tokens, sent : 0..WAKE_RESEND_MAX]]
    BY RelayConstants DEF Timers
  <2>3. CASE resend[h] # Idle
    BY ZenonT(30), <2>1, <2>2, <2>3, FewerTimers DEF Timers
  <2>4. CASE resend[h] = Idle
    <3>1. IsFiniteSet(B) /\ Cardinality(B) \in Nat
      BY RelayConstants, FS_Subset, FS_CardinalityType
    <3>2. Cardinality(B) + 1 <= WAKE_RESEND_MAX_TIMERS
      BY <1>2, <2>4, <3>1, RelayConstants
    <3>3. {g \in Hosts : f[g] # Idle} \subseteq B \cup {h}
      BY DEF Timers
    <3>4. Cardinality(B \cup {h}) <= Cardinality(B) + 1 /\ IsFiniteSet(B \cup {h})
          /\ Cardinality(B \cup {h}) \in Nat
      <4>1. h \notin B
        BY <2>4
      <4>2. IsFiniteSet(B \cup {h}) /\ Cardinality(B \cup {h}) = Cardinality(B) + 1
        BY <3>1, <4>1, FS_AddElement
      <4> QED BY <3>1, <4>2
    <3>5. Cardinality({g \in Hosts : f[g] # Idle}) <= Cardinality(B \cup {h})
          /\ Cardinality({g \in Hosts : f[g] # Idle}) \in Nat
      BY <3>3, <3>4, FS_Subset, FS_CardinalityType
    <3>6. Cardinality({g \in Hosts : f[g] # Idle}) <= WAKE_RESEND_MAX_TIMERS
      BY <3>1, <3>2, <3>4, <3>5, RelayConstants
    <3> QED BY <2>1, <2>2, <3>6 DEF Timers
  <2> QED BY <2>3, <2>4
<1> QED BY <1>1, <1>2

(* What is good of the relay is good of the variables it is made of. *)
LEMMA BecomesGood ==
  ASSUME NEW r, Good(r), Becomes(r)
  PROVE  Good(Relay)' /\ Relay' = r
<1>1. r = [sessions |-> r.sessions, byClient |-> r.byClient, byHost |-> r.byHost, lease |-> r.lease]
  BY DEF Good, Engines
<1>2. Relay' = r
  BY <1>1 DEF Becomes, Relay
<1> QED BY <1>2 DEF Good, OneOfEachName, Agree

LEMMA EngineKept == ASSUME Good(Relay), UNCHANGED engine PROVE Good(Relay)'
BY DEF engine, Relay, Good, OneOfEachName, Agree

(* The whole that every step preserves. *)
Inv == RelayInv /\ ClosedHostHasNothing
Parts == Rest /\ Timers /\ Good(Relay)

LEMMA InvParts == (Parts <=> RelayInv) /\ (Parts' <=> RelayInv')
<1>1. Parts <=> RelayInv
  BY TypesAre DEF Parts, RelayInv, Good
<1>2. (Parts <=> RelayInv)'
  BY <1>1, PTL
<1> QED BY <1>1, <1>2

LEMMA ConnectStep ==
  ASSUME Inv, NEW c \in Clients, NEW h \in Hosts, NEW eligible \in BOOLEAN, Connect(c, h, eligible)
  PROVE  Inv'
<1> USE InvParts DEF Inv, Parts
<1>1. minted + 1 \in Tokens /\ minted' = minted + 1 /\ minted' \in 0..MaxTokens /\ active[h]
  BY RelayConstants DEF Connect, Rest, Tokens
<1>2. auth' \subseteq [token : Tokens, host : Hosts, ip : Ips] /\ latest' \in [Hosts -> Tokens \cup {None}]
      /\ (\A a \in auth' : a \in auth \/ a.host = h) /\ (\A g \in Hosts : g # h => latest'[g] = latest[g])
  <2>1. [token |-> minted + 1, host |-> h, ip |-> IpOf[c]] \in [token : Tokens, host : Hosts, ip : Ips]
    BY <1>1, RelayConstants
  <2>2. CASE eligible
    BY <1>1, <2>1, <2>2 DEF Connect, Rest
  <2>3. CASE ~eligible
    BY <2>3 DEF Connect, Rest
  <2> QED BY <2>2, <2>3
<1>3. Timers' /\ \A g \in Hosts : g # h => resend'[g] = resend[g]
  <2>1. resend' = Armed(h, minted + 1)
    BY DEF Connect
  <2>2. Timers'
    BY <1>1, <2>1, ArmedIsATimer
  <2> QED BY <2>1, <2>2 DEF Armed, Timers
<1>4. Rest'
  BY <1>1, <1>2 DEF Connect, Rest, world
<1>5. Good(Relay)'
  BY EngineKept DEF Connect
<1>6. ClosedHostHasNothing'
  BY <1>1, <1>2, <1>3 DEF Connect, ClosedHostHasNothing, Rest, engine
<1> QED BY <1>3, <1>4, <1>5, <1>6

LEMMA HelloStep ==
  ASSUME Inv, NEW c \in Clients, NEW token \in Tokens, Hello(c, token)
  PROVE  Inv'
<1> USE InvParts DEF Inv, Parts
<1> DEFINE id == [token |-> token, client |-> c]
<1>1. \A aim : Answered(token, aim) \subseteq Hosts \X Tokens
  BY DEF Answered
<1>2. Rest'
  BY <1>1 DEF Hello, Rest, minting
<1>3. Timers'
  BY DEF Hello, Timers
<1>4. Good(Relay)' /\ \A s \in sessions' : active[s.host] \/ s \in sessions
  <2>1. CASE UNCHANGED engine
    BY <2>1, EngineKept DEF engine
  <2>2. CASE /\ byClient[c] # id
             /\ \E a \in auth : MayBind(c, a) /\ Becomes(Bind(Relay, id, a.host, host[a.host].aim))
    <3>1. PICK a \in auth : MayBind(c, a) /\ Becomes(Bind(Relay, id, a.host, host[a.host].aim))
      BY <2>2
    <3>2. a.host \in Hosts /\ host[a.host].aim \in Addrs /\ active[a.host]
      BY <3>1 DEF Rest, MayBind
    <3>3. id \in Ids /\ Relay.byClient[id.client] # id /\ Relay.sessions = sessions
      BY <2>2 DEF Ids, Relay
    <3>4. Good(Bind(Relay, id, a.host, host[a.host].aim))
          /\ \A s \in Bind(Relay, id, a.host, host[a.host].aim).sessions : s.host = a.host \/ s \in sessions
      BY <3>2, <3>3, BindIsGood
    <3>5. sessions' = Bind(Relay, id, a.host, host[a.host].aim).sessions
      BY <3>1 DEF Becomes
    <3> QED BY <3>1, <3>2, <3>4, <3>5, BecomesGood
  <2> QED BY <2>1, <2>2 DEF Hello
<1>5. ClosedHostHasNothing'
  BY <1>4 DEF Hello, ClosedHostHasNothing, minting
<1> QED BY <1>2, <1>3, <1>4, <1>5

LEMMA HostAckStep ==
  ASSUME Inv, NEW h \in Hosts, NEW token \in Tokens, HostAck(h, token)
  PROVE  Inv'
<1> USE InvParts DEF Inv, Parts
<1>1. Rest' /\ Timers'
  BY DEF HostAck, Rest, Timers, world, minting
<1> DEFINE q == Activated(Relay, byHost[where[h]])
<1>2. Good(q) /\ \A s \in q.sessions : \E t \in sessions : s.host = t.host
  <2>1. Relay.sessions = sessions
    BY DEF Relay
  <2> QED BY <2>1, ActivateIsGood
<1>3. Becomes(q)
  BY DEF HostAck, Relay, Becomes, Activated
<1>4. sessions' = q.sessions
  BY <1>3 DEF Becomes
<1>5. ClosedHostHasNothing'
  BY <1>2, <1>4 DEF HostAck, ClosedHostHasNothing, minting
<1> QED BY <1>1, <1>2, <1>3, <1>5, BecomesGood

LEMMA HeartbeatStep ==
  ASSUME Inv, NEW h \in Hosts, Heartbeat(h)
  PROVE  Inv'
<1> USE InvParts DEF Inv, Parts
<1>1. where[h] \in Addrs
  BY DEF Heartbeat, Rest
<1>2. Rest'
  BY <1>1 DEF Heartbeat, Rest
<1>3. Timers' /\ \A g \in Hosts : resend[g] = Idle => resend'[g] = Idle
  <2>1. CASE resend' = resend
    BY <2>1 DEF Timers
  <2>2. CASE resend' = [resend EXCEPT ![h] = Idle]
    BY <2>2, FewerTimers DEF Timers
  <2> QED BY <2>1, <2>2 DEF Heartbeat
<1>4. Good(Relay)' /\ \A s \in sessions' : \E t \in sessions : s.host = t.host
  <2>1. Becomes(Follow(Relay, h, where[h]))
    BY DEF Heartbeat
  <2>2. Relay.sessions = sessions /\ sessions' = Follow(Relay, h, where[h]).sessions
    BY <2>1 DEF Relay, Becomes
  <2> QED BY <1>1, <2>1, <2>2, FollowIsGood, BecomesGood
<1>5. /\ active' = active /\ auth' = auth /\ latest' = latest
      /\ \A g \in Hosts : pendingPunch[g] = {} => pendingPunch'[g] = {}
  BY DEF Heartbeat, Rest
<1>6. ClosedHostHasNothing'
  BY <1>3, <1>4, <1>5 DEF ClosedHostHasNothing
<1> QED BY <1>2, <1>3, <1>4, <1>6

LEMMA TickStep == ASSUME Inv, NEW h \in Hosts, Tick(h) PROVE Inv'
<1> USE InvParts DEF Inv, Parts
<1>1. Rest' /\ Good(Relay)'
  BY EngineKept DEF Tick, Rest, world, minting
<1>2. resend' \in [Hosts -> {Idle} \cup [token : Tokens, sent : 0..WAKE_RESEND_MAX]]
  <2>1. CASE MayWake(h)
    <3>1. resend[h] \in [token : Tokens, sent : 0..WAKE_RESEND_MAX] /\ resend[h].sent < WAKE_RESEND_MAX
      BY <2>1 DEF Tick, Timers, MayWake
    <3>2. resend' = [resend EXCEPT ![h].sent = @ + 1]
      BY <2>1 DEF Tick, Ticked
    <3> QED BY <3>1, <3>2, RelayConstants DEF Timers
  <2>2. CASE ~MayWake(h)
    BY <2>2 DEF Tick, Ticked, Timers
  <2> QED BY <2>1, <2>2
<1>3. \A g \in Hosts : resend[g] = Idle => resend'[g] = Idle
  BY DEF Tick, Ticked, Timers
<1>4. Timers'
  BY <1>2, <1>3, FewerTimers DEF Timers
<1>5. ClosedHostHasNothing'
  BY <1>3 DEF Tick, ClosedHostHasNothing, minting, engine
<1> QED BY <1>1, <1>4, <1>5

(* Sweeps, expiries, silence and moves. *)
LEMMA TimeStep ==
  ASSUME Inv,
         \/ \E s \in sessions : SweepSession(s)
         \/ \E a \in auth : AuthExpires(a)
         \/ \E h \in Hosts : \/ HostSilent(h) \/ HostMoves(h)
                            \/ \E t \in pendingPunch[h] \ aged : PunchExpires(h, t)
  PROVE  Inv'
<1> USE InvParts DEF Inv, Parts
<1>1. ASSUME NEW s \in sessions, SweepSession(s) PROVE Inv'
  <2>1. Good(Drop(Relay, {s})) /\ Drop(Relay, {s}).sessions = sessions \ {s}
    <3>1. Relay.sessions = sessions
      BY DEF Relay
    <3> QED BY <3>1, DropIsGood
  <2>2. Good(Relay)' /\ sessions' = sessions \ {s}
    BY <1>1, <2>1, BecomesGood DEF SweepSession, Becomes
  <2>3. Rest' /\ Timers' /\ ClosedHostHasNothing'
    BY <1>1, <2>2 DEF SweepSession, Rest, Timers, ClosedHostHasNothing, world, minting
  <2> QED BY <2>2, <2>3
<1>2. ASSUME NEW a \in auth, AuthExpires(a) PROVE Inv'
  BY <1>2, EngineKept DEF AuthExpires, Rest, Timers, ClosedHostHasNothing, world, engine
<1>3. ASSUME NEW h \in Hosts, HostSilent(h) PROVE Inv'
  <2>1. host' \in [Hosts -> [aim : Addrs \cup {Off}, fresh : BOOLEAN]]
    BY <1>3 DEF HostSilent, Rest
  <2>2. UNCHANGED <<world, active, minting, resend, engine>>
    BY <1>3 DEF HostSilent
  <2> QED BY <2>1, <2>2, EngineKept DEF Rest, Timers, ClosedHostHasNothing, world, minting, engine
<1>4. ASSUME NEW h \in Hosts, HostMoves(h) PROVE Inv'
  <2>1. where' \in [Hosts -> Addrs \cup {Off}]
    BY <1>4 DEF HostMoves, Rest
  <2> QED BY <1>4, <2>1, EngineKept DEF HostMoves, Rest, Timers, ClosedHostHasNothing, minting, engine
<1>5. ASSUME NEW h \in Hosts, NEW t \in pendingPunch[h] \ aged, PunchExpires(h, t) PROVE Inv'
  <2>1. Rest' /\ Timers' /\ \A g \in Hosts : pendingPunch'[g] \subseteq pendingPunch[g]
    BY <1>5 DEF PunchExpires, Rest, Timers, world
  <2>2. ClosedHostHasNothing'
    BY <1>5, <2>1 DEF PunchExpires, ClosedHostHasNothing, engine
  <2>3. Good(Relay)'
    BY <1>5, EngineKept DEF PunchExpires
  <2> QED BY <2>1, <2>2, <2>3
<1> QED BY <1>1, <1>2, <1>3, <1>4, <1>5

(* The account closes, or is enabled again. *)
LEMMA AccountStep ==
  ASSUME Inv, NEW h \in Hosts, Enable(h) \/ \E stays \in BOOLEAN : Close(h, stays)
  PROVE  Inv'
<1> USE InvParts DEF Inv, Parts
<1>1. CASE Enable(h)
  BY <1>1, EngineKept DEF Enable, Rest, Timers, ClosedHostHasNothing, world, minting, engine
<1>2. ASSUME NEW stays \in BOOLEAN, Close(h, stays) PROVE Inv'
  <2> DEFINE gone == {s \in sessions : s.host = h}
  <2>1. Relay.sessions = sessions
    BY DEF Relay
  <2>2. Good(Relay)' /\ sessions' = sessions \ gone
    BY <1>2, <2>1, DropIsGood, BecomesGood DEF Close, CloseHostNow, Becomes
  <2>3. Rest'
    BY <1>2 DEF Close, CloseHostNow, Rest, world
  <2>4. Timers'
    BY <1>2, FewerTimers DEF Close, CloseHostNow, Timers
  <2>5. ClosedHostHasNothing'
    BY <1>2, <2>2 DEF Close, CloseHostNow, ClosedHostHasNothing, Rest, Timers
  <2> QED BY <2>2, <2>3, <2>4, <2>5
<1> QED BY <1>1, <1>2

LEMMA RelayStep == Inv /\ [Next]_vars => Inv'
<1> SUFFICES ASSUME Inv, [Next]_vars PROVE Inv'
  OBVIOUS
<1>1. ASSUME NEW h \in Hosts, HostStep(h) PROVE Inv'
  BY <1>1, HeartbeatStep, TimeStep, TickStep, AccountStep, HostAckStep DEF HostStep
<1>2. ASSUME NEW c \in Clients, NEW h \in Hosts, NEW eligible \in BOOLEAN, Connect(c, h, eligible) PROVE Inv'
  BY <1>2, ConnectStep
<1>3. ASSUME NEW c \in Clients, NEW t \in Tokens, Hello(c, t) PROVE Inv'
  BY <1>3, HelloStep
<1>4. CASE (\E s \in sessions : SweepSession(s)) \/ (\E a \in auth : AuthExpires(a))
  BY <1>4, TimeStep
<1>5. CASE UNCHANGED vars
  BY <1>5, InvParts, EngineKept
     DEF vars, world, minting, engine, Inv, Parts, Rest, Timers, ClosedHostHasNothing
<1> QED BY <1>1, <1>2, <1>3, <1>4, <1>5 DEF Next

LEMMA RelayInvariant == Spec => []Inv
BY RelayInit, RelayStep, PTL DEF Spec, Inv

(* Every variable of the relay always holds a value of its kind, and no more *)
(* timers run than the directory allows (WAKE_RESEND_MAX_TIMERS).            *)
THEOREM RelayTypes == Spec => []TypeOK
<1>1. Inv => TypeOK
  BY DEF Inv, RelayInv
<1> QED BY <1>1, RelayInvariant, PTL

(* The maps are only indexes: whatever is bound, moved, dropped or closed,   *)
(* each session has its client and its host to itself, and no map names one  *)
(* that is over or elsewhere (relayBindSession, relayFollowHostWire,         *)
(* relayDropSession).                                                        *)
THEOREM TheIndexesAgree == Spec => []IndexesAgree
<1>1. Inv => IndexesAgree
  BY DEF Inv, RelayInv, Good, Agree, Relay, IndexesAgree
<1> QED BY <1>1, RelayInvariant, PTL

(* What is open for a host ends with its account, and no request that was   *)
(* under way opens it again (closeHostsNow).                                *)
THEOREM NothingStaysOpen == Spec => []ClosedHostHasNothing
<1>1. Inv => ClosedHostHasNothing
  BY DEF Inv
<1> QED BY <1>1, RelayInvariant, PTL
=============================================================================
