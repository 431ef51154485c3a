-------------------------------- MODULE Relay --------------------------------
(***************************************************************************)
(* The relay of the directory (src/apps/directory/server.js): a connect    *)
(* mints a capability for a host, which its next heartbeat collects and a  *)
(* timer keeps waking it for; a Hello that bears the capability binds a    *)
(* session, the host's answer makes it active, and four indexes find it.   *)
(*                                                                         *)
(* Node runs one handler at a time, so each action is one whole handler.   *)
(* A token is its number in the order of minting.  Every token expires,    *)
(* every client falls silent and every datagram or answer may be lost, at  *)
(* any time: time itself is left out.  The token of a session and its      *)
(* client's endpoint name it.                                              *)
(***************************************************************************)
EXTENDS Naturals, FiniteSets

CONSTANTS
  Hosts, Clients,   \* registered hosts; UDP endpoints of clients
  Ips, IpOf,        \* the address each endpoint is at
  Addrs,            \* endpoints a host can be at
  MaxTokens,        \* bound: connects
  MaxMoves,         \* bound: times hosts change their endpoint
  MaxCloses,        \* bound: times the sessions of an account are closed
  WAKE_RESEND_MAX, WAKE_RESEND_MAX_TIMERS

ASSUME RelayConstants ==
  /\ IsFiniteSet(Hosts)
  /\ IpOf \in [Clients -> Ips]
  /\ {MaxTokens, MaxMoves, MaxCloses, WAKE_RESEND_MAX, WAKE_RESEND_MAX_TIMERS} \subseteq Nat

VARIABLES
  where,      \* where each host's socket is; Off when it does not run
  held,       \* capabilities each host holds
  acks,       \* answers of hosts to Hellos, in flight: <<host, token>>
  active,     \* accounts.hostIsActive
  host,       \* what the last heartbeat said: the address our datagrams go to, and whether it is recent
  pendingPunch, aged,   \* capabilities that wait for each host; those that waited too long
  auth, latest,         \* relayAuthByToken and relayLatestTokenByHost
  resend,     \* wakeResendByHost
  sessions, byClient, byHost, lease,   \* relaySessions and the indexes into it
  minted, moves, closes                \* counters: capabilities minted, and two bounds

world == <<where, held, acks>>
engine == <<sessions, byClient, byHost, lease>>
minting == <<pendingPunch, aged, auth, latest, minted>>
vars == <<world, active, host, minting, resend, engine, moves, closes>>

Tokens == 1..MaxTokens
None == 0
Off == "off"
NoSession == [token |-> None]
Ids == [token : Tokens, client : Clients]

Idle == [token |-> None, sent |-> 0]

Init ==
  /\ \E at \in [Hosts -> Addrs] : (\A g, h \in Hosts : at[g] = at[h] => g = h) /\ where = at
  /\ held = [h \in Hosts |-> {}] /\ acks = {}
  /\ active = [h \in Hosts |-> TRUE]
  /\ host = [h \in Hosts |-> [aim |-> Off, fresh |-> FALSE]]
  /\ pendingPunch = [h \in Hosts |-> {}] /\ aged = {} /\ auth = {}
  /\ latest = [h \in Hosts |-> None]
  /\ resend = [h \in Hosts |-> Idle]
  /\ sessions = {} /\ byClient = [c \in Clients |-> NoSession]
  /\ byHost = [a \in Addrs |-> NoSession] /\ lease = [h \in Hosts |-> NoSession]
  /\ minted = 0 /\ moves = 0 /\ closes = 0

-----------------------------------------------------------------------------
(* Sessions: a record of the id, the host, its address, and the state.      *)
(* "r" is the relay: the four variables of the engine as a record, so that  *)
(* one handler can drop some sessions and bind another.                     *)

Relay == [sessions |-> sessions, byClient |-> byClient, byHost |-> byHost, lease |-> lease]

Becomes(r) ==
  /\ sessions' = r.sessions /\ byClient' = r.byClient /\ byHost' = r.byHost /\ lease' = r.lease

Named(r, id) == {s \in r.sessions : s.id = id}

Unindex(map, id) == [k \in DOMAIN map |-> IF map[k] = id THEN NoSession ELSE map[k]]

(* relayDropSession, for every session of a set *)
Drop(r, gone) ==
  LET Without(map) == [k \in DOMAIN map |-> IF \E s \in gone : s.id = map[k] THEN NoSession ELSE map[k]]
  IN [sessions |-> r.sessions \ gone, byClient |-> Without(r.byClient),
      byHost |-> Without(r.byHost), lease |-> Without(r.lease)]

(* A bug: the address is changed first, and the entry of the old one stays. *)
FollowOldEntryStays(r, h, aim) ==
  LET mine == Named(r, r.lease[h])
      cleared == Drop(r, Named(r, r.byHost[aim]) \ mine)
  IN IF \A s \in mine : s.aim = aim THEN r
     ELSE [cleared EXCEPT
             !.sessions = (@ \ mine) \cup {[s EXCEPT !.aim = aim] : s \in mine},
             !.byHost = [@ EXCEPT ![aim] = r.lease[h]]]

(* relayFollowHostWire: the host's session follows it to the address of its *)
(* heartbeat, and whatever session was there is dropped.                    *)
Follow(r, h, aim) ==
  LET mine == Named(r, r.lease[h])
      cleared == Drop(r, Named(r, r.byHost[aim]) \ mine)
  IN IF \A s \in mine : s.aim = aim THEN r
     ELSE [cleared EXCEPT
             !.sessions = (@ \ mine) \cup {[s EXCEPT !.aim = aim] : s \in mine},
             !.byHost = [Unindex(@, r.lease[h]) EXCEPT ![aim] = r.lease[h]]]

(* A bug: the client's own session is left. *)
BindClientStays(r, id, h, aim) ==
  LET cleared == Drop(r, Named(r, r.lease[h]))
  IN [sessions |-> cleared.sessions \cup {[id |-> id, host |-> h, aim |-> aim, active |-> FALSE]},
      byClient |-> [cleared.byClient EXCEPT ![id.client] = id],
      byHost |-> [cleared.byHost EXCEPT ![aim] = id],
      lease |-> [cleared.lease EXCEPT ![h] = id]]

(* relayBindSession, once its checks passed: the host's session and the     *)
(* client's are dropped, the new one is provisional.                        *)
Bind(r, id, h, aim) ==
  LET cleared == Drop(r, Named(r, r.lease[h]) \cup Named(r, r.byClient[id.client]))
  IN [sessions |-> cleared.sessions \cup {[id |-> id, host |-> h, aim |-> aim, active |-> FALSE]},
      byClient |-> [cleared.byClient EXCEPT ![id.client] = id],
      byHost |-> [cleared.byHost EXCEPT ![aim] = id],
      lease |-> [cleared.lease EXCEPT ![h] = id]]

-----------------------------------------------------------------------------
(* The wake *)

HasLiveCapability(h) == pendingPunch[h] \ aged # {}

(* startWakeResend: one timer per host, a newer connect takes it over. *)
Armed(h, token) ==
  IF resend[h] = Idle /\ Cardinality({g \in Hosts : resend[g] # Idle}) >= WAKE_RESEND_MAX_TIMERS
    THEN resend
    ELSE [resend EXCEPT ![h] = [token |-> token, sent |-> 0]]

(* A bug: the allowance is not asked for. *)
MayWakeForever(h) == HasLiveCapability(h) /\ host[h].fresh

(* The tick: everything that could make sending wrong is asked again.       *)
MayWake(h) ==
  HasLiveCapability(h) /\ host[h].fresh /\ resend[h].sent < WAKE_RESEND_MAX

(* A bug: what was sent is not counted. *)
TickedUncounted(h) ==
  IF MayWake(h) THEN resend ELSE [resend EXCEPT ![h] = Idle]

Ticked(h) ==
  IF MayWake(h) THEN [resend EXCEPT ![h].sent = @ + 1] ELSE [resend EXCEPT ![h] = Idle]

Tick(h) ==
  /\ resend[h] # Idle
  /\ resend' = Ticked(h)
  /\ UNCHANGED <<world, active, host, minting, engine, moves, closes>>

-----------------------------------------------------------------------------
(* handleConnect, for a client that is signed in to the host's account and  *)
(* whose address was observed; the relay may be closed to it.               *)
Connect(c, h, eligible) ==
  LET token == minted + 1 IN
  /\ minted < MaxTokens /\ active[h] /\ host[h].fresh
  /\ minted' = token
  /\ pendingPunch' = [pendingPunch EXCEPT ![h] = @ \cup {token}]
  /\ IF eligible
       THEN /\ auth' = {a \in auth : a.token # latest[h]}
                       \cup {[token |-> token, host |-> h, ip |-> IpOf[c]]}
            /\ latest' = [latest EXCEPT ![h] = token]
       ELSE UNCHANGED <<auth, latest>>
  /\ resend' = Armed(h, token)
  /\ UNCHANGED <<world, aged, active, host, engine, moves, closes>>

(* A Hello with capability "token" from client "c" reaches the listener: a  *)
(* retransmission is forwarded, any other must bind.  The host answers a    *)
(* Hello whose capability it holds.                                         *)
MayBind(c, a) ==
  /\ a.ip = IpOf[c] /\ latest[a.host] = a.token
  /\ host[a.host].aim # Off /\ active[a.host]

Answered(token, aim) ==
  {<<h, token>> : h \in {g \in Hosts : where[g] = aim /\ token \in held[g]}}

Hello(c, token) ==
  LET id == [token |-> token, client |-> c] IN
  /\ \/ \E s \in Named(Relay, byClient[c]) :
          /\ s.id.token = token /\ acks' \in {acks, acks \cup Answered(token, s.aim)}
          /\ UNCHANGED engine
     \/ /\ byClient[c] # id
        /\ \E a \in auth :
             /\ a.token = token /\ MayBind(c, a)
             /\ Becomes(Bind(Relay, id, a.host, host[a.host].aim))
             /\ acks' \in {acks, acks \cup Answered(token, host[a.host].aim)}
  /\ UNCHANGED <<where, held, active, host, minting, resend, moves, closes>>

(* relayHandleHostPacket, for an answer that says the host authorised: the  *)
(* session found under the host's address becomes active.                   *)
HostAck(h, token) ==
  /\ <<h, token>> \in acks /\ where[h] # Off
  /\ Named(Relay, byHost[where[h]]) # {}
  /\ sessions' = {IF s.id = byHost[where[h]] THEN [s EXCEPT !.active = TRUE] ELSE s : s \in sessions}
  /\ UNCHANGED <<world, active, host, minting, resend, byClient, byHost, lease, moves, closes>>

(* handleHostHeartbeat; its answer, with the capabilities, may be lost.     *)
Heartbeat(h) ==
  /\ where[h] # Off /\ active[h]
  /\ host' = [host EXCEPT ![h] = [aim |-> where[h], fresh |-> TRUE]]
  /\ Becomes(Follow(Relay, h, where[h]))
  /\ held' \in {held, [held EXCEPT ![h] = @ \cup pendingPunch[h]]}
  /\ pendingPunch' = [pendingPunch EXCEPT ![h] = {}]
  /\ resend' = IF pendingPunch[h] = {} THEN resend ELSE [resend EXCEPT ![h] = Idle]
  /\ UNCHANGED <<where, acks, active, aged, auth, latest, minted, moves, closes>>

-----------------------------------------------------------------------------
(* What time does: relaySweep, the sweep of the punches, HOST_OFFLINE_MS.   *)

SweepSession(s) ==
  /\ Becomes(Drop(Relay, {s}))
  /\ UNCHANGED <<world, active, host, minting, resend, moves, closes>>

AuthExpires(a) ==
  /\ auth' = auth \ {a}
  /\ UNCHANGED <<world, active, host, pendingPunch, aged, latest, minted, resend, engine, moves, closes>>

(* A capability is too old from here, and swept later. *)
PunchExpires(h, token) ==
  /\ aged' = aged \cup {token}
  /\ pendingPunch' \in {pendingPunch, [pendingPunch EXCEPT ![h] = @ \ {token}]}
  /\ UNCHANGED <<world, active, host, auth, latest, minted, resend, engine, moves, closes>>

HostSilent(h) ==
  /\ host[h].fresh /\ host' = [host EXCEPT ![h].fresh = FALSE]
  /\ UNCHANGED <<world, active, minting, resend, engine, moves, closes>>

-----------------------------------------------------------------------------
(* A bug: what could still be bound is left. *)
CloseHostNowCapabilitiesStay(h) ==
  /\ Becomes(Drop(Relay, {s \in sessions : s.host = h}))
  /\ pendingPunch' = [pendingPunch EXCEPT ![h] = {}]
  /\ resend' = [resend EXCEPT ![h] = Idle] /\ UNCHANGED <<auth, latest>>
(* The account is disabled or deleted (the host is inactive from here) or   *)
(* its password changes: closeHostsNow.                                     *)
CloseHostNow(h) ==
  /\ Becomes(Drop(Relay, {s \in sessions : s.host = h}))
  /\ auth' = {a \in auth : a.host # h} /\ latest' = [latest EXCEPT ![h] = None]
  /\ pendingPunch' = [pendingPunch EXCEPT ![h] = {}]
  /\ resend' = [resend EXCEPT ![h] = Idle]

Close(h, stays) ==
  /\ closes < MaxCloses /\ closes' = closes + 1
  /\ active[h] /\ active' = [active EXCEPT ![h] = stays]
  /\ CloseHostNow(h)
  /\ UNCHANGED <<world, host, aged, minted, moves>>

Enable(h) ==
  /\ ~active[h] /\ active' = [active EXCEPT ![h] = TRUE]
  /\ UNCHANGED <<world, host, minting, resend, engine, moves, closes>>

(* The host stops, or its NAT or its network gives it another endpoint,     *)
(* maybe one that another host had.                                         *)
HostMoves(h) ==
  /\ moves < MaxMoves /\ moves' = moves + 1
  /\ \E a \in (Addrs \cup {Off}) \ {where[g] : g \in Hosts} : where' = [where EXCEPT ![h] = a]
  /\ UNCHANGED <<held, acks, active, host, minting, resend, engine, closes>>

HostStep(h) ==
  \/ Heartbeat(h) \/ HostSilent(h) \/ HostMoves(h) \/ Tick(h) \/ Enable(h)
  \/ \E stays \in BOOLEAN : Close(h, stays)
  \/ \E t \in pendingPunch[h] \ aged : PunchExpires(h, t)
  \/ \E t \in Tokens : HostAck(h, t)

Next ==
  \/ \E h \in Hosts : HostStep(h)
  \/ \E c \in Clients :
       \/ \E h \in Hosts, eligible \in BOOLEAN : Connect(c, h, eligible)
       \/ \E t \in Tokens : Hello(c, t)
  \/ \E s \in sessions : SweepSession(s)
  \/ \E a \in auth : AuthExpires(a)

Spec == Init /\ [][Next]_vars

(* The timers of node fire; nothing else has to happen. *)
FairSpec == Spec /\ \A h \in Hosts : WF_vars(Tick(h))

-----------------------------------------------------------------------------
(* Every variable holds what its comment says, and no timer counts past its *)
(* budget (server.js:535-580, 758).                                         *)
TypeOK ==
  /\ where \in [Hosts -> Addrs \cup {Off}] /\ held \in [Hosts -> SUBSET Tokens]
  /\ acks \subseteq Hosts \X Tokens /\ active \in [Hosts -> BOOLEAN]
  /\ host \in [Hosts -> [aim : Addrs \cup {Off}, fresh : BOOLEAN]]
  /\ pendingPunch \in [Hosts -> SUBSET Tokens] /\ aged \subseteq Tokens
  /\ auth \subseteq [token : Tokens, host : Hosts, ip : Ips]
  /\ latest \in [Hosts -> Tokens \cup {None}]
  /\ resend \in [Hosts -> {Idle} \cup [token : Tokens, sent : 0..WAKE_RESEND_MAX]]
  /\ Cardinality({h \in Hosts : resend[h] # Idle}) <= WAKE_RESEND_MAX_TIMERS
  /\ sessions \subseteq [id : Ids, host : Hosts, aim : Addrs, active : BOOLEAN]
  /\ byClient \in [Clients -> Ids \cup {NoSession}] /\ byHost \in [Addrs -> Ids \cup {NoSession}]
  /\ lease \in [Hosts -> Ids \cup {NoSession}]

(* "authoritative; the maps below are only indexes into it" (server.js:562): *)
(* each live session has its client's endpoint and its host to itself, and   *)
(* no index names a session that is over, or one whose host's packets come   *)
(* from elsewhere, whatever was bound, dropped and swept before, and when    *)
(* hosts move onto each other's addresses (relayFollowHostWire).             *)
IndexesAgree ==
  /\ \A s \in sessions : byClient[s.id.client] = s.id /\ lease[s.host] = s.id
  /\ \A c \in Clients : byClient[c] # NoSession => \E s \in sessions : s.id = byClient[c]
  /\ \A h \in Hosts : lease[h] # NoSession => \E s \in sessions : s.id = lease[h] /\ s.host = h
  /\ \A a \in Addrs : byHost[a] # NoSession => \E s \in sessions : s.id = byHost[a] /\ s.aim = a

(* What is open for a host ends with its account, and nothing that was under *)
(* way opens it again: no session, no capability on either side, no wake     *)
(* (closeHostsNow, "A heartbeat or connect would be refused from here on     *)
(* anyway; this is what does not wait for the next request").                *)
ClosedHostHasNothing ==
  \A h \in Hosts : ~active[h] =>
    /\ \A s \in sessions : s.host # h
    /\ \A a \in auth : a.host # h
    /\ pendingPunch[h] = {} /\ latest[h] = None /\ resend[h] = Idle

(* The wake of a host ends, though its host may never answer, a capability  *)
(* may never be collected and clients may go on asking for others           *)
(* (startWakeResend: "a newer connect gets its own allowance of ten").      *)
ResendEnds == \A h \in Hosts : []<>(resend[h] = Idle)

=============================================================================
