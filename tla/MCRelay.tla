------------------------------- MODULE MCRelay -------------------------------
(* A small instance of Relay for TLC: two clients behind one NAT, and two    *)
(* hosts that move between two addresses, onto each other's as well.         *)
EXTENDS Relay

CONSTANT MaxChanges   \* bound: moves and closings together

OneNat == [c \in Clients |-> CHOOSE ip \in Ips : TRUE]

(* Only the names of hosts, addresses and clients are fixed beforehand, and   *)
(* each loses no behaviour but those that differ in names: where each host    *)
(* is at first; which of them is connected to first (to exchange both hosts   *)
(* and their addresses leaves the placement as it is); and, of the clients,   *)
(* which is the next to bind when no session and so no index names either.    *)
(* Which of them connects makes no difference: they are at one address.       *)
Placement == CHOOSE at \in [Hosts -> Addrs] : \A g, h \in Hosts : at[g] = at[h] => g = h
FirstHost == CHOOSE h \in Hosts : TRUE
FirstClient == CHOOSE c \in Clients : TRUE

NextUpToNames ==
  \/ \E h \in Hosts : Heartbeat(h) \/ HostSilent(h) \/ Tick(h) \/ Enable(h)
  \/ \E h \in Hosts, t \in Tokens : HostAck(h, t)
  \/ \E h \in Hosts : \E t \in pendingPunch[h] \ aged : PunchExpires(h, t)
  \/ moves + closes < MaxChanges /\ \E h \in Hosts : HostMoves(h)
  \/ moves + closes < MaxChanges /\ \E h \in Hosts, stays \in BOOLEAN : Close(h, stays)
  \/ \E h \in Hosts, eligible \in BOOLEAN : (minted = 0 => h = FirstHost) /\ Connect(FirstClient, h, eligible)
  \/ \E c \in Clients, t \in Tokens : (sessions = {} => c = FirstClient) /\ Hello(c, t)
  \/ \E s \in sessions : SweepSession(s)
  \/ \E a \in auth : AuthExpires(a)

InitUpToNames == Init /\ where = Placement

FairSpecUpToNames ==
  InitUpToNames /\ [][NextUpToNames]_vars /\ \A h \in Hosts : WF_vars(Tick(h))
=============================================================================
