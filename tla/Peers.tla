------------------------------- MODULE Peers --------------------------------
(***************************************************************************)
(* How a node comes to be connected to a peer and how the parts that keep  *)
(* a list of peers learn of it: the peer registry of the p2p service,      *)
(* kademlia (connected and known peers, waiting times, address book), the  *)
(* container of light nodes and the reacher.                               *)
(*                                                                         *)
(* Dials of kademlia, handlers of incoming handshakes, notifications of    *)
(* closed connections and calls of Disconnect are goroutines that run side *)
(* by side; each of their steps below is what happens under one lock or    *)
(* between two waits.  A peer has one libp2p identity and may have two     *)
(* connections, one per direction.                                         *)
(***************************************************************************)
EXTENDS Integers, FiniteSets

CONSTANTS PeerIds, LightLimit, MaxAttempts

VARIABLES
    conns,    \* per peer: connections that are alive, the ones it was dialled by below zero
    reg,      \* peerRegistry: per peer, whether it is in, and its connections
    kad,      \* kademlia: connected, known, book, waiting, attempts
    lights,   \* light nodes connected
    reach,    \* peers of the reacher
    blocked,  \* blocklisted peers
    procs,    \* goroutines
    pehist,   \* bounds so far, and peers that left while a dial of them was about to succeed
    pesc      \* the scenario

peerVars == <<conns, reg, kad, lights, reach, blocked, procs, pehist, pesc>>

Proc(k, p, c, pc) == [kind |-> k, peer |-> p, conn |-> c, pc |-> pc]
IsFull(p) == p \in pesc.full

PeersInit(sc) ==
    /\ pesc = sc
    /\ conns = [p \in PeerIds |-> {}]
    /\ reg = [p \in PeerIds |-> [in |-> FALSE, conns |-> {}]]
    /\ kad = [connected |-> {}, known |-> sc.known, book |-> sc.known, waiting |-> {},
              attempts |-> [p \in PeerIds |-> 0]]
    /\ lights = {} /\ reach = {} /\ blocked = {} /\ procs = {}
    /\ pehist = [dials |-> 0, ins |-> 0, made |-> 0, closes |-> 0, faults |-> 0, blocks |-> 0, raced |-> {}, crowded |-> FALSE]

PFault == pehist.faults < pesc.faults
PCount(k) == [pehist EXCEPT ![k] = @ + 1]

\* a notice of p's departure comes too late: p is in the registry again; or too early: a goroutine is
\* past its look at the registry, and its entry is still to come
Misses(p) == reg[p].in \/ \E q \in procs : q.peer = p /\ q.pc \in {"reacher", "announce", "add"}

\* connections of p are closed; the network tells the registry of each
PeerClosed(p, cs) == {Proc("closed", p, c, "reg") : c \in cs \cap conns[p]}

\* goroutine q gives way to qs
Becomes(q, qs) == procs' = (procs \ {q}) \cup qs
HandlerGoes(q, pc) == Becomes(q, {[q EXCEPT !.pc = pc]})

\* Disconnect begins: the registry forgets the peer and all its connections are closed
Disconnecting(q, p) ==
    /\ reg' = [reg EXCEPT ![p] = [in |-> FALSE, conns |-> {}]]
    /\ conns' = [conns EXCEPT ![p] = {}]
    /\ Becomes(q, PeerClosed(p, conns[p]) \cup {Proc("gone", p, 0, "kad")})

\* ClosePeer: the handshake has come to nothing
Refusing(q, p) ==
    /\ conns' = [conns EXCEPT ![p] = {}]
    /\ Becomes(q, PeerClosed(p, conns[p]))

\* addIfNotExists: the connection is noted even if the peer is there
Noted(p, c) == [reg EXCEPT ![p] = [in |-> TRUE, conns |-> @.conns \cup {c}]]

-----------------------------------------------------------------------------
\* Kademlia dials a known peer.

Dial(p) ==
    /\ p \in kad.known \ (kad.connected \cup kad.waiting \cup blocked)
    /\ ~\E q \in procs : q.peer = p /\ q.kind = "out"
    /\ pehist.dials < pesc.dials
    /\ pehist' = PCount("dials")
    /\ procs' = procs \cup {Proc("out", p, 0, "dial")}
    /\ UNCHANGED <<conns, reg, kad, lights, reach, blocked, pesc>>

\* connect: a failure is counted, and with the last one the peer is forgotten
FailedDial(p) ==
    IF kad.attempts[p] + 1 >= MaxAttempts
    THEN [kad EXCEPT !.known = @ \ {p}, !.book = @ \ {p}, !.waiting = @ \ {p}, !.attempts[p] = 0]
    ELSE [kad EXCEPT !.waiting = @ \cup {p}, !.attempts[p] = @ + 1]

\* isConnected: a connection to the address that is dialled
Dialled(p) == reg[p].in /\ \E c \in reg[p].conns : c < 0

\* Service.Connect: connected already, no connection, or a handshake over a connection that is there
\* or is made
OutDial(q) ==
    LET p == q.peer IN
    /\ q.pc = "dial"
    /\ UNCHANGED <<reg, lights, reach, blocked, pesc>>
    /\ \/ Dialled(p) /\ HandlerGoes(q, "add") /\ UNCHANGED <<conns, kad, pehist>>
       \/ /\ ~Dialled(p)
          /\ \E c \in conns[p] : Becomes(q, {[q EXCEPT !.conn = c, !.pc = "shake"]})
          /\ UNCHANGED <<conns, kad, pehist>>
       \/ /\ ~Dialled(p) /\ conns[p] = {}
          /\ pehist' = PCount("made") /\ conns' = [conns EXCEPT ![p] = {-pehist'.made}]
          /\ Becomes(q, {[q EXCEPT !.conn = -pehist'.made, !.pc = "shake"]}) /\ UNCHANGED kad
       \/ /\ ~Dialled(p) /\ conns[p] = {} /\ PFault
          /\ Becomes(q, {}) /\ kad' = FailedDial(p) /\ pehist' = PCount("faults") /\ UNCHANGED conns

\* the stream is taken to be closed
NeverBroken(q) == FALSE

\* the handshake, and FullClose of its stream, fail on a connection that is no more
Broken(q) == q.conn \notin conns[q.peer]

\* handshake, blocklist and registry
OutShake(q) ==
    LET p == q.peer IN
    /\ q.pc = "shake"
    /\ UNCHANGED <<lights, reach, blocked, pehist, pesc>>
    /\ IF Broken(q) THEN Refusing(q, p) /\ kad' = FailedDial(p) /\ UNCHANGED reg
       ELSE IF ~IsFull(p)
       THEN /\ Refusing(q, p) /\ UNCHANGED reg
            /\ kad' = [kad EXCEPT !.known = @ \ {p}, !.book = @ \ {p}, !.waiting = @ \ {p}]
       ELSE IF p \in blocked THEN Refusing(q, p) /\ UNCHANGED <<reg, kad>>
       ELSE /\ reg' = Noted(p, q.conn) /\ UNCHANGED <<conns, kad>>
            /\ HandlerGoes(q, IF reg[p].in THEN "close1" ELSE "close2")

\* the handshake stream is closed; the peer was there before, or goes into the address book
OutClose(q) ==
    LET p == q.peer IN
    /\ q.pc \in {"close1", "close2"}
    /\ UNCHANGED <<lights, reach, blocked, pehist, pesc>>
    /\ IF Broken(q) THEN Disconnecting(q, p) /\ kad' = FailedDial(p)
       ELSE /\ HandlerGoes(q, IF q.pc = "close1" THEN "announce" ELSE "protocols")
            /\ kad' = IF q.pc = "close1" THEN kad ELSE [kad EXCEPT !.book = @ \cup {p}]
            /\ UNCHANGED <<conns, reg>>

\* ConnectOut of the protocols, and the look at the registry
OutProtocols(q) ==
    LET p == q.peer IN
    /\ q.pc = "protocols"
    /\ UNCHANGED <<lights, reach, blocked, pesc>>
    /\ \/ reg[p].in /\ HandlerGoes(q, "reacher") /\ UNCHANGED <<conns, reg, kad, pehist>>
       \/ /\ ~reg[p].in \/ PFault
          /\ Disconnecting(q, p) /\ kad' = FailedDial(p)
          /\ pehist' = IF reg[p].in THEN PCount("faults") ELSE pehist

\* reacher.Connected, the last step of an incoming handshake
Reacher(q) ==
    /\ q.pc = "reacher"
    /\ reach' = reach \cup {q.peer}
    /\ Becomes(q, IF q.kind = "out" THEN {[q EXCEPT !.pc = "announce"]} ELSE {})
    /\ UNCHANGED <<conns, reg, kad, lights, blocked, pehist, pesc>>

\* Announce: the peer is told of others
OutAnnounce(q) ==
    /\ q.pc = "announce"
    /\ UNCHANGED <<kad, lights, reach, blocked, pesc>>
    /\ \/ HandlerGoes(q, "add") /\ UNCHANGED <<conns, reg, pehist>>
       \/ /\ PFault \/ ~reg[q.peer].in
          /\ Disconnecting(q, q.peer) /\ pehist' = IF reg[q.peer].in THEN PCount("faults") ELSE pehist

\* the peer is one of the connected ones
OutAdd(q) ==
    LET p == q.peer IN
    /\ q.pc = "add"
    /\ Becomes(q, {})
    /\ kad' = [kad EXCEPT !.connected = @ \cup {p}, !.waiting = @ \cup {p}, !.attempts[p] = 0]
    /\ UNCHANGED <<conns, reg, lights, reach, blocked, pehist, pesc>>

-----------------------------------------------------------------------------
\* A peer dials the node.

Incoming(p) ==
    /\ p \in pesc.callers /\ pehist.ins < pesc.ins /\ \A c \in conns[p] : c < 0
    /\ pehist' = [PCount("ins") EXCEPT !.made = @ + 1]
    /\ conns' = [conns EXCEPT ![p] = @ \cup {pehist'.made}]
    /\ procs' = procs \cup {Proc("in", p, pehist'.made, "shake")}
    /\ UNCHANGED <<reg, kad, lights, reach, blocked, pesc>>

\* handshake with Pick, blocklist and registry
InShake(q) ==
    LET p == q.peer IN
    /\ q.kind = "in" /\ q.pc = "shake"
    /\ UNCHANGED <<kad, lights, reach, blocked, pehist, pesc>>
    /\ IF p \in blocked \cup pesc.unpicked \/ Broken(q) THEN Refusing(q, p) /\ UNCHANGED reg
       ELSE reg' = Noted(p, q.conn) /\ HandlerGoes(q, IF reg[p].in THEN "close1" ELSE "close2") /\ UNCHANGED conns

InClose(q) ==
    LET p == q.peer IN
    /\ q.kind = "in" /\ q.pc \in {"close1", "close2"}
    /\ UNCHANGED <<lights, reach, blocked, pehist, pesc>>
    /\ IF Broken(q) THEN Disconnecting(q, p) /\ UNCHANGED kad
       ELSE /\ UNCHANGED <<conns, reg>>
            /\ IF q.pc = "close1" THEN Becomes(q, {}) /\ UNCHANGED kad
               ELSE /\ HandlerGoes(q, "notify")
                    /\ kad' = IF IsFull(p) THEN [kad EXCEPT !.book = @ \cup {p}] ELSE kad

\* ConnectIn of the protocols, then kademlia or the light nodes
InNotify(q) ==
    LET p == q.peer IN
    /\ q.kind = "in" /\ q.pc = "notify"
    /\ UNCHANGED <<reach, blocked, pesc>>
    /\ \/ /\ PFault /\ pehist' = PCount("faults")
          /\ Disconnecting(q, p) /\ UNCHANGED <<kad, lights>>
       \/ /\ IsFull(p)
          /\ kad' = [kad EXCEPT !.connected = @ \cup {p}, !.known = @ \cup {p}, !.waiting = @ \ {p},
                                !.attempts[p] = 0]
          /\ HandlerGoes(q, "exists") /\ UNCHANGED <<conns, reg, lights, pehist>>
       \/ /\ ~IsFull(p)
          /\ lights' = lights \cup {p}
          /\ HandlerGoes(q, "room") /\ UNCHANGED <<conns, reg, kad, pehist>>

\* another light node is put out when there are too many; the new one goes without the reacher
InRoom(q) ==
    /\ q.kind = "in" /\ q.pc = "room"
    /\ UNCHANGED <<kad, lights, reach, blocked, pesc>>
    /\ IF Cardinality(lights) <= LightLimit THEN HandlerGoes(q, "exists") /\ UNCHANGED <<conns, reg, pehist>>
       ELSE /\ \E p \in lights \ {q.peer} : Disconnecting(q, p)
            /\ pehist' = [pehist EXCEPT !.crowded = @ \/ Cardinality(lights) > LightLimit + 1,
                                        !.raced = IF reg[q.peer].in THEN @ ELSE @ \cup {q.peer}]

InExists(q) ==
    LET p == q.peer IN
    /\ q.kind = "in" /\ q.pc = "exists"
    /\ UNCHANGED <<kad, lights, reach, blocked, pehist, pesc>>
    /\ IF reg[p].in THEN HandlerGoes(q, "reacher") /\ UNCHANGED <<conns, reg>> ELSE Disconnecting(q, p)

-----------------------------------------------------------------------------
\* The end of a connection.

\* the other side closes one
RemoteCloses(p, c) ==
    /\ c \in conns[p] /\ pehist.closes < pesc.closes
    /\ pehist' = PCount("closes")
    /\ conns' = [conns EXCEPT ![p] = @ \ {c}]
    /\ procs' = procs \cup PeerClosed(p, {c})
    /\ UNCHANGED <<reg, kad, lights, reach, blocked, pesc>>

\* peerRegistry.Disconnected: only with its last connection is the peer gone
ClosedReg(q) ==
    LET p == q.peer
        left == reg[p].conns \ {q.conn}
    IN  /\ q.kind = "closed" /\ q.pc = "reg"
        /\ UNCHANGED <<conns, kad, lights, reach, blocked, pehist, pesc>>
        /\ IF q.conn \notin reg[p].conns THEN Becomes(q, {}) /\ UNCHANGED reg
           ELSE IF left # {} THEN Becomes(q, {}) /\ reg' = [reg EXCEPT ![p].conns = left]
           ELSE /\ reg' = [reg EXCEPT ![p] = [in |-> FALSE, conns |-> {}]]
                /\ Becomes(q, {Proc("gone", p, 0, "kad")})

\* Kad.Disconnected and the container of light nodes
GoneKad(q) ==
    LET p == q.peer IN
    /\ q.kind = "gone" /\ q.pc = "kad"
    /\ kad' = [kad EXCEPT !.connected = @ \ {p}, !.waiting = @ \cup {p}]
    /\ lights' = lights \ {p}
    /\ pehist' = [pehist EXCEPT !.raced = IF Misses(p) THEN @ \cup {p} ELSE @]
    /\ HandlerGoes(q, "reach")
    /\ UNCHANGED <<conns, reg, reach, blocked, pesc>>

GoneReach(q) ==
    /\ q.kind = "gone" /\ q.pc = "reach"
    /\ reach' = reach \ {q.peer}
    /\ pehist' = [pehist EXCEPT !.raced = IF Misses(q.peer) THEN @ \cup {q.peer} ELSE @]
    /\ Becomes(q, {})
    /\ UNCHANGED <<conns, reg, kad, lights, blocked, pesc>>

\* a protocol or the accounting blocklists the peer
Blocklist(p) ==
    /\ reg[p].in /\ pehist.blocks < pesc.blocks
    /\ pehist' = PCount("blocks")
    /\ blocked' = blocked \cup {p}
    /\ reg' = [reg EXCEPT ![p] = [in |-> FALSE, conns |-> {}]]
    /\ conns' = [conns EXCEPT ![p] = {}]
    /\ procs' = procs \cup PeerClosed(p, conns[p]) \cup {Proc("gone", p, 0, "kad")}
    /\ UNCHANGED <<kad, lights, reach, pesc>>

\* time passes: the peer may be dialled again
WaitOver(p) ==
    /\ p \in kad.waiting
    /\ kad' = [kad EXCEPT !.waiting = @ \ {p}]
    /\ UNCHANGED <<conns, reg, lights, reach, blocked, procs, pehist, pesc>>

ProcStep(q) ==
    \/ q.kind = "out" /\ (OutDial(q) \/ OutShake(q) \/ OutClose(q) \/ OutProtocols(q) \/ OutAnnounce(q) \/ OutAdd(q))
    \/ Reacher(q) \/ InShake(q) \/ InClose(q) \/ InNotify(q) \/ InRoom(q) \/ InExists(q)
    \/ ClosedReg(q) \/ GoneKad(q) \/ GoneReach(q)

PeersNext ==
    \/ \E p \in PeerIds : Dial(p) \/ Incoming(p) \/ Blocklist(p) \/ WaitOver(p)
                          \/ \E c \in conns[p] : RemoteCloses(p, c)
    \/ \E q \in procs : ProcStep(q)

-----------------------------------------------------------------------------
Settled == procs = {}

\* When no goroutine is at work the lists agree: a peer is in the registry exactly if a connection
\* of it is alive, a full node is one of kademlia's connected peers exactly if it is in the
\* registry, and the peers the reacher pings are in the registry.  The exception are peers
\* whose departure was told too late or too early, which the code does not notice.  Light nodes
\* keep to their limit unless two of them made room for each other at the same time.
RegistriesAgree ==
    Settled =>
      /\ pehist.crowded \/ Cardinality(lights) <= LightLimit
      /\ \A p \in PeerIds :
        /\ reg[p].in <=> conns[p] # {}
        /\ reg[p].conns = conns[p]
        /\ p \notin pehist.raced => /\ p \in kad.connected <=> reg[p].in /\ IsFull(p)
                                    /\ p \in lights <=> reg[p].in /\ ~IsFull(p)
                                    /\ p \in reach => reg[p].in

\* A peer that is blocklisted is no longer connected when the dust has settled, even if it had a
\* handshake under way that had passed the look at the blocklist.
BlockedGone ==
    Settled => \A p \in blocked : conns[p] = {} /\ ~reg[p].in /\ (p \in kad.connected => p \in pehist.raced)

\* The registries of the connections agree once their handlers are through, and a blocked peer
\* is gone from all of them (Service.Connect, handleIncoming, peerRegistry, Kad.Connected,
\* Service.Blocklist).
PeersSound == RegistriesAgree /\ BlockedGone
=============================================================================
