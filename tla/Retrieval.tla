----------------------------- MODULE Retrieval ------------------------------
(***************************************************************************)
(* The retrieval protocol: nodes that lack one chunk ask the peers closest *)
(* to it, and a node that is asked and lacks it too asks on.               *)
(*                                                                         *)
(* At a node the callers of RetrieveChunk share a flight (singleflight):   *)
(* one for the requests of its own users, one for the requests of peers.   *)
(* A flight <<n, k, g>> is the g-th of kind k at node n and runs the loop  *)
(* of RetrieveChunk; a request <<f, p>> is retrieveChunk of flight f to    *)
(* peer p together with the handler of p that serves it.                   *)
(***************************************************************************)
EXTENDS Integers, FiniteSets, FiniteSetsExt

CONSTANTS RNodes, RNone, MaxOriginErrors, MaxForwards, MaxFlights

ASSUME RetrAssumption ==
    /\ RNone \notin RNodes
    /\ MaxOriginErrors \in Nat \ {0} /\ MaxForwards \in Nat /\ MaxFlights \in Nat

VARIABLES
    flights,  \* the flights
    rasked,    \* the requests: peer's handler and its answer
    errSkip,  \* per node: peers that failed within skiplistDur
    rkept,     \* per node: "no", "good" (held or cached) or "bad"
    users,    \* per node: users' downloads, "none", "wait", "good", "bad" or "failed"
    rcost,    \* faults and overdrafts so far
    rnet      \* the network

retrVars == <<flights, rasked, errSkip, rkept, users, rcost, rnet>>

Kinds == {"origin", "forward"}
FlightIds == RNodes \X Kinds \X (1 .. MaxFlights)
AskIds == FlightIds \X RNodes

RetrInit(net) ==
    /\ rnet = net
    /\ flights = <<>>
    /\ rasked = <<>>
    /\ errSkip = [n \in RNodes |-> {}]
    /\ rkept = [n \in RNodes |-> IF n \in net.holders THEN "good" ELSE "no"]
    /\ users = [n \in RNodes |-> "none"]
    /\ rcost = [faults |-> 0, overs |-> 0, ticks |-> 0]

RFault == rcost.faults < rnet.faults
RSpend(k) == rcost' = [rcost EXCEPT ![k] = @ + 1]

\* closestPeer: healthy before reachable before any; only the origin may ask upstream
RCandidates(n, skip, g) == {p \in rnet.links[n] \ skip : rnet.grade[p] >= g}
RNearest(S) == CHOOSE p \in S : \A q \in S : rnet.dist[p] <= rnet.dist[q]

ClosestUpstream(n, skip, upstream) ==
    LET gs == {g \in 0 .. 2 : RCandidates(n, skip, g) # {}}
    IN  IF gs = {} THEN RNone ELSE RNearest(RCandidates(n, skip, Max(gs)))

RClosestPeer(n, skip, upstream) ==
    LET p == ClosestUpstream(n, skip, upstream)
    IN  IF p # RNone /\ ~upstream /\ rnet.dist[p] > rnet.dist[n] THEN RNone ELSE p

\* the flight of a kind that callers join, if there is one
Running(n, k) == {g \in 1 .. MaxFlights : <<n, k, g>> \in DOMAIN flights /\ flights[<<n, k, g>>].st = "loop"}
RetrUnused(n, k) == {g \in 1 .. MaxFlights : <<n, k, g>> \notin DOMAIN flights}

\* f with an entry for x, unless it has one
WithEntry(f, x, v) == [y \in DOMAIN f \cup {x} |-> IF y \in DOMAIN f THEN f[y] ELSE v]

\* a flight begins: a peer that asks is skipped
Begun(k, src) ==
    [st |-> "loop", tokens |-> 1, left |-> IF k = "origin" THEN MaxOriginErrors ELSE 1,
     forwards |-> MaxForwards, inflight |-> {}, skip |-> src, over |-> {}, res |-> "none"]

\* singleflight.Do: the flight to wait for, and the flights with it among them
Join(n, k, src) ==
    IF Running(n, k) # {} THEN [g |-> Min(Running(n, k)), fs |-> flights]
    ELSE LET g == Min(RetrUnused(n, k)) IN [g |-> g, fs |-> WithEntry(flights, <<n, k, g>>, Begun(k, src))]

CanJoin(n, k) == Running(n, k) # {} \/ RetrUnused(n, k) # {}

\* the callers that wait for a flight
Callers(f) ==
    IF f[2] = "origin" THEN {n \in {f[1]} : users[n] = "wait"}
    ELSE {q \in DOMAIN rasked : q[2] = f[1] /\ rasked[q].st = "join" /\ rasked[q].on = f[3]}

-----------------------------------------------------------------------------
\* The user's side: netStore.Download with the cache.

Download(n) ==
    /\ n \in rnet.users /\ users[n] = "none"
    /\ UNCHANGED <<rasked, errSkip, rkept, rcost, rnet>>
    /\ IF rkept[n] # "no" THEN users' = [users EXCEPT ![n] = rkept[n]] /\ UNCHANGED flights
       ELSE /\ CanJoin(n, "origin")
            /\ flights' = Join(n, "origin", {}).fs
            /\ users' = [users EXCEPT ![n] = "wait"]

\* a flight has ended: the user has the chunk, which is cached
Downloaded(n) ==
    \E g \in (1 .. MaxFlights) \ RetrUnused(n, "origin") :
        LET f == flights[<<n, "origin", g>>]
        IN  /\ f.st = "over" /\ users[n] = "wait" /\ Running(n, "origin") = {}
            /\ users' = [users EXCEPT ![n] = f.res]
            /\ rkept' = [rkept EXCEPT ![n] = IF f.res = "failed" \/ @ # "no" THEN @ ELSE f.res]
            /\ UNCHANGED <<flights, rasked, errSkip, rcost, rnet>>

-----------------------------------------------------------------------------
\* The loop of RetrieveChunk.

RRetry(t) == Min({t + 1, MaxForwards + 1})
Ended(f, res) == flights' = [flights EXCEPT ![f].st = "over", ![f].res = res]

InLoop(f) == flights[f].st = "loop" /\ flights[f].tokens > 0
RetrSkipped(f) == flights[f].skip \cup flights[f].over \cup errSkip[f[1]]

\* a token is taken and there is no peer
RNoPeer(f) ==
    LET fl == flights[f]
    IN  /\ InLoop(f)
        /\ RClosestPeer(f[1], RetrSkipped(f), f[2] = "origin") = RNone
        /\ IF fl.over # {} THEN flights' = [flights EXCEPT ![f].over = {}, ![f].tokens = RRetry(@ - 1)]
           ELSE IF fl.inflight # {} THEN flights' = [flights EXCEPT ![f].tokens = @ - 1]
           ELSE Ended(f, "failed")
        /\ UNCHANGED <<rasked, errSkip, rkept, users, rcost, rnet>>

\* in the neighbourhood of the chunk the request is multiplexed
RMultiplexed(fl, p) ==
    IF p \in rnet.near /\ fl.forwards > 0
    THEN [fl EXCEPT !.tokens = Min({@ + fl.forwards, MaxForwards + 1}), !.left = @ + fl.forwards,
                    !.forwards = 0]
    ELSE fl

\* a token is taken and a peer asked, or put aside until its balance is refreshed
Ask(f) ==
    LET p == RClosestPeer(f[1], RetrSkipped(f), f[2] = "origin")
        fl == RMultiplexed([flights[f] EXCEPT !.tokens = @ - 1], p)
    IN  /\ InLoop(f) /\ p # RNone
        /\ UNCHANGED <<errSkip, rkept, users, rnet>>
        /\ \/ /\ rcost.overs < rnet.overs /\ RSpend("overs")
              /\ flights' = [flights EXCEPT ![f] = [fl EXCEPT !.over = @ \cup {p}, !.tokens = RRetry(@)]]
              /\ UNCHANGED rasked
           \/ /\ flights' = [flights EXCEPT ![f] = [fl EXCEPT !.skip = @ \cup {p}, !.inflight = @ \cup {p}]]
              /\ rasked' = WithEntry(rasked, <<f, p>>, [st |-> "wire", on |-> 0, res |-> "none"])
              /\ UNCHANGED rcost

RRefresh(f) ==
    /\ flights[f].st = "loop" /\ flights[f].over # {}
    /\ flights' = [flights EXCEPT ![f].over = {}]
    /\ UNCHANGED <<rasked, errSkip, rkept, users, rcost, rnet>>

RTick(f) ==
    /\ f[2] = "origin" /\ flights[f].st = "loop" /\ rcost.ticks < rnet.ticks
    /\ RSpend("ticks")
    /\ flights' = [flights EXCEPT ![f].tokens = RRetry(@)]
    /\ UNCHANGED <<rasked, errSkip, rkept, users, rnet>>

\* a result that is an error: the peer is skipped by all flights of the node for a while
RetrFailed(f, p) ==
    LET last == flights[f].left = 1
    IN  /\ flights' = [flights EXCEPT ![f].inflight = @ \ {p}, ![f].left = @ - 1, ![f].tokens = RRetry(@),
                                      ![f].st = IF last THEN "over" ELSE @,
                                      ![f].res = IF last THEN "failed" ELSE @]
        /\ errSkip' = [errSkip EXCEPT ![f[1]] = @ \cup {p}]

\* the answer is taken as it is
Unchecked(res) == res

\* retrieveChunk: a chunk that is neither content addressed nor single owner is an error
Checked(res) == IF res = "bad" THEN "failed" ELSE res

\* a peer's answer reaches a flight that is still open
RResult(f, p) ==
    LET res == Checked(rasked[<<f, p>>].res)
    IN  /\ flights[f].st = "loop" /\ p \in flights[f].inflight /\ rasked[<<f, p>>].st = "answered"
        /\ UNCHANGED <<rasked, rkept, users, rcost, rnet>>
        /\ \/ res = "failed" /\ RetrFailed(f, p)
           \/ /\ res # "failed" /\ UNCHANGED errSkip
              /\ flights' = [flights EXCEPT ![f].st = "over", ![f].res = res, ![f].inflight = @ \ {p}]

\* the stream fails, or RetrieveChunkTimeout is over while the peer is at work
RequestFails(f, p) ==
    /\ flights[f].st = "loop" /\ p \in flights[f].inflight /\ RFault
    /\ RSpend("faults")
    /\ RetrFailed(f, p)
    /\ UNCHANGED <<rasked, rkept, users, rnet>>

\* the last caller's context is done, and with it the flight's
FlightCancelled(f) ==
    /\ flights[f].st = "loop" /\ Callers(f) = {}
    /\ Ended(f, "failed")
    /\ UNCHANGED <<rasked, errSkip, rkept, users, rcost, rnet>>

-----------------------------------------------------------------------------
\* The handler of a peer.

\* the chunk is not there: the request is forwarded
RetrHandle(q) ==
    LET n == q[2]
        j == Join(n, "forward", {q[1][1]})
    IN  /\ rasked[q].st = "wire" /\ rkept[n] = "no" /\ CanJoin(n, "forward")
        /\ flights' = j.fs
        /\ rasked' = [rasked EXCEPT ![q].st = "join", ![q].on = j.g]
        /\ UNCHANGED <<errSkip, rkept, users, rcost, rnet>>

\* what the handler has to give: the chunk it holds, or what the flight it waits for brought
RetrReady(q) ==
    \/ rasked[q].st = "wire" /\ rkept[q[2]] # "no"
    \/ rasked[q].st = "join" /\ flights[<<q[2], "forward", rasked[q].on>>].st = "over"

Found(q) == IF rasked[q].st = "wire" THEN rkept[q[2]] ELSE flights[<<q[2], "forward", rasked[q].on>>].res

\* debit, delivery, and the cache if the chunk was forwarded; the data may be altered on the
\* way, or no debit be had
Deliver(q) ==
    /\ RetrReady(q)
    /\ UNCHANGED <<flights, errSkip, users, rnet>>
    /\ \/ /\ rasked' = [rasked EXCEPT ![q].st = "answered", ![q].res = Found(q)]
          /\ rkept' = [rkept EXCEPT ![q[2]] = IF @ = "no" /\ rnet.caching /\ Found(q) # "failed" THEN Found(q) ELSE @]
          /\ UNCHANGED rcost
       \/ /\ RFault /\ RSpend("faults")
          /\ \E res \in {"bad", "failed"} : rasked' = [rasked EXCEPT ![q].st = "answered", ![q].res = res]
          /\ UNCHANGED rkept

\* the handler's context is done while it waits for the flight
HandlerGone(q) ==
    /\ rasked[q].st = "join" /\ RFault /\ RSpend("faults")
    /\ rasked' = [rasked EXCEPT ![q].st = "answered", ![q].res = "failed"]
    /\ UNCHANGED <<flights, errSkip, rkept, users, rnet>>

FlightStep(f) ==
    RNoPeer(f) \/ Ask(f) \/ FlightCancelled(f) \/ \E p \in flights[f].inflight : RResult(f, p)
AskStep(q) == RetrHandle(q) \/ Deliver(q)
UserStep(n) == Download(n) \/ Downloaded(n)

RetrNext ==
    \/ \E n \in RNodes : UserStep(n)
    \/ \E f \in DOMAIN flights : FlightStep(f) \/ RRefresh(f) \/ RTick(f) \/ \E p \in flights[f].inflight : RequestFails(f, p)
    \/ \E q \in DOMAIN rasked : AskStep(q) \/ HandlerGone(q)

\* any network: no node is its own peer, and no two are equally far from the chunk, for the
\* distance of addresses is their exclusive or
RetrNets ==
    {net \in [links : [RNodes -> SUBSET RNodes], dist : [RNodes -> Nat], grade : [RNodes -> 0 .. 2],
              holders : SUBSET RNodes, near : SUBSET RNodes, users : SUBSET RNodes,
              caching : BOOLEAN, faults : Nat, overs : Nat, ticks : Nat] :
        /\ \A n \in RNodes : n \notin net.links[n]
        /\ \A m, n \in RNodes : net.dist[m] = net.dist[n] => m = n}

RetrSpec == (\E net \in RetrNets : RetrInit(net)) /\ [][RetrNext]_retrVars

-----------------------------------------------------------------------------
\* flights that have asked a peer whose handler waits for a flight of its own
WaitsFor ==
    {<<q[1], <<q[2], "forward", rasked[q].on>>>> :
        q \in {r \in DOMAIN rasked : rasked[r].st = "join" /\ flights[r[1]].st = "loop" /\ r[2] \in flights[r[1]].inflight}}

\* No flight waits for itself, through whatever peers it has asked and whatever flights their
\* handlers have joined: sharing a flight skips only the peer that began it, so it is the rule
\* that a request of a peer goes to nodes closer to the chunk that keeps nodes from waiting
\* for one another until they time out.
NoCyclicWait ==
    \A S \in SUBSET {e[1] : e \in WaitsFor} : S # {} => \E f \in S : \A g \in S : <<f, g>> \notin WaitsFor

\* Data that was altered on its way is never given to a user and never kept by a node that
\* forwards or caches, and a flight in its loop always has a token or an answer to come.
RetrievedValid ==
    /\ \A n \in RNodes : rkept[n] # "bad" /\ users[n] # "bad"
    /\ \A f \in DOMAIN flights : flights[f].st = "loop" => flights[f].tokens > 0 \/ flights[f].inflight # {}

\* A retrieval comes to its end with the chunk or an error: nodes do not wait for one another,
\* and what is given out is the chunk (RetrieveChunk, retrieveChunk, handler).
RetrievalSound == NoCyclicWait /\ RetrievedValid
=============================================================================
