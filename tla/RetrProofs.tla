----------------------------- MODULE RetrProofs -----------------------------
(***************************************************************************)
(* Proofs about retrieval: nodes do not wait for one another in a circle,  *)
(* no flight is ever stuck, and nothing but the chunk is kept or given     *)
(* out, in every network and whatever fails.                               *)
(***************************************************************************)
EXTENDS Retrieval, SetLemmas

FlightRecords ==
    [st : {"loop", "over"}, tokens : Nat, left : Int, forwards : Nat, inflight : SUBSET RNodes,
     skip : SUBSET RNodes, over : SUBSET RNodes, res : {"none", "good", "failed"}]

\* a flight in its loop can go on, one that is over has a result, and a flight for a peer asks
\* only nodes that are closer to the chunk
FlightSound(fl, f) ==
    /\ fl \in FlightRecords
    /\ fl.st = "loop" => fl.tokens > 0 \/ fl.inflight # {}
    /\ fl.st = "over" => fl.res # "none"
    /\ f[2] = "forward" => \A p \in fl.inflight : rnet.dist[p] < rnet.dist[f[1]]

FlightsSound ==
    /\ DOMAIN flights \subseteq FlightIds
    /\ \A f \in DOMAIN flights : FlightSound(flights[f], f)

AskRecords ==
    [st : {"wire", "join", "answered"}, on : Nat, res : {"none", "good", "bad", "failed"}]

\* a handler that waits, waits for a flight that has begun, and one that is done has an answer
AskSound(a, q) ==
    /\ a \in AskRecords /\ q[1] \in DOMAIN flights
    /\ a.st = "join" => <<q[2], "forward", a.on>> \in DOMAIN flights
    /\ a.st = "answered" => a.res # "none"

AsksSound ==
    /\ DOMAIN rasked \subseteq AskIds
    /\ \A q \in DOMAIN rasked : AskSound(rasked[q], q)

\* a result that is waited for is that of a request
InflightAsked == \A f \in DOMAIN flights : \A p \in flights[f].inflight : <<f, p>> \in DOMAIN rasked

\* nobody has anything but the chunk
NodesSound ==
    /\ rkept \in [RNodes -> {"no", "good"}]
    /\ users \in [RNodes -> {"none", "wait", "good", "failed"}]

RetrIInv == rnet \in RetrNets /\ FlightsSound /\ AsksSound /\ InflightAsked /\ NodesSound

\* A flight is the g-th of a kind at a node.
LEMMA FlightTriple ==
  /\ \A f \in FlightIds : f[1] \in RNodes /\ f[2] \in Kinds /\ f[3] \in 1 .. MaxFlights
  /\ \A n \in RNodes, k \in Kinds, g \in 1 .. MaxFlights :
        <<n, k, g>> \in FlightIds /\ <<n, k, g>>[1] = n /\ <<n, k, g>>[2] = k /\ <<n, k, g>>[3] = g
  BY DEF FlightIds

\* A request is the flight that asks and the node that is asked.
LEMMA AskPair ==
  /\ \A q \in AskIds : q[1] \in FlightIds /\ q[2] \in RNodes /\ q = <<q[1], q[2]>>
  /\ \A f \in FlightIds, p \in RNodes : <<f, p>> \in AskIds /\ <<f, p>>[1] = f /\ <<f, p>>[2] = p
  BY DEF AskIds

\* Requests stay sound while flights only come.
LEMMA AsksKept ==
  ASSUME AsksSound, rasked' = rasked, DOMAIN flights \subseteq DOMAIN flights'
  PROVE  AsksSound'
  BY DEF AsksSound, AskSound

\* One flight changes.
LEMMA OneFlight ==
  ASSUME FlightsSound, NEW f \in DOMAIN flights, NEW fl,
         flights' = [flights EXCEPT ![f] = fl], FlightSound(fl, f), rnet' = rnet
  PROVE  FlightsSound' /\ DOMAIN flights' = DOMAIN flights
  <1>1. DOMAIN flights' = DOMAIN flights OBVIOUS
  <1>2. \A x \in DOMAIN flights : flights'[x] = IF x = f THEN fl ELSE flights[x] OBVIOUS
  <1>3. \A x \in DOMAIN flights : FlightSound(flights'[x], x) BY <1>2 DEF FlightsSound
  <1>4. \A x \in DOMAIN flights' : FlightSound(flights[x], x)'
    BY <1>1, <1>3 DEF FlightSound
  <1> QED BY <1>1, <1>4 DEF FlightsSound

\* One flight changes and no request is forgotten.
LEMMA FlightKeeps ==
  ASSUME RetrIInv, NEW f \in DOMAIN flights, NEW fl,
         flights' = [flights EXCEPT ![f] = fl], FlightSound(fl, f),
         fl.inflight \subseteq flights[f].inflight, UNCHANGED <<rasked, rkept, users, rnet>>
  PROVE  RetrIInv'
  <1>1. FlightsSound' /\ DOMAIN flights' = DOMAIN flights BY OneFlight DEF RetrIInv
  <1>2. AsksSound' BY <1>1, AsksKept DEF RetrIInv
  <1>3. NodesSound' BY DEF RetrIInv, NodesSound
  <1>4. \A x \in DOMAIN flights : flights'[x] = IF x = f THEN fl ELSE flights[x] OBVIOUS
  <1>5. InflightAsked' BY <1>1, <1>4 DEF RetrIInv, InflightAsked
  <1> QED BY <1>1, <1>2, <1>3, <1>5 DEF RetrIInv

\* closestPeer finds a peer, and for another peer's request one that is closer to the chunk.
LEMMA RClosestPeerFound ==
  ASSUME rnet \in RetrNets, NEW n \in RNodes, NEW skip, NEW upstream \in BOOLEAN
  PROVE  LET p == RClosestPeer(n, skip, upstream) IN
         p # RNone => p \in RNodes /\ (~upstream => rnet.dist[p] < rnet.dist[n])
  <1> DEFINE gs == {g \in 0 .. 2 : RCandidates(n, skip, g) # {}}
             C == RCandidates(n, skip, Max(gs))
             c == ClosestUpstream(n, skip, upstream)
  <1>1. CASE gs = {} BY <1>1 DEF RClosestPeer, ClosestUpstream
  <1>2. CASE gs # {}
    <2>1. c = RNearest(C) BY <1>2 DEF ClosestUpstream
    <2>2. Max(gs) \in gs BY <1>2, MaxGrade
    <2>3. C # {} BY <2>2
    <2>4. C \subseteq rnet.links[n] BY DEF RCandidates
    <2>5. rnet.links[n] \subseteq RNodes /\ n \notin rnet.links[n] BY DEF RetrNets
    <2>6. rnet.dist \in [RNodes -> Nat] BY DEF RetrNets
    <2>7. \A p \in C : rnet.dist[p] \in Nat BY <2>4, <2>5, <2>6
    <2> HIDE DEF C
    <2>8. \E p \in C : \A q \in C : rnet.dist[p] <= rnet.dist[q] BY <2>3, <2>7, LeastExists
    <2>9. RNearest(C) \in C BY <2>8 DEF RNearest
    <2>10. c \in RNodes /\ c # n BY <2>1, <2>4, <2>5, <2>9
    <2>11. rnet.dist[c] # rnet.dist[n] BY <2>10 DEF RetrNets
    <2> HIDE DEF c
    <2>12. rnet.dist[c] \in Nat /\ rnet.dist[n] \in Nat BY <2>6, <2>10
    <2>13. RClosestPeer(n, skip, upstream)
             = IF c # RNone /\ ~upstream /\ rnet.dist[c] > rnet.dist[n] THEN RNone ELSE c
      BY DEF RClosestPeer, c
    <2> QED BY <2>10, <2>11, <2>12, <2>13
  <1> QED BY <1>1, <1>2

\* retry() leaves a token to go on with.
LEMMA RRetryPositive ==
  ASSUME NEW t \in Nat
  PROVE  RRetry(t) \in Nat /\ RRetry(t) > 0
  BY MinOfTwo, RetrAssumption DEF RRetry

\* RetrieveChunk returns, with the chunk or an error.
LEMMA EndedKeeps ==
  ASSUME RetrIInv, NEW f \in DOMAIN flights, NEW res \in {"good", "failed"}, Ended(f, res),
         UNCHANGED <<rasked, rkept, users, rnet>>
  PROVE  RetrIInv'
  <1> DEFINE fl == [flights[f] EXCEPT !.st = "over", !.res = res]
  <1>1. FlightSound(flights[f], f) BY DEF RetrIInv, FlightsSound
  <1>2. flights' = [flights EXCEPT ![f] = fl] BY <1>1 DEF Ended, FlightSound, FlightRecords
  <1>3. fl \in FlightRecords /\ fl.st = "over" /\ fl.res = res /\ fl.inflight = flights[f].inflight
    BY <1>1 DEF FlightSound, FlightRecords
  <1> HIDE DEF fl
  <1>4. FlightSound(fl, f) BY <1>1, <1>3 DEF FlightSound
  <1> QED BY <1>2, <1>3, <1>4, FlightKeeps

\* The tokens of a flight change, or what it has put aside; one token is left or a request in
\* flight.
LEMMA RTokensKeep ==
  ASSUME RetrIInv, NEW f \in DOMAIN flights, flights[f].st = "loop", NEW t \in Nat, NEW o \in SUBSET RNodes,
         t > 0 \/ flights[f].inflight # {},
         flights' = [flights EXCEPT ![f].over = o, ![f].tokens = t],
         UNCHANGED <<rasked, rkept, users, rnet>>
  PROVE  RetrIInv'
  <1> DEFINE fl == [flights[f] EXCEPT !.over = o, !.tokens = t]
  <1>1. FlightSound(flights[f], f) BY DEF RetrIInv, FlightsSound
  <1>2. flights' = [flights EXCEPT ![f] = fl] BY <1>1 DEF FlightSound, FlightRecords
  <1>3. /\ fl \in FlightRecords /\ fl.st = "loop" /\ fl.tokens = t
        /\ fl.inflight = flights[f].inflight
    BY <1>1 DEF FlightSound, FlightRecords
  <1> HIDE DEF fl
  <1>4. FlightSound(fl, f) BY <1>1, <1>3 DEF FlightSound
  <1> QED BY <1>2, <1>3, <1>4, FlightKeeps

\* closestPeer finds nobody: the loop waits, goes on or ends.
LEMMA RNoPeerKeeps ==
  ASSUME RetrIInv, NEW f \in DOMAIN flights, RNoPeer(f)
  PROVE  RetrIInv'
  <1> DEFINE b == flights[f]
             t == b.tokens
  <1>0. /\ b.st = "loop" /\ t > 0 /\ UNCHANGED <<rasked, rkept, users, rnet>>
        /\ b \in FlightRecords /\ t \in Nat /\ b.over \in SUBSET RNodes
    BY DEF RNoPeer, InLoop, RetrIInv, FlightsSound, FlightSound, FlightRecords
  <1>1. CASE b.over # {}
    <2>1. flights' = [flights EXCEPT ![f].over = {}, ![f].tokens = RRetry(@ - 1)]
      BY <1>1 DEF RNoPeer
    <2>2. flights' = [flights EXCEPT ![f].over = {}, ![f].tokens = RRetry(t - 1)]
      BY <2>1, <1>0 DEF FlightRecords
    <2>3. t - 1 \in Nat BY <1>0
    <2>4. RRetry(t - 1) \in Nat /\ RRetry(t - 1) > 0 BY <2>3, RRetryPositive
    <2> QED BY <1>0, <2>2, <2>4, RTokensKeep
  <1>2. CASE b.over = {} /\ b.inflight # {}
    <2>1. flights' = [flights EXCEPT ![f].tokens = @ - 1] BY <1>2 DEF RNoPeer
    <2>2. flights' = [flights EXCEPT ![f].over = b.over, ![f].tokens = t - 1]
      BY <2>1, <1>0 DEF FlightRecords
    <2>3. t - 1 \in Nat BY <1>0
    <2> QED BY <1>0, <1>2, <2>2, <2>3, RTokensKeep
  <1>3. CASE b.over = {} /\ b.inflight = {}
    <2>1. Ended(f, "failed") BY <1>3 DEF RNoPeer
    <2> QED BY <1>0, <2>1, EndedKeeps
  <1> QED BY <1>1, <1>2, <1>3

\* Peers with an overdraft are tried again after overDraftRefresh.
LEMMA RRefreshKeeps ==
  ASSUME RetrIInv, NEW f \in DOMAIN flights, RRefresh(f)
  PROVE  RetrIInv'
  <1> DEFINE t == flights[f].tokens
  <1>0. FlightSound(flights[f], f) BY DEF RetrIInv, FlightsSound
  <1>1. /\ flights[f].st = "loop" /\ flights' = [flights EXCEPT ![f].over = {}]
        /\ UNCHANGED <<rasked, rkept, users, rnet>>
    BY DEF RRefresh
  <1>2. t \in Nat /\ (t > 0 \/ flights[f].inflight # {})
    BY <1>0, <1>1 DEF FlightSound, FlightRecords
  <1>3. flights' = [flights EXCEPT ![f].over = {}, ![f].tokens = t]
    BY <1>0, <1>1 DEF FlightSound, FlightRecords
  <1> QED BY <1>1, <1>2, <1>3, RTokensKeep

\* The ticker of the preemptive requests fires and adds a token.
LEMMA RTickKeeps ==
  ASSUME RetrIInv, NEW f \in DOMAIN flights, RTick(f)
  PROVE  RetrIInv'
  <1> DEFINE t == flights[f].tokens
             o == flights[f].over
  <1>0. FlightSound(flights[f], f) BY DEF RetrIInv, FlightsSound
  <1>1. /\ flights[f].st = "loop" /\ flights' = [flights EXCEPT ![f].tokens = RRetry(@)]
        /\ UNCHANGED <<rasked, rkept, users, rnet>>
    BY DEF RTick
  <1>2. t \in Nat /\ o \in SUBSET RNodes BY <1>0 DEF FlightSound, FlightRecords
  <1>3. RRetry(t) \in Nat /\ RRetry(t) > 0 BY <1>2, RRetryPositive
  <1>4. flights' = [flights EXCEPT ![f].over = o, ![f].tokens = RRetry(t)]
    BY <1>0, <1>1 DEF FlightSound, FlightRecords
  <1> QED BY <1>1, <1>2, <1>3, <1>4, RTokensKeep

\* What is left of a flight whose token is taken for a peer.
LEMMA RMultiplexedTyped ==
  ASSUME NEW fl \in FlightRecords, NEW p
  PROVE  LET m == RMultiplexed(fl, p) IN
         /\ m \in FlightRecords /\ m.st = fl.st /\ m.res = fl.res /\ m.inflight = fl.inflight
  <1>1. CASE p \in rnet.near /\ fl.forwards > 0
    <2> DEFINE t == Min({fl.tokens + fl.forwards, MaxForwards + 1})
               l == fl.left + fl.forwards
               m == [fl EXCEPT !.tokens = t, !.left = l, !.forwards = 0]
    <2>1. fl.tokens \in Nat /\ fl.forwards \in Nat /\ fl.left \in Int BY DEF FlightRecords
    <2>2. t \in Nat BY <2>1, MinOfTwo, RetrAssumption
    <2>3. RMultiplexed(fl, p) = m BY <1>1 DEF RMultiplexed, FlightRecords
    <2>4. l \in Int BY <2>1
    <2> HIDE DEF t, l
    <2>5. m \in FlightRecords /\ m.st = fl.st /\ m.res = fl.res /\ m.inflight = fl.inflight
      BY <2>2, <2>4 DEF FlightRecords
    <2> HIDE DEF m
    <2> QED BY <2>3, <2>5
  <1>2. CASE ~(p \in rnet.near /\ fl.forwards > 0)
    <2>1. RMultiplexed(fl, p) = fl BY <1>2 DEF RMultiplexed
    <2> QED BY <2>1
  <1> QED BY <1>1, <1>2

\* A flight asks the closest peer that is left.
LEMMA AskKeeps ==
  ASSUME RetrIInv, NEW f \in DOMAIN flights, Ask(f)
  PROVE  RetrIInv'
  <1> DEFINE p == RClosestPeer(f[1], RetrSkipped(f), f[2] = "origin")
             b == flights[f]
             b0 == [b EXCEPT !.tokens = @ - 1]
             fl == RMultiplexed(b0, p)
  <1>0. /\ b.st = "loop" /\ b.tokens > 0 /\ UNCHANGED <<rkept, users, rnet>> /\ p # RNone
        /\ FlightSound(b, f) /\ b \in FlightRecords /\ b.tokens \in Nat /\ f \in FlightIds
    BY DEF Ask, InLoop, RetrIInv, FlightsSound, FlightSound, FlightRecords
  <1>1. p \in RNodes /\ (f[2] = "forward" => rnet.dist[p] < rnet.dist[f[1]])
    <2>1. f[1] \in RNodes /\ (f[2] = "origin") \in BOOLEAN BY <1>0, FlightTriple
    <2> QED BY <1>0, <2>1, RClosestPeerFound DEF RetrIInv
  <1>2. b0 \in FlightRecords /\ b0.st = "loop" /\ b0.inflight = b.inflight
    BY <1>0 DEF FlightRecords
  <1>3. fl \in FlightRecords /\ fl.st = "loop" /\ fl.inflight = b.inflight
    <2> HIDE DEF b0
    <2> QED BY <1>2, RMultiplexedTyped
  <1>4. \/ /\ flights' = [flights EXCEPT ![f] = [fl EXCEPT !.over = @ \cup {p}, !.tokens = RRetry(@)]]
           /\ UNCHANGED rasked
        \/ /\ flights' = [flights EXCEPT ![f] = [fl EXCEPT !.skip = @ \cup {p}, !.inflight = @ \cup {p}]]
           /\ rasked' = WithEntry(rasked, <<f, p>>, [st |-> "wire", on |-> 0, res |-> "none"])
    BY DEF Ask
  <1> HIDE DEF p, fl, b0
  <1>5. CASE /\ flights' = [flights EXCEPT ![f] = [fl EXCEPT !.over = @ \cup {p}, !.tokens = RRetry(@)]]
             /\ UNCHANGED rasked
    <2> DEFINE g == [fl EXCEPT !.over = @ \cup {p}, !.tokens = RRetry(@)]
    <2>1. fl.tokens \in Nat BY <1>3 DEF FlightRecords
    <2>2. RRetry(fl.tokens) \in Nat /\ RRetry(fl.tokens) > 0 BY <2>1, RRetryPositive
    <2>3. /\ g \in FlightRecords /\ g.st = "loop" /\ g.tokens > 0 /\ g.inflight = b.inflight
      BY <1>1, <1>3, <2>2 DEF FlightRecords
    <2>4. flights' = [flights EXCEPT ![f] = g] BY <1>5
    <2> HIDE DEF g
    <2>5. FlightSound(g, f) BY <1>0, <2>3 DEF FlightSound
    <2> QED BY <1>0, <1>5, <2>3, <2>4, <2>5, FlightKeeps
  <1>6. CASE /\ flights' = [flights EXCEPT ![f] = [fl EXCEPT !.skip = @ \cup {p}, !.inflight = @ \cup {p}]]
             /\ rasked' = WithEntry(rasked, <<f, p>>, [st |-> "wire", on |-> 0, res |-> "none"])
    <2> DEFINE g == [fl EXCEPT !.skip = @ \cup {p}, !.inflight = @ \cup {p}]
               a == [st |-> "wire", on |-> 0, res |-> "none"]
               s == <<f, p>>
    <2>1. g \in FlightRecords /\ g.st = "loop" /\ g.inflight = b.inflight \cup {p}
      BY <1>1, <1>3 DEF FlightRecords
    <2>2. flights' = [flights EXCEPT ![f] = g] BY <1>6
    <2> HIDE DEF g
    <2>3. FlightSound(g, f) BY <1>0, <1>1, <2>1 DEF FlightSound
    <2>4. FlightsSound' /\ DOMAIN flights' = DOMAIN flights
      BY <1>0, <2>2, <2>3, OneFlight DEF RetrIInv
    <2>5. a \in AskRecords /\ a.st = "wire" BY DEF AskRecords
    <2>6. s \in AskIds /\ s[1] = f BY <1>0, <1>1, AskPair
    <2>7. rasked' = WithEntry(rasked, s, a) BY <1>6
    <2> HIDE DEF a, s
    <2>8. /\ DOMAIN rasked' = DOMAIN rasked \cup {s}
          /\ \A q \in DOMAIN rasked' : rasked'[q] = IF q \in DOMAIN rasked THEN rasked[q] ELSE a
      BY <2>7 DEF WithEntry
    <2>9. AsksSound'
      <3>1. DOMAIN rasked' \subseteq AskIds BY <2>6, <2>8 DEF RetrIInv, AsksSound
      <3>2. ASSUME NEW q \in DOMAIN rasked' PROVE AskSound(rasked[q], q)'
        <4>1. CASE q \in DOMAIN rasked BY <2>4, <2>8, <4>1 DEF RetrIInv, AsksSound, AskSound
        <4>2. CASE q \notin DOMAIN rasked
          <5>1. q = s /\ rasked'[q] = a BY <2>8, <4>2
          <5> QED BY <1>0, <2>4, <2>5, <2>6, <5>1 DEF AskSound
        <4> QED BY <4>1, <4>2
      <3> QED BY <3>1, <3>2 DEF AsksSound
    <2>10. NodesSound' BY <1>0 DEF RetrIInv, NodesSound
    <2>11. InflightAsked'
      <3> SUFFICES ASSUME NEW x \in DOMAIN flights, NEW y \in flights'[x].inflight
                   PROVE  <<x, y>> \in DOMAIN rasked'
        BY <2>4 DEF InflightAsked
      <3>1. flights'[x] = IF x = f THEN g ELSE flights[x] BY <2>2
      <3>2. CASE x = f /\ y = p BY <2>8, <3>2 DEF s
      <3>3. CASE ~(x = f /\ y = p)
        <4>1. y \in flights[x].inflight BY <2>1, <3>1, <3>3
        <4> QED BY <2>8, <4>1 DEF RetrIInv, InflightAsked
      <3> QED BY <3>2, <3>3
    <2> QED BY <1>0, <2>4, <2>9, <2>10, <2>11 DEF RetrIInv
  <1> QED BY <1>4, <1>5, <1>6

\* An error leaves a flight with one request less and a token, or ends it.
LEMMA RetrFailedKeeps ==
  ASSUME RetrIInv, NEW f \in DOMAIN flights, NEW p, flights[f].st = "loop", RetrFailed(f, p),
         UNCHANGED <<rasked, rkept, users, rnet>>
  PROVE  RetrIInv'
  <1> DEFINE b == flights[f]
             last == b.left = 1
             i == b.inflight \ {p}
             l == b.left - 1
             t == RRetry(b.tokens)
             st == IF last THEN "over" ELSE b.st
             res == IF last THEN "failed" ELSE b.res
             fl == [b EXCEPT !.inflight = i, !.left = l, !.tokens = t, !.st = st, !.res = res]
  <1>0. FlightSound(b, f) /\ b \in FlightRecords BY DEF RetrIInv, FlightsSound, FlightSound
  <1>1. flights' = [flights EXCEPT ![f] = fl] BY <1>0 DEF RetrFailed, FlightRecords
  <1>2. b.tokens \in Nat /\ b.left \in Int /\ i \in SUBSET RNodes /\ i \subseteq b.inflight
    BY <1>0 DEF FlightRecords
  <1>3. t \in Nat /\ t > 0 /\ l \in Int BY <1>2, RRetryPositive
  <1>4. /\ st \in {"loop", "over"} /\ res \in {"none", "good", "failed"}
        /\ st = "over" => res # "none"
    BY <1>0 DEF FlightRecords
  <1> HIDE DEF i, l, t, st, res
  <1>5. /\ fl \in FlightRecords /\ fl.st = st /\ fl.res = res /\ fl.tokens = t /\ fl.inflight = i
    BY <1>0, <1>2, <1>3, <1>4 DEF FlightRecords
  <1> HIDE DEF fl
  <1>6. FlightSound(fl, f) BY <1>0, <1>2, <1>3, <1>4, <1>5 DEF FlightSound
  <1> QED BY <1>1, <1>2, <1>5, <1>6, FlightKeeps

\* The answer of a peer is taken off the result channel.
LEMMA RResultKeeps ==
  ASSUME RetrIInv, NEW f \in DOMAIN flights, NEW p \in flights[f].inflight, RResult(f, p)
  PROVE  RetrIInv'
  <1> DEFINE b == flights[f]
             s == <<f, p>>
             res == Checked(rasked[s].res)
             i == b.inflight \ {p}
             fl == [b EXCEPT !.st = "over", !.res = res, !.inflight = i]
  <1>0. b.st = "loop" /\ rasked[s].st = "answered" /\ UNCHANGED <<rasked, rkept, users, rnet>>
    BY DEF RResult
  <1>1. FlightSound(b, f) /\ b \in FlightRecords BY DEF RetrIInv, FlightsSound, FlightSound
  <1>2. s \in DOMAIN rasked BY DEF RetrIInv, InflightAsked
  <1>3. rasked[s] \in AskRecords /\ rasked[s].res # "none"
    BY <1>0, <1>2 DEF RetrIInv, AsksSound, AskSound
  <1>4. res \in {"good", "failed"} BY <1>3 DEF Checked, AskRecords
  <1>5. CASE res = "failed" /\ RetrFailed(f, p) BY <1>0, <1>5, RetrFailedKeeps
  <1>6. CASE flights' = [flights EXCEPT ![f].st = "over", ![f].res = res, ![f].inflight = @ \ {p}]
    <2> HIDE DEF res
    <2>1. flights' = [flights EXCEPT ![f] = fl] BY <1>1, <1>6 DEF FlightRecords
    <2>2. i \in SUBSET RNodes /\ i \subseteq b.inflight BY <1>1 DEF FlightRecords
    <2> HIDE DEF i
    <2>3. fl \in FlightRecords /\ fl.st = "over" /\ fl.res = res /\ fl.inflight = i
      BY <1>1, <1>4, <2>2 DEF FlightRecords
    <2> HIDE DEF fl
    <2>4. FlightSound(fl, f) BY <1>1, <1>4, <2>2, <2>3 DEF FlightSound
    <2> QED BY <1>0, <2>1, <2>2, <2>3, <2>4, FlightKeeps
  <1> QED BY <1>5, <1>6 DEF RResult

\* A request ends in an error before the peer answers it.
LEMMA RequestFailsKeeps ==
  ASSUME RetrIInv, NEW f \in DOMAIN flights, NEW p \in flights[f].inflight, RequestFails(f, p)
  PROVE  RetrIInv'
  BY RetrFailedKeeps DEF RequestFails

\* The context of a flight ends.
LEMMA CancelledKeeps ==
  ASSUME RetrIInv, NEW f \in DOMAIN flights, FlightCancelled(f)
  PROVE  RetrIInv'
  BY EndedKeeps DEF FlightCancelled

\* singleflight: a caller joins the flight that runs, or begins one.
LEMMA JoinSound ==
  ASSUME RetrIInv, NEW n \in RNodes, NEW k \in Kinds, CanJoin(n, k), NEW src \in SUBSET RNodes
  PROVE  LET j == Join(n, k, src) IN
         /\ j.g \in 1 .. MaxFlights /\ <<n, k, j.g>> \in DOMAIN j.fs
         /\ DOMAIN flights \subseteq DOMAIN j.fs /\ DOMAIN j.fs \subseteq FlightIds
         /\ \A f \in DOMAIN j.fs : /\ FlightSound(j.fs[f], f)
                                   /\ \A p \in j.fs[f].inflight : <<f, p>> \in DOMAIN rasked
  <1>1. CASE Running(n, k) # {}
    <2> DEFINE g == Min(Running(n, k))
    <2>1. Join(n, k, src) = [g |-> g, fs |-> flights] BY <1>1 DEF Join
    <2>2. Running(n, k) \subseteq Nat BY RetrAssumption DEF Running
    <2>3. g \in Running(n, k) BY <1>1, <2>2, MinIsMember
    <2>4. g \in 1 .. MaxFlights /\ <<n, k, g>> \in DOMAIN flights BY <2>3 DEF Running
    <2> HIDE DEF g
    <2> QED BY <2>1, <2>4 DEF RetrIInv, FlightsSound, InflightAsked
  <1>2. CASE Running(n, k) = {}
    <2> DEFINE g == Min(RetrUnused(n, k))
               b == Begun(k, src)
               fs == WithEntry(flights, <<n, k, g>>, b)
    <2>1. Join(n, k, src) = [g |-> g, fs |-> fs] BY <1>2 DEF Join
    <2>2. RetrUnused(n, k) \subseteq Nat BY RetrAssumption DEF RetrUnused
    <2>3. g \in RetrUnused(n, k) BY <1>2, <2>2, MinIsMember DEF CanJoin
    <2>4. g \in 1 .. MaxFlights BY <2>3 DEF RetrUnused
    <2>5. <<n, k, g>> \in FlightIds BY <2>4, FlightTriple
    <2>6. b \in FlightRecords /\ b.st = "loop" /\ b.tokens > 0 /\ b.inflight = {}
      BY RetrAssumption DEF Begun, FlightRecords
    <2> HIDE DEF g, b
    <2>7. /\ DOMAIN fs = DOMAIN flights \cup {<<n, k, g>>}
          /\ \A f \in DOMAIN fs : fs[f] = IF f \in DOMAIN flights THEN flights[f] ELSE b
      BY DEF WithEntry
    <2> HIDE DEF fs
    <2>8. \A f : FlightSound(b, f) BY <2>6 DEF FlightSound
    <2>9. \A f \in DOMAIN fs : /\ FlightSound(fs[f], f)
                               /\ \A p \in fs[f].inflight : <<f, p>> \in DOMAIN rasked
      BY <2>6, <2>7, <2>8 DEF RetrIInv, FlightsSound, InflightAsked
    <2>10. DOMAIN fs \subseteq FlightIds BY <2>5, <2>7 DEF RetrIInv, FlightsSound
    <2> QED BY <2>1, <2>4, <2>7, <2>9, <2>10
  <1> QED BY <1>1, <1>2

\* A user asks for the chunk, and joins or begins the node's own flight.
LEMMA DownloadKeeps ==
  ASSUME RetrIInv, NEW n \in RNodes, Download(n)
  PROVE  RetrIInv'
  <1>0. UNCHANGED <<rasked, rkept, rnet>> BY DEF Download
  <1>1. CASE rkept[n] # "no"
    <2>1. users' = [users EXCEPT ![n] = rkept[n]] /\ UNCHANGED flights BY <1>1 DEF Download
    <2>2. rkept[n] = "good" BY <1>1 DEF RetrIInv, NodesSound
    <2>3. NodesSound' BY <1>0, <2>1, <2>2 DEF RetrIInv, NodesSound
    <2>4. FlightsSound' /\ InflightAsked'
      BY <1>0, <2>1 DEF RetrIInv, FlightsSound, FlightSound, InflightAsked
    <2>5. AsksSound' BY <1>0, <2>1, AsksKept DEF RetrIInv
    <2> QED BY <1>0, <2>3, <2>4, <2>5 DEF RetrIInv
  <1>2. CASE rkept[n] = "no"
    <2> DEFINE j == Join(n, "origin", {})
    <2>1. CanJoin(n, "origin") /\ flights' = j.fs /\ users' = [users EXCEPT ![n] = "wait"]
      BY <1>2 DEF Download
    <2>2. "origin" \in Kinds /\ {} \in SUBSET RNodes BY DEF Kinds
    <2>3. /\ DOMAIN flights \subseteq DOMAIN j.fs /\ DOMAIN j.fs \subseteq FlightIds
          /\ \A f \in DOMAIN j.fs : /\ FlightSound(j.fs[f], f)
                                    /\ \A p \in j.fs[f].inflight : <<f, p>> \in DOMAIN rasked
      BY <2>1, <2>2, JoinSound
    <2> HIDE DEF j
    <2>4. FlightsSound' BY <1>0, <2>1, <2>3 DEF FlightsSound, FlightSound
    <2>5. InflightAsked' BY <1>0, <2>1, <2>3 DEF InflightAsked
    <2>6. AsksSound' BY <1>0, <2>1, <2>3, AsksKept DEF RetrIInv
    <2>7. NodesSound' BY <1>0, <2>1 DEF RetrIInv, NodesSound
    <2> QED BY <1>0, <2>4, <2>5, <2>6, <2>7 DEF RetrIInv
  <1> QED BY <1>1, <1>2

\* What the nodes have changes, and nothing else.
LEMMA NodesKeep ==
  ASSUME RetrIInv, UNCHANGED <<flights, rasked, rnet>>, NodesSound'
  PROVE  RetrIInv'
  <1>1. FlightsSound' /\ InflightAsked' BY DEF RetrIInv, FlightsSound, FlightSound, InflightAsked
  <1>2. AsksSound' BY AsksKept DEF RetrIInv
  <1> QED BY <1>1, <1>2 DEF RetrIInv

\* A user gets what the flight it waited for brought.
LEMMA DownloadedKeeps ==
  ASSUME RetrIInv, NEW n \in RNodes, Downloaded(n)
  PROVE  RetrIInv'
  <1>1. PICK g \in (1 .. MaxFlights) \ RetrUnused(n, "origin") :
          LET f == flights[<<n, "origin", g>>]
          IN  /\ f.st = "over"
              /\ users' = [users EXCEPT ![n] = f.res]
              /\ rkept' = [rkept EXCEPT ![n] = IF f.res = "failed" \/ @ # "no" THEN @ ELSE f.res]
              /\ UNCHANGED <<flights, rasked, rnet>>
    BY DEF Downloaded
  <1> DEFINE f == flights[<<n, "origin", g>>]
             kept == IF f.res = "failed" \/ rkept[n] # "no" THEN rkept[n] ELSE f.res
  <1>2. <<n, "origin", g>> \in DOMAIN flights BY DEF RetrUnused
  <1>3. FlightSound(f, <<n, "origin", g>>) BY <1>2 DEF RetrIInv, FlightsSound
  <1>4. f.res \in {"good", "failed"} BY <1>1, <1>3 DEF FlightSound, FlightRecords
  <1>5. rkept[n] \in {"no", "good"} BY DEF RetrIInv, NodesSound
  <1>6. rkept' = [rkept EXCEPT ![n] = kept] /\ users' = [users EXCEPT ![n] = f.res]
    BY <1>1 DEF RetrIInv, NodesSound
  <1>7. kept \in {"no", "good"} BY <1>4, <1>5
  <1> HIDE DEF f, kept
  <1>8. NodesSound' BY <1>4, <1>6, <1>7 DEF RetrIInv, NodesSound
  <1>9. UNCHANGED <<flights, rasked, rnet>> BY <1>1
  <1> QED BY <1>8, <1>9, NodesKeep

\* One request changes.
LEMMA OneAsk ==
  ASSUME RetrIInv, NEW q \in DOMAIN rasked, NEW a, rasked' = [rasked EXCEPT ![q] = a],
         AskSound(rasked[q], q)', DOMAIN flights \subseteq DOMAIN flights'
  PROVE  AsksSound' /\ DOMAIN rasked' = DOMAIN rasked
  <1>1. DOMAIN rasked' = DOMAIN rasked OBVIOUS
  <1>2. \A x \in DOMAIN rasked : rasked'[x] = IF x = q THEN a ELSE rasked[x] OBVIOUS
  <1>3. \A x \in DOMAIN rasked : x # q /\ AskSound(rasked[x], x) => AskSound(rasked[x], x)'
    BY <1>2 DEF AskSound
  <1>5. \A x \in DOMAIN rasked : AskSound(rasked[x], x)'
    BY <1>3 DEF RetrIInv, AsksSound
  <1> QED BY <1>1, <1>5 DEF RetrIInv, AsksSound

\* A handler takes a request: it has the chunk, or joins or begins the flight for peers.
LEMMA HandleKeeps ==
  ASSUME RetrIInv, NEW q \in DOMAIN rasked, RetrHandle(q)
  PROVE  RetrIInv'
  <1> DEFINE n == q[2]
             src == {q[1][1]}
             j == Join(n, "forward", src)
             a == [rasked[q] EXCEPT !.st = "join", !.on = j.g]
  <1>0. UNCHANGED <<rkept, users, rnet>> /\ CanJoin(n, "forward") /\ flights' = j.fs
    BY DEF RetrHandle
  <1>1. n \in RNodes /\ src \in SUBSET RNodes /\ "forward" \in Kinds
    BY AskPair, FlightTriple DEF RetrIInv, AsksSound, Kinds
  <1>2. /\ j.g \in 1 .. MaxFlights /\ <<n, "forward", j.g>> \in DOMAIN j.fs
        /\ DOMAIN flights \subseteq DOMAIN j.fs /\ DOMAIN j.fs \subseteq FlightIds
        /\ \A f \in DOMAIN j.fs : /\ FlightSound(j.fs[f], f)
                                  /\ \A p \in j.fs[f].inflight : <<f, p>> \in DOMAIN rasked
    BY <1>0, <1>1, JoinSound
  <1>3. AskSound(rasked[q], q) BY DEF RetrIInv, AsksSound
  <1>4. rasked' = [rasked EXCEPT ![q] = a] BY <1>3 DEF RetrHandle, AskSound, AskRecords
  <1> HIDE DEF j
  <1>5. j.g \in Nat BY <1>2, RetrAssumption
  <1>6. a \in AskRecords /\ a.st = "join" /\ a.on = j.g BY <1>3, <1>5 DEF AskSound, AskRecords
  <1> HIDE DEF a
  <1>7. AskSound(rasked[q], q)'
    <2>1. rasked'[q] = a BY <1>4
    <2> QED BY <1>0, <1>2, <1>3, <1>6, <2>1 DEF AskSound
  <1>8. AsksSound' /\ DOMAIN rasked' = DOMAIN rasked BY <1>0, <1>2, <1>4, <1>7, OneAsk
  <1>9. FlightsSound' BY <1>0, <1>2 DEF FlightsSound, FlightSound
  <1>10. InflightAsked' BY <1>0, <1>2, <1>8 DEF InflightAsked
  <1>11. NodesSound' BY <1>0 DEF RetrIInv, NodesSound
  <1> QED BY <1>0, <1>8, <1>9, <1>10, <1>11 DEF RetrIInv

\* A handler answers.
LEMMA AnswerKeeps ==
  ASSUME RetrIInv, NEW q \in DOMAIN rasked, NEW res \in {"good", "bad", "failed"},
         rasked' = [rasked EXCEPT ![q].st = "answered", ![q].res = res],
         UNCHANGED <<flights, rnet>>, NodesSound'
  PROVE  RetrIInv'
  <1> DEFINE a == [rasked[q] EXCEPT !.st = "answered", !.res = res]
  <1>1. AskSound(rasked[q], q) BY DEF RetrIInv, AsksSound
  <1>2. rasked' = [rasked EXCEPT ![q] = a] BY <1>1 DEF AskSound, AskRecords
  <1>3. a \in AskRecords /\ a.st = "answered" /\ a.res = res BY <1>1 DEF AskSound, AskRecords
  <1> HIDE DEF a
  <1>4. AskSound(rasked[q], q)'
    <2>1. rasked'[q] = a BY <1>2
    <2> QED BY <1>1, <1>3, <2>1 DEF AskSound
  <1>5. AsksSound' /\ DOMAIN rasked' = DOMAIN rasked BY <1>2, <1>4, OneAsk
  <1>6. FlightsSound' BY DEF RetrIInv, FlightsSound, FlightSound
  <1>7. InflightAsked' BY <1>5 DEF RetrIInv, InflightAsked
  <1> QED BY <1>5, <1>6, <1>7 DEF RetrIInv

\* A handler answers with what its flight brought, and keeps the chunk.
LEMMA DeliverKeeps ==
  ASSUME RetrIInv, NEW q \in DOMAIN rasked, Deliver(q)
  PROVE  RetrIInv'
  <1> DEFINE res == Found(q)
             n == q[2]
  <1>0. RetrReady(q) /\ UNCHANGED <<flights, users, rnet>> BY DEF Deliver
  <1>1. q \in AskIds /\ AskSound(rasked[q], q) BY DEF RetrIInv, AsksSound
  <1>2. n \in RNodes /\ rkept[n] \in {"no", "good"} BY <1>1, AskPair DEF RetrIInv, NodesSound
  <1>3. res \in {"good", "failed"}
    <2>1. CASE rasked[q].st = "wire" BY <1>0, <1>2, <2>1 DEF RetrReady, Found
    <2>2. CASE rasked[q].st # "wire"
      <3> DEFINE f == <<q[2], "forward", rasked[q].on>>
      <3>1. rasked[q].st = "join" /\ flights[f].st = "over" /\ res = flights[f].res
        BY <1>0, <2>2 DEF RetrReady, Found
      <3>2. f \in DOMAIN flights BY <1>1, <3>1 DEF AskSound
      <3>3. FlightSound(flights[f], f) BY <3>2 DEF RetrIInv, FlightsSound
      <3> QED BY <3>1, <3>3 DEF FlightSound, FlightRecords
    <2> QED BY <2>1, <2>2
  <1>4. CASE /\ rasked' = [rasked EXCEPT ![q].st = "answered", ![q].res = res]
             /\ rkept' = [rkept EXCEPT ![n] = IF @ = "no" /\ rnet.caching /\ res # "failed" THEN res ELSE @]
    <2> DEFINE kept == IF rkept[n] = "no" /\ rnet.caching /\ res # "failed" THEN res ELSE rkept[n]
    <2> HIDE DEF res
    <2>1. kept \in {"no", "good"} BY <1>2, <1>3
    <2>2. rkept' = [rkept EXCEPT ![n] = kept] BY <1>4 DEF RetrIInv, NodesSound
    <2> HIDE DEF kept
    <2>3. NodesSound' BY <1>0, <2>1, <2>2 DEF RetrIInv, NodesSound
    <2> QED BY <1>0, <1>3, <1>4, <2>3, AnswerKeeps
  <1>5. CASE /\ \E x \in {"bad", "failed"} : rasked' = [rasked EXCEPT ![q].st = "answered", ![q].res = x]
             /\ UNCHANGED rkept
    <2>1. PICK x \in {"bad", "failed"} : rasked' = [rasked EXCEPT ![q].st = "answered", ![q].res = x]
      BY <1>5
    <2>2. NodesSound' BY <1>0, <1>5 DEF RetrIInv, NodesSound
    <2> QED BY <1>0, <2>1, <2>2, AnswerKeeps
  <1> QED BY <1>4, <1>5 DEF Deliver

\* A handler gives up before its flight is over.
LEMMA GoneKeeps ==
  ASSUME RetrIInv, NEW q \in DOMAIN rasked, HandlerGone(q)
  PROVE  RetrIInv'
  <1>1. /\ rasked' = [rasked EXCEPT ![q].st = "answered", ![q].res = "failed"]
        /\ UNCHANGED <<flights, rkept, users, rnet>>
    BY DEF HandlerGone
  <1>2. NodesSound' BY <1>1 DEF RetrIInv, NodesSound
  <1> QED BY <1>1, <1>2, AnswerKeeps

\* At first nobody asks, and the holders have the chunk.
LEMMA RetrInitially ==
  ASSUME NEW net \in RetrNets, RetrInit(net)
  PROVE  RetrIInv
  <1>1. DOMAIN flights = {} /\ DOMAIN rasked = {} BY DEF RetrInit
  <1>2. FlightsSound /\ AsksSound /\ InflightAsked
    BY <1>1 DEF FlightsSound, AsksSound, InflightAsked
  <1>3. NodesSound BY DEF RetrInit, NodesSound
  <1> QED BY <1>2, <1>3 DEF RetrInit, RetrIInv

\* Every step of retrieval keeps the invariant.
LEMMA RetrStep ==
  ASSUME RetrIInv, [RetrNext]_retrVars
  PROVE  RetrIInv'
  <1>1. CASE UNCHANGED retrVars
    <2>1. UNCHANGED <<flights, rasked, rkept, users, rnet>> BY <1>1 DEF retrVars
    <2>2. NodesSound' BY <2>1 DEF RetrIInv, NodesSound
    <2> QED BY <2>1, <2>2, NodesKeep
  <1>2. ASSUME NEW n \in RNodes, UserStep(n) PROVE RetrIInv'
    BY <1>2, DownloadKeeps, DownloadedKeeps DEF UserStep
  <1>3. ASSUME NEW f \in DOMAIN flights, FlightStep(f) PROVE RetrIInv'
    BY <1>3, RNoPeerKeeps, AskKeeps, CancelledKeeps, RResultKeeps DEF FlightStep
  <1>4. ASSUME NEW f \in DOMAIN flights, RRefresh(f) PROVE RetrIInv' BY <1>4, RRefreshKeeps
  <1>5. ASSUME NEW f \in DOMAIN flights, RTick(f) PROVE RetrIInv' BY <1>5, RTickKeeps
  <1>6. ASSUME NEW f \in DOMAIN flights, NEW p \in flights[f].inflight, RequestFails(f, p)
        PROVE  RetrIInv'
    BY <1>6, RequestFailsKeeps
  <1>7. ASSUME NEW q \in DOMAIN rasked, AskStep(q) PROVE RetrIInv'
    BY <1>7, HandleKeeps, DeliverKeeps DEF AskStep
  <1>8. ASSUME NEW q \in DOMAIN rasked, HandlerGone(q) PROVE RetrIInv' BY <1>8, GoneKeeps
  <1> QED BY <1>1, <1>2, <1>3, <1>4, <1>5, <1>6, <1>7, <1>8 DEF RetrNext

\* Every wait of a flight for another is for one at a node closer to the chunk, so some flight
\* of a set waits for none of the set.
LEMMA WaitsEnd ==
  ASSUME RetrIInv
  PROVE  NoCyclicWait
  <1>1. ASSUME NEW f, NEW g, <<f, g>> \in WaitsFor
        PROVE  /\ f \in DOMAIN flights /\ g[2] = "forward"
               /\ g[1] \in RNodes /\ (f[2] = "forward" => rnet.dist[g[1]] < rnet.dist[f[1]])
    <2>1. PICK q \in DOMAIN rasked :
            /\ q[2] \in flights[q[1]].inflight
            /\ <<f, g>> = <<q[1], <<q[2], "forward", rasked[q].on>>>>
      BY <1>1 DEF WaitsFor
    <2>2. f = q[1] /\ g = <<q[2], "forward", rasked[q].on>> BY <2>1
    <2>3. f \in DOMAIN flights /\ q[2] \in RNodes
      BY <2>2, AskPair DEF RetrIInv, AsksSound, AskSound
    <2>4. g[1] = q[2] /\ g[2] = "forward" BY <2>2
    <2>5. FlightSound(flights[f], f) BY <2>3 DEF RetrIInv, FlightsSound
    <2> QED BY <2>1, <2>2, <2>3, <2>4, <2>5 DEF FlightSound
  <1> SUFFICES ASSUME NEW S \in SUBSET {e[1] : e \in WaitsFor}, S # {}
               PROVE  \E f \in S : \A g \in S : <<f, g>> \notin WaitsFor
    BY DEF NoCyclicWait
  <1> DEFINE F == {f \in S : f[2] = "forward"}
             d == [f \in F |-> rnet.dist[f[1]]]
  <1>2. CASE F = {}
    <2>1. PICK f \in S : TRUE OBVIOUS
    <2>2. \A g \in S : <<f, g>> \notin WaitsFor BY <1>1, <1>2
    <2> QED BY <2>2
  <1>3. CASE F # {}
    <2>1. \A f \in F : d[f] \in Nat
      <3> SUFFICES ASSUME NEW f \in F PROVE rnet.dist[f[1]] \in Nat OBVIOUS
      <3>1. PICK e \in WaitsFor : f = e[1] OBVIOUS
      <3>2. e = <<e[1], e[2]>> BY DEF WaitsFor
      <3>3. f \in DOMAIN flights BY <1>1, <3>1, <3>2
      <3>4. f[1] \in RNodes BY <3>3, FlightTriple DEF RetrIInv, FlightsSound
      <3>5. rnet.dist \in [RNodes -> Nat] BY DEF RetrIInv, RetrNets
      <3> QED BY <3>4, <3>5
    <2>2. PICK f \in F : \A g \in F : d[f] <= d[g]
      <3> HIDE DEF d, F
      <3> QED BY <1>3, <2>1, LeastExists
    <2>3. ASSUME NEW g \in S, <<f, g>> \in WaitsFor PROVE FALSE
      <3>1. g \in F /\ d[g] < d[f] BY <1>1, <2>3
      <3>2. d[f] <= d[g] /\ d[f] \in Nat /\ d[g] \in Nat BY <2>1, <2>2, <3>1
      <3> HIDE DEF d
      <3> QED BY <3>1, <3>2
    <2> QED BY <2>3
  <1> QED BY <1>2, <1>3

\* In every network a retrieval is never stuck, no two flights wait for one another through
\* whatever peers, and nobody keeps or is given anything but the chunk (RetrieveChunk,
\* retrieveChunk, handler).
THEOREM RetrievalsEnd == RetrSpec => []RetrievalSound
  <1>1. ASSUME RetrIInv PROVE RetrievalSound
    <2>1. NoCyclicWait BY <1>1, WaitsEnd
    <2>2. RetrievedValid
      BY <1>1 DEF RetrievedValid, RetrIInv, NodesSound, FlightsSound, FlightSound
    <2> QED BY <2>1, <2>2 DEF RetrievalSound
  <1>2. (\E net \in RetrNets : RetrInit(net)) => RetrIInv BY RetrInitially
  <1>3. RetrIInv /\ [RetrNext]_retrVars => RetrIInv' BY RetrStep
  <1> QED BY <1>1, <1>2, <1>3, PTL DEF RetrSpec
=============================================================================
