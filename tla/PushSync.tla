------------------------------ MODULE PushSync ------------------------------
(***************************************************************************)
(* The push-sync protocol: one chunk pushed into the network by its origin *)
(* and forwarded from node to node until one of them stores it and signs a *)
(* receipt, which goes back along the same streams.                        *)
(*                                                                         *)
(* A request is the pair <<u, n>> of the peer that sent the chunk and the  *)
(* node that handles it; <<o, o>> is PushChunkToClosest at the origin o.   *)
(* All requests of a node share its skip list, and each runs the loop of   *)
(* pushToClosest: tokens are the entries of retryC, inflight the pushes    *)
(* whose result has not been taken from resultChan.                        *)
(***************************************************************************)
EXTENDS Integers, FiniteSets, FiniteSetsExt

CONSTANTS PushNodes, NoNode, MaxPushErrors, MaxMultiplexForwards

ASSUME PushAssumption ==
    /\ NoNode \notin PushNodes
    /\ MaxPushErrors \in Nat \ {0} /\ MaxMultiplexForwards \in Nat \ {0}

VARIABLES
    preq,     \* the requests
    pskip,    \* skip list of each node: "no", "over" (overDraftRefresh) or "long" (sanctionWait)
    pheld,    \* nodes whose reserve has the chunk
    pcost,    \* what the requests have cost: faults, overdrafts, ticks, credits and debits
    pnet      \* the network: see PushInit

pushVars == <<preq, pskip, pheld, pcost, pnet>>

Root == <<pnet.origin, pnet.origin>>
PushRequests == PushNodes \X PushNodes

NoRequest == [st |-> "none", tokens |-> 0, left |-> 0, forwards |-> 0, inflight |-> {}, res |-> "none"]

\* links, distance of a node to the chunk, grade 2 for a healthy reachable peer, 1 for a
\* reachable one; nodes that are public, full, past warm-up; nodes whose storage radius
\* covers the chunk (aor), and nodes that see a peer as near enough to multiplex (near)
PushInit(net) ==
    /\ pnet = net
    /\ preq = [r \in PushRequests |->
                 IF r = <<net.origin, net.origin>> THEN [NoRequest EXCEPT !.st = "wire"] ELSE NoRequest]
    /\ pskip = [n \in PushNodes |-> [p \in PushNodes |-> "no"]]
    /\ pheld = {}
    /\ pcost = [faults |-> 0, overs |-> 0, ticks |-> 0, credit |-> {}, debit |-> {}]

PushFault == pcost.faults < pnet.faults
Spend(k) == [pcost EXCEPT ![k] = @ + 1]

\* List.ChunkPeers and Kad.ClosestPeer: nodes of at least grade g, the node itself if asked
Candidates(n, g, self) ==
    {p \in pnet.links[n] : pskip[n][p] = "no" /\ pnet.grade[p] >= g}
        \cup (IF self /\ n \in pnet.public THEN {n} ELSE {})

Nearest(S) == CHOOSE p \in S : \A q \in S : pnet.dist[p] <= pnet.dist[q]

\* closestPeer: healthy peers before reachable ones before any
ClosestPeer(n, origin) ==
    LET self == n \in pnet.full /\ ~origin
        gs   == {g \in 0 .. 2 : Candidates(n, g, self) # {}}
    IN  IF pnet.links[n] = {} \/ gs = {} THEN NoNode
        ELSE Nearest(Candidates(n, Max(gs), self))

\* retry(): a token, unless retryC is full
Retry(t) == Min({t + 1, MaxMultiplexForwards})

Reply(r, res) == preq' = [preq EXCEPT ![r].st = "replied", ![r].res = res]

-----------------------------------------------------------------------------
\* The handler, and PushChunkToClosest at the origin.

\* store: stamp, reserve, signature, debit and receipt; the chunk may be stored and the
\* receipt still not arrive
Stored(r, ok) ==
    /\ pheld' = IF ok = "nothing" THEN pheld ELSE pheld \cup {r[2]}
    /\ Reply(r, IF ok = "receipt" THEN "receipt" ELSE "error")
    /\ pcost' = IF ok = "receipt" THEN [pcost EXCEPT !.debit = @ \cup {r}] ELSE Spend("faults")

StoreOutcomes == {"receipt"} \cup (IF PushFault THEN {"nothing", "unsent"} ELSE {})

\* the chunk arrives: a node of its area of responsibility stores it, another one forwards it
Arrive(r) ==
    /\ preq[r].st = "wire"
    /\ UNCHANGED <<pskip, pnet>>
    /\ IF r # Root /\ r[2] \in pnet.public \cap pnet.aor
       THEN \E ok \in StoreOutcomes : Stored(r, ok)
       ELSE /\ UNCHANGED <<pheld, pcost>>
            /\ IF r[2] \notin pnet.warm THEN Reply(r, "error")
               ELSE preq' = [preq EXCEPT ![r] = [st |-> "loop", tokens |-> 1,
                        left |-> IF r = Root THEN MaxPushErrors ELSE 1,
                        forwards |-> MaxMultiplexForwards, inflight |-> {}, res |-> "none"]]

\* the loop ends with ErrWantSelf: a handler stores the chunk, the origin's caller is told
WantSelf(r) ==
    IF r = Root THEN Reply(r, "self") /\ UNCHANGED <<pheld, pcost>>
    ELSE \E ok \in StoreOutcomes : Stored(r, ok)

\* a token is taken and there is no peer: peers in overdraft are pruned from the skip list and
\* waited for; without them a request with nothing in flight is at its end
NoPeerLeft(r) ==
    LET n == r[2]
        over == {p \in PushNodes : pskip[n][p] = "over"}
    IN  /\ preq[r].st = "loop" /\ preq[r].tokens > 0 /\ preq[r].left > 0
        /\ ClosestPeer(n, r = Root) = NoNode
        /\ UNCHANGED pnet
        /\ IF over # {}
           THEN /\ pskip' = [pskip EXCEPT ![n] = [p \in PushNodes |-> IF p \in over THEN "no" ELSE @[p]]]
                /\ preq' = [preq EXCEPT ![r].tokens = Retry(@ - 1)]
                /\ UNCHANGED <<pheld, pcost>>
           ELSE /\ UNCHANGED pskip
                /\ IF preq[r].inflight # {}
                   THEN preq' = [preq EXCEPT ![r].tokens = @ - 1] /\ UNCHANGED <<pheld, pcost>>
                   ELSE IF n \in pnet.full THEN WantSelf(r)
                   ELSE Reply(r, "error") /\ UNCHANGED <<pheld, pcost>>

\* the node itself is the closest
SelfClosest(r) ==
    /\ preq[r].st = "loop" /\ preq[r].tokens > 0 /\ preq[r].left > 0
    /\ ClosestPeer(r[2], r = Root) = r[2]
    /\ UNCHANGED <<pskip, pnet>>
    /\ IF preq[r].inflight # {}
       THEN preq' = [preq EXCEPT ![r].tokens = @ - 1] /\ UNCHANGED <<pheld, pcost>>
       ELSE WantSelf(r)

\* what a node that can reach into the neighbourhood adds: tokens (of q) and errors to spare
Multiplexed(q, p, n) ==
    IF p \in pnet.near[n] /\ q.forwards > 0
    THEN [q EXCEPT !.tokens = Min({@ + q.forwards, MaxMultiplexForwards}),
                   !.left = @ + q.forwards, !.forwards = 0]
    ELSE q

\* a token is taken and a peer found: its credit is reserved and the chunk sent, or the peer
\* is skipped for the time a balance needs to be refreshed
Forward(r) ==
    LET n == r[2]
        p == ClosestPeer(n, r = Root)
        q == Multiplexed([preq[r] EXCEPT !.tokens = @ - 1], p, n)
    IN  /\ preq[r].st = "loop" /\ preq[r].tokens > 0 /\ preq[r].left > 0
        /\ p \notin {NoNode, n}
        /\ UNCHANGED <<pheld, pnet>>
        /\ \/ /\ pcost.overs < pnet.overs
              /\ preq' = [preq EXCEPT ![r] = [q EXCEPT !.tokens = Retry(@)]]
              /\ pskip' = [pskip EXCEPT ![n][p] = "over"]
              /\ pcost' = Spend("overs")
           \/ /\ preq' = [preq EXCEPT ![r] = [q EXCEPT !.inflight = @ \cup {p}],
                                      ![<<n, p>>] = [NoRequest EXCEPT !.st = "wire"]]
              /\ pskip' = [pskip EXCEPT ![n][p] = "long"]
              /\ UNCHANGED pcost

\* a balance is refreshed in time and the peer not skipped any more
Refresh(n, p) ==
    /\ pskip[n][p] = "over"
    /\ pskip' = [pskip EXCEPT ![n][p] = "no"]
    /\ UNCHANGED <<preq, pheld, pcost, pnet>>

\* preemptiveTicker, which only the origin has
PushTick ==
    /\ preq[Root].st = "loop" /\ pcost.ticks < pnet.ticks
    /\ preq' = [preq EXCEPT ![Root].tokens = Retry(@)]
    /\ pcost' = Spend("ticks")
    /\ UNCHANGED <<pskip, pheld, pnet>>

\* an error is counted; the loop ends with the last one
Counting(r, p, t) ==
    [preq EXCEPT ![r].inflight = @ \ {p}, ![r].left = @ - 1, ![r].tokens = t,
                 ![r].st = IF preq[r].left = 1 THEN "replied" ELSE @,
                 ![r].res = IF preq[r].left = 1 THEN "error" ELSE @]

\* no further attempt
PushCountedOnly(r, p) == Counting(r, p, preq[r].tokens)

PushCounted(r, p) == Counting(r, p, Retry(preq[r].tokens))

\* any answer will do
Answered(res) == res # "none"

\* pushChunkToPeer: the answer is a receipt for the chunk, not an error
IsReceipt(res) == res = "receipt"

\* push: the peer has answered; the credit of a receipt is applied even when the request that
\* sent it is over; a receipt passed back is paid for by a debit
Result(r, p) ==
    LET s == <<r[2], p>>
        got == IsReceipt(preq[s].res)
        open == preq[r].st = "loop"
    IN  /\ p \in preq[r].inflight /\ preq[s].st = "replied"
        /\ UNCHANGED <<pskip, pheld, pnet>>
        /\ \/ /\ ~got /\ UNCHANGED pcost
              /\ preq' = IF open THEN PushCounted(r, p) ELSE [preq EXCEPT ![r].inflight = @ \ {p}]
           \/ /\ got
              /\ preq' = [preq EXCEPT ![r].inflight = @ \ {p},
                                      ![r].st = "replied", ![r].res = IF open THEN "receipt" ELSE @]
              /\ pcost' = [pcost EXCEPT !.credit = @ \cup {s},
                                        !.debit = IF open /\ r # Root THEN @ \cup {r} ELSE @]
           \/ /\ got /\ open /\ r # Root /\ PushFault    \* no debit, or the receipt is not written
              /\ preq' = [preq EXCEPT ![r].inflight = @ \ {p}, ![r].st = "replied", ![r].res = "error"]
              /\ pcost' = [Spend("faults") EXCEPT !.credit = @ \cup {s}]

\* push: the stream fails or defaultTTL is over; the peer may be at work still
PushFails(r, p) ==
    /\ p \in preq[r].inflight /\ PushFault
    /\ preq' = IF preq[r].st = "loop" THEN PushCounted(r, p) ELSE [preq EXCEPT ![r].inflight = @ \ {p}]
    /\ pcost' = Spend("faults")
    /\ UNCHANGED <<pskip, pheld, pnet>>

\* the context of a request is done: ErrNoPush
PushTimeout(r) ==
    /\ preq[r].st = "loop" /\ r # Root /\ PushFault
    /\ Reply(r, "error")
    /\ pcost' = Spend("faults")
    /\ UNCHANGED <<pskip, pheld, pnet>>

LoopStep(r) ==
    \/ Arrive(r) \/ NoPeerLeft(r) \/ SelfClosest(r) \/ Forward(r)
    \/ \E p \in preq[r].inflight : Result(r, p)

PushNext ==
    \/ \E r \in PushRequests : LoopStep(r) \/ PushTimeout(r) \/ \E p \in preq[r].inflight : PushFails(r, p)
    \/ \E n, p \in PushNodes : Refresh(n, p)
    \/ PushTick

\* any network: who is linked with whom, how far nodes are from the chunk, what they are
PushNets ==
    [origin : PushNodes, links : [PushNodes -> SUBSET PushNodes], dist : [PushNodes -> Nat],
     grade : [PushNodes -> 0 .. 2], public : SUBSET PushNodes, full : SUBSET PushNodes,
     warm : SUBSET PushNodes, aor : SUBSET PushNodes, near : [PushNodes -> SUBSET PushNodes],
     faults : Nat, overs : Nat, ticks : Nat]

PushSpec == (\E net \in PushNets : PushInit(net)) /\ [][PushNext]_pushVars

-----------------------------------------------------------------------------
\* A request that is still in its loop has a token in retryC or a push whose result will come:
\* only the origin has a ticker to wake it up, so a loop without either would sit there until
\* its context is done, with peers it has not tried.
PushNeverStuck ==
    \A r \in PushRequests : preq[r].st = "loop" =>
        preq[r].left > 0 /\ (preq[r].tokens > 0 \/ preq[r].inflight # {})

\* A receipt has a chunk behind it: a request that was answered with one was answered by a node
\* that stored the chunk, or passed on the receipt of a peer it has paid for it; a peer that is
\* paid has prepared the debit before it sent the receipt.
ReceiptStands ==
    \A r \in PushRequests : preq[r].res = "receipt" =>
        /\ \/ r[2] \in pheld
           \/ \E p \in PushNodes : <<r[2], p>> \in pcost.credit /\ preq[<<r[2], p>>].res = "receipt"
        /\ pheld # {} /\ pcost.credit \subseteq pcost.debit

\* A push that is not answered goes on, and the answer it gets stands: the requests are never
\* stuck, and a receipt has a chunk behind it (pushToClosest, handler, push).
PushSound == PushNeverStuck /\ ReceiptStands
=============================================================================
