----------------------------- MODULE PushProofs -----------------------------
(***************************************************************************)
(* Proofs about push-sync: no request is ever stuck, and a receipt has a   *)
(* chunk behind it, in every network and whatever fails.                   *)
(***************************************************************************)
EXTENDS PushSync, SetLemmas

PushStates == {"none", "wire", "loop", "replied"}
PushAnswers == {"none", "receipt", "self", "error"}

RequestRecords ==
    [st : PushStates, tokens : Nat, left : Int, forwards : Nat, inflight : SUBSET PushNodes,
     res : PushAnswers]

PushCosts ==
    [faults : Nat, overs : Nat, ticks : Nat, credit : SUBSET PushRequests,
     debit : SUBSET PushRequests]

PushTypeOK ==
    /\ preq \in [PushRequests -> RequestRecords]
    /\ pskip \in [PushNodes -> [PushNodes -> {"no", "over", "long"}]]
    /\ pheld \subseteq PushNodes
    /\ pcost \in PushCosts
    /\ pnet \in PushNets

\* a request in its loop can go on; one that is not over has no answer, one that has not begun
\* nothing in flight; no node pushes to itself
RequestSound(q, n) ==
    /\ q.st = "loop" => q.left > 0 /\ (q.tokens > 0 \/ q.inflight # {})
    /\ q.st # "replied" => q.res = "none"
    /\ q.st \in {"none", "wire"} => q.inflight = {}
    /\ n \notin q.inflight

\* a chunk that was sent to a peer is not sent to it again: the peer is on the skip list
SentSkipped ==
    \A n, p \in PushNodes : n # p /\ preq[<<n, p>>].st # "none" => pskip[n][p] = "long"

\* a receipt has a chunk behind it, was debited by who gave it, and is never taken back
ReceiptBacked(r) ==
    /\ pheld # {} /\ (r # Root => r \in pcost.debit)
    /\ \/ r[2] \in pheld
       \/ \E p \in PushNodes : <<r[2], p>> \in pcost.credit /\ preq[<<r[2], p>>].res = "receipt"

PushIInv ==
    /\ PushTypeOK /\ SentSkipped
    /\ \A r \in PushRequests : RequestSound(preq[r], r[2])
    /\ \A r \in PushRequests : preq[r].res = "receipt" => ReceiptBacked(r)
    /\ pcost.credit \subseteq pcost.debit

\* A request is the node that asks and the node that is asked.
LEMMA RequestPair ==
  /\ \A r \in PushRequests : r[1] \in PushNodes /\ r[2] \in PushNodes /\ r = <<r[1], r[2]>>
  /\ \A n, p \in PushNodes : <<n, p>> \in PushRequests /\ <<n, p>>[1] = n /\ <<n, p>>[2] = p
  BY DEF PushRequests

\* A receipt stays backed as long as nothing is taken back.
LEMMA BackedKept ==
  ASSUME \A x \in PushRequests : preq[x].res = "receipt" => preq'[x].res = "receipt",
         pheld \subseteq pheld', pcost.credit \subseteq pcost'.credit,
         pcost.debit \subseteq pcost'.debit, pnet' = pnet,
         NEW x \in PushRequests, ReceiptBacked(x)
  PROVE  ReceiptBacked(x)'
  <1>1. pheld' # {} /\ (x # Root' => x \in pcost'.debit) BY DEF ReceiptBacked, Root
  <1>2. CASE x[2] \in pheld BY <1>1, <1>2 DEF ReceiptBacked
  <1>3. CASE \E p \in PushNodes : <<x[2], p>> \in pcost.credit /\ preq[<<x[2], p>>].res = "receipt"
    <2>1. PICK p \in PushNodes : <<x[2], p>> \in pcost.credit /\ preq[<<x[2], p>>].res = "receipt"
      BY <1>3
    <2>2. <<x[2], p>> \in PushRequests BY RequestPair
    <2>3. <<x[2], p>> \in pcost'.credit /\ preq'[<<x[2], p>>].res = "receipt" BY <2>1, <2>2
    <2> QED BY <1>1, <2>3 DEF ReceiptBacked
  <1> QED BY <1>2, <1>3 DEF ReceiptBacked

\* A step that changes one request that has begun, and takes nothing back that others rely on.
LEMMA OneRequest ==
  ASSUME PushIInv, NEW r \in PushRequests,
         preq' \in [PushRequests -> RequestRecords],
         \A x \in PushRequests : x # r => preq'[x] = preq[x],
         RequestSound(preq'[r], r[2]), preq[r].st # "none",
         preq[r].res = "receipt" => preq'[r].res = "receipt",
         preq'[r].res = "receipt" => preq[r].res = "receipt" \/ ReceiptBacked(r)',
         pskip' \in [PushNodes -> [PushNodes -> {"no", "over", "long"}]],
         \A n, p \in PushNodes : pskip[n][p] = "long" => pskip'[n][p] = "long",
         pheld \subseteq pheld', pheld' \subseteq PushNodes, pcost' \in PushCosts,
         pcost.credit \subseteq pcost'.credit, pcost.debit \subseteq pcost'.debit,
         pcost'.credit \subseteq pcost'.debit, pnet' = pnet
  PROVE  PushIInv'
  <1>1. PushTypeOK' BY DEF PushTypeOK, PushIInv
  <1>2. SentSkipped'
    <2> SUFFICES ASSUME NEW n \in PushNodes, NEW p \in PushNodes, n # p, preq'[<<n, p>>].st # "none"
                 PROVE  pskip'[n][p] = "long"
      BY DEF SentSkipped
    <2>1. preq[<<n, p>>].st # "none" BY RequestPair
    <2> QED BY <2>1 DEF SentSkipped, PushIInv
  <1>3. \A x \in PushRequests : RequestSound(preq'[x], x[2]) BY DEF PushIInv
  <1>4. \A x \in PushRequests : preq[x].res = "receipt" => preq'[x].res = "receipt" OBVIOUS
  <1>6. \A x \in PushRequests : ReceiptBacked(x) => ReceiptBacked(x)' BY <1>4, BackedKept
  <1>7. \A x \in PushRequests : preq'[x].res = "receipt" => ReceiptBacked(x)'
    BY <1>6 DEF PushIInv
  <1> QED BY <1>1, <1>2, <1>3, <1>7 DEF PushIInv

\* What closestPeer returns: nothing, the node itself, or a peer that is not skipped.
LEMMA ClosestPeerFound ==
  ASSUME PushTypeOK, NEW n \in PushNodes, NEW origin \in BOOLEAN
  PROVE  LET p == ClosestPeer(n, origin) IN
         p \in PushNodes \cup {NoNode} /\ (p \notin {NoNode, n} => pskip[n][p] = "no")
  <1> DEFINE self == n \in pnet.full /\ ~origin
             gs == {g \in 0 .. 2 : Candidates(n, g, self) # {}}
             C == Candidates(n, Max(gs), self)
  <1>1. CASE pnet.links[n] = {} \/ gs = {}
    BY <1>1 DEF ClosestPeer
  <1>2. CASE ~(pnet.links[n] = {} \/ gs = {})
    <2>1. ClosestPeer(n, origin) = Nearest(C) BY <1>2 DEF ClosestPeer
    <2>2. Max(gs) \in gs BY <1>2, MaxGrade
    <2>3. C # {} BY <2>2
    <2>4. /\ C \subseteq PushNodes /\ \A p \in C : p # n => pskip[n][p] = "no"
      BY DEF Candidates, PushTypeOK, PushNets
    <2>5. \A p \in C : pnet.dist[p] \in Nat BY <2>4 DEF PushTypeOK, PushNets
    <2> HIDE DEF C
    <2>6. \E p \in C : \A q \in C : pnet.dist[p] <= pnet.dist[q] BY <2>3, <2>5, LeastExists
    <2>7. Nearest(C) \in C BY <2>6 DEF Nearest
    <2> QED BY <2>1, <2>4, <2>7
  <1> QED BY <1>1, <1>2

\* retry() leaves a token to go on with.
LEMMA RetryPositive ==
  ASSUME NEW t \in Nat
  PROVE  Retry(t) \in Nat /\ Retry(t) > 0
  BY MinOfTwo, PushAssumption DEF Retry

\* What a reply leaves of the requests.
LEMMA Replied ==
  ASSUME PushIInv, NEW r \in PushRequests, NEW res \in PushAnswers, Reply(r, res)
  PROVE  /\ preq' \in [PushRequests -> RequestRecords]
         /\ \A x \in PushRequests : x # r => preq'[x] = preq[x]
         /\ RequestSound(preq'[r], r[2]) /\ preq'[r].res = res
  <1>1. preq[r] \in RequestRecords /\ RequestSound(preq[r], r[2]) BY DEF PushIInv, PushTypeOK
  <1> DEFINE q == [preq[r] EXCEPT !.st = "replied", !.res = res]
  <1>2. preq' = [preq EXCEPT ![r] = q]
    BY DEF Reply, PushIInv, PushTypeOK, RequestRecords
  <1>3. /\ q \in RequestRecords /\ q.st = "replied" /\ q.res = res /\ q.inflight = preq[r].inflight
    BY <1>1 DEF RequestRecords, PushStates
  <1> HIDE DEF q
  <1>4. RequestSound(q, r[2]) BY <1>1, <1>3 DEF RequestSound
  <1> QED BY <1>2, <1>3, <1>4 DEF PushIInv, PushTypeOK

\* A request that is answered without a receipt.
LEMMA ReplyKeeps ==
  ASSUME PushIInv, NEW r \in PushRequests, NEW res \in {"self", "error"}, Reply(r, res),
         preq[r].st \in {"wire", "loop"}, UNCHANGED <<pskip, pnet>>,
         pheld \subseteq pheld', pheld' \subseteq PushNodes, pcost' \in PushCosts,
         pcost'.credit = pcost.credit, pcost'.debit = pcost.debit
  PROVE  PushIInv'
  <1>1. res \in PushAnswers BY DEF PushAnswers
  <1>2. /\ preq' \in [PushRequests -> RequestRecords]
        /\ \A x \in PushRequests : x # r => preq'[x] = preq[x]
        /\ RequestSound(preq'[r], r[2]) /\ preq'[r].res = res
    BY <1>1, Replied
  <1>3. preq[r].st # "none" /\ preq[r].res = "none" BY DEF PushIInv, RequestSound
  <1>4. /\ pskip' \in [PushNodes -> [PushNodes -> {"no", "over", "long"}]] /\ pnet' = pnet
        /\ \A n, p \in PushNodes : pskip[n][p] = "long" => pskip'[n][p] = "long"
        /\ pcost.credit \subseteq pcost'.credit /\ pcost.debit \subseteq pcost'.debit
        /\ pcost'.credit \subseteq pcost'.debit
    BY DEF PushIInv, PushTypeOK
  <1>5. preq'[r].res # "receipt" BY <1>2
  <1> QED BY <1>2, <1>3, <1>4, <1>5, OneRequest

\* What a count costs.
LEMMA SpendTyped ==
  ASSUME PushTypeOK, NEW k \in {"faults", "overs", "ticks"}
  PROVE  Spend(k) \in PushCosts /\ Spend(k).credit = pcost.credit /\ Spend(k).debit = pcost.debit
  BY DEF Spend, PushCosts, PushTypeOK

\* store: the handler stores the chunk, and debits what it signs.
LEMMA StoredKeeps ==
  ASSUME PushIInv, NEW r \in PushRequests, NEW ok \in StoreOutcomes, Stored(r, ok), r # Root,
         preq[r].st \in {"wire", "loop"}, UNCHANGED <<pskip, pnet>>
  PROVE  PushIInv'
  <1>0. ok \in {"receipt", "nothing", "unsent"} BY DEF StoreOutcomes
  <1>1. CASE ok = "receipt"
    <2>1. /\ Reply(r, "receipt") /\ pheld' = pheld \cup {r[2]}
          /\ pcost' = [pcost EXCEPT !.debit = @ \cup {r}]
      BY <1>1 DEF Stored
    <2>2. /\ preq' \in [PushRequests -> RequestRecords]
          /\ \A x \in PushRequests : x # r => preq'[x] = preq[x]
          /\ RequestSound(preq'[r], r[2]) /\ preq'[r].res = "receipt"
      BY <2>1, Replied DEF PushAnswers
    <2>3. preq[r].st # "none" OBVIOUS
    <2>4. pcost' \in PushCosts /\ pcost'.credit = pcost.credit /\ pcost'.debit = pcost.debit \cup {r}
      BY <2>1 DEF PushCosts, PushIInv, PushTypeOK
    <2>5. pheld \subseteq pheld' /\ pheld' \subseteq PushNodes /\ r[2] \in pheld'
      BY <2>1, RequestPair DEF PushIInv, PushTypeOK
    <2>6. ReceiptBacked(r)' BY <2>4, <2>5 DEF ReceiptBacked, Root
    <2>7. /\ pskip' \in [PushNodes -> [PushNodes -> {"no", "over", "long"}]] /\ pnet' = pnet
          /\ \A n, p \in PushNodes : pskip[n][p] = "long" => pskip'[n][p] = "long"
          /\ pcost.credit \subseteq pcost'.credit /\ pcost.debit \subseteq pcost'.debit
          /\ pcost'.credit \subseteq pcost'.debit
      BY <2>4 DEF PushIInv, PushTypeOK
    <2> QED BY <2>2, <2>3, <2>4, <2>5, <2>6, <2>7, OneRequest
  <1>2. CASE ok # "receipt"
    <2>1. /\ Reply(r, "error") /\ pheld' \in {pheld, pheld \cup {r[2]}} /\ pcost' = Spend("faults")
      BY <1>2 DEF Stored
    <2>2. pheld \subseteq pheld' /\ pheld' \subseteq PushNodes
      BY <2>1, RequestPair DEF PushIInv, PushTypeOK
    <2>3. pcost' \in PushCosts /\ pcost'.credit = pcost.credit /\ pcost'.debit = pcost.debit
      BY <2>1, SpendTyped DEF PushIInv
    <2> QED BY <2>1, <2>2, <2>3, ReplyKeeps
  <1> QED BY <1>1, <1>2

\* A step that changes one request that is not over and gives it no answer.
LEMMA LoopKeeps ==
  ASSUME PushIInv, NEW r \in PushRequests, NEW q \in RequestRecords,
         preq' = [preq EXCEPT ![r] = q], RequestSound(q, r[2]), preq[r].st \in {"wire", "loop"},
         q.res # "receipt",
         pskip' \in [PushNodes -> [PushNodes -> {"no", "over", "long"}]],
         \A n, p \in PushNodes : pskip[n][p] = "long" => pskip'[n][p] = "long",
         pcost' \in PushCosts, pcost'.credit = pcost.credit, pcost'.debit = pcost.debit,
         UNCHANGED <<pheld, pnet>>
  PROVE  PushIInv'
  <1>1. /\ preq' \in [PushRequests -> RequestRecords] /\ preq'[r] = q
        /\ \A x \in PushRequests : x # r => preq'[x] = preq[x]
    BY DEF PushIInv, PushTypeOK
  <1>2. preq[r].st # "none" /\ preq[r].res = "none" BY DEF PushIInv, RequestSound
  <1>3. /\ pheld \subseteq pheld' /\ pheld' \subseteq PushNodes /\ pnet' = pnet
        /\ pcost.credit \subseteq pcost'.credit /\ pcost.debit \subseteq pcost'.debit
        /\ pcost'.credit \subseteq pcost'.debit
    BY DEF PushIInv, PushTypeOK
  <1> QED BY <1>1, <1>2, <1>3, OneRequest

\* A request that is over changes, and its result stays.
LEMMA OverKeeps ==
  ASSUME PushIInv, NEW r \in PushRequests, NEW q \in RequestRecords,
         preq' = [preq EXCEPT ![r] = q], RequestSound(q, r[2]), preq[r].st = "replied",
         q.res = preq[r].res,
         pskip' \in [PushNodes -> [PushNodes -> {"no", "over", "long"}]],
         \A n, p \in PushNodes : pskip[n][p] = "long" => pskip'[n][p] = "long",
         pcost' \in PushCosts, pcost'.credit = pcost.credit, pcost'.debit = pcost.debit,
         UNCHANGED <<pheld, pnet>>
  PROVE  PushIInv'
  <1>1. /\ preq' \in [PushRequests -> RequestRecords] /\ preq'[r] = q
        /\ \A x \in PushRequests : x # r => preq'[x] = preq[x]
    BY DEF PushIInv, PushTypeOK
  <1>2. /\ pheld \subseteq pheld' /\ pheld' \subseteq PushNodes /\ pnet' = pnet
        /\ pcost.credit \subseteq pcost'.credit /\ pcost.debit \subseteq pcost'.debit
        /\ pcost'.credit \subseteq pcost'.debit
    BY DEF PushIInv, PushTypeOK
  <1> QED BY <1>1, <1>2, OneRequest

\* A handler takes a chunk: it stores it, answers at once or begins its loop.
LEMMA ArriveKeeps ==
  ASSUME PushIInv, NEW r \in PushRequests, Arrive(r)
  PROVE  PushIInv'
  <1>0. preq[r].st = "wire" /\ UNCHANGED <<pskip, pnet>> BY DEF Arrive
  <1>1. CASE r # Root /\ r[2] \in pnet.public \cap pnet.aor
    <2>1. PICK ok \in StoreOutcomes : Stored(r, ok) BY <1>1 DEF Arrive
    <2> QED BY <1>0, <1>1, <2>1, StoredKeeps
  <1>2. CASE ~(r # Root /\ r[2] \in pnet.public \cap pnet.aor)
    <2>1. UNCHANGED <<pheld, pcost>> BY <1>2 DEF Arrive
    <2>2. /\ pheld \subseteq pheld' /\ pheld' \subseteq PushNodes /\ pcost' \in PushCosts
          /\ pcost'.credit = pcost.credit /\ pcost'.debit = pcost.debit
      BY <2>1 DEF PushIInv, PushTypeOK
    <2>3. CASE r[2] \notin pnet.warm
      <3>1. Reply(r, "error") BY <1>2, <2>3 DEF Arrive
      <3> QED BY <1>0, <2>2, <3>1, ReplyKeeps
    <2>4. CASE r[2] \in pnet.warm
      <3> DEFINE left == IF r = Root THEN MaxPushErrors ELSE 1
                 q == [st |-> "loop", tokens |-> 1, left |-> left, forwards |-> MaxMultiplexForwards,
                       inflight |-> {}, res |-> "none"]
      <3>1. preq' = [preq EXCEPT ![r] = q] BY <1>2, <2>4 DEF Arrive
      <3>2. left \in Nat /\ left > 0 BY PushAssumption
      <3> HIDE DEF left
      <3>3. q \in RequestRecords
        BY <3>2, PushAssumption DEF RequestRecords, PushStates, PushAnswers
      <3>4. RequestSound(q, r[2]) /\ q.res # "receipt" BY <3>2 DEF RequestSound
      <3>5. /\ pskip' \in [PushNodes -> [PushNodes -> {"no", "over", "long"}]]
            /\ \A n, p \in PushNodes : pskip[n][p] = "long" => pskip'[n][p] = "long"
        BY <1>0 DEF PushIInv, PushTypeOK
      <3> HIDE DEF q
      <3> QED BY <1>0, <2>1, <2>2, <3>1, <3>3, <3>4, <3>5, LoopKeeps
    <2> QED BY <2>3, <2>4
  <1> QED BY <1>1, <1>2

\* The tokens of a request change, and one is left or a push in flight.
LEMMA TokensKeep ==
  ASSUME PushIInv, NEW r \in PushRequests, preq[r].st = "loop", NEW t \in Nat,
         t > 0 \/ preq[r].inflight # {}, preq' = [preq EXCEPT ![r].tokens = t],
         pskip' \in [PushNodes -> [PushNodes -> {"no", "over", "long"}]],
         \A n, p \in PushNodes : pskip[n][p] = "long" => pskip'[n][p] = "long",
         pcost' \in PushCosts, pcost'.credit = pcost.credit, pcost'.debit = pcost.debit,
         UNCHANGED <<pheld, pnet>>
  PROVE  PushIInv'
  <1> DEFINE q == [preq[r] EXCEPT !.tokens = t]
  <1>1. preq[r] \in RequestRecords /\ RequestSound(preq[r], r[2]) BY DEF PushIInv, PushTypeOK
  <1>2. preq' = [preq EXCEPT ![r] = q] BY DEF PushIInv, PushTypeOK
  <1>3. /\ q \in RequestRecords /\ q.st = "loop" /\ q.tokens = t /\ q.res = preq[r].res
        /\ q.left = preq[r].left /\ q.inflight = preq[r].inflight
    BY <1>1 DEF RequestRecords
  <1> HIDE DEF q
  <1>4. RequestSound(q, r[2]) /\ q.res # "receipt" BY <1>1, <1>3 DEF RequestSound
  <1> QED BY <1>2, <1>3, <1>4, LoopKeeps

\* pushToClosest returns ErrWantSelf.
LEMMA WantSelfKeeps ==
  ASSUME PushIInv, NEW r \in PushRequests, WantSelf(r), preq[r].st = "loop",
         UNCHANGED <<pskip, pnet>>
  PROVE  PushIInv'
  <1>1. CASE r = Root
    <2>1. Reply(r, "self") /\ UNCHANGED <<pheld, pcost>> BY <1>1 DEF WantSelf
    <2>2. /\ pheld \subseteq pheld' /\ pheld' \subseteq PushNodes /\ pcost' \in PushCosts
          /\ pcost'.credit = pcost.credit /\ pcost'.debit = pcost.debit
      BY <2>1 DEF PushIInv, PushTypeOK
    <2> QED BY <2>1, <2>2, ReplyKeeps
  <1>2. CASE r # Root
    <2>1. PICK ok \in StoreOutcomes : Stored(r, ok) BY <1>2 DEF WantSelf
    <2> QED BY <1>2, <2>1, StoredKeeps
  <1> QED BY <1>1, <1>2

\* closestPeer finds nobody: the loop waits, goes on or ends.
LEMMA NoPeerKeeps ==
  ASSUME PushIInv, NEW r \in PushRequests, NoPeerLeft(r)
  PROVE  PushIInv'
  <1> DEFINE n == r[2]
             over == {p \in PushNodes : pskip[n][p] = "over"}
             t == preq[r].tokens
  <1>0. preq[r].st = "loop" /\ t \in Nat /\ t > 0 /\ UNCHANGED pnet /\ n \in PushNodes
    BY RequestPair DEF NoPeerLeft, PushIInv, PushTypeOK, RequestRecords
  <1>1. CASE over # {}
    <2>1. /\ pskip' = [pskip EXCEPT ![n] = [p \in PushNodes |-> IF p \in over THEN "no" ELSE @[p]]]
          /\ preq' = [preq EXCEPT ![r].tokens = Retry(@ - 1)]
          /\ UNCHANGED <<pheld, pcost>>
      BY <1>1 DEF NoPeerLeft
    <2>2. preq' = [preq EXCEPT ![r].tokens = Retry(t - 1)] BY <2>1 DEF PushIInv, PushTypeOK
    <2>3. t - 1 \in Nat BY <1>0
    <2>4. Retry(t - 1) \in Nat /\ Retry(t - 1) > 0 BY <2>3, RetryPositive
    <2>5. /\ pskip' \in [PushNodes -> [PushNodes -> {"no", "over", "long"}]]
          /\ \A m, p \in PushNodes : pskip[m][p] = "long" => pskip'[m][p] = "long"
      BY <2>1, <1>0 DEF PushIInv, PushTypeOK
    <2>6. pcost' \in PushCosts /\ pcost'.credit = pcost.credit /\ pcost'.debit = pcost.debit
      BY <2>1 DEF PushIInv, PushTypeOK
    <2> QED BY <1>0, <2>1, <2>2, <2>4, <2>5, <2>6, TokensKeep
  <1>2. CASE over = {}
    <2>1. UNCHANGED pskip BY <1>2 DEF NoPeerLeft
    <2>2. CASE preq[r].inflight # {}
      <3>1. preq' = [preq EXCEPT ![r].tokens = @ - 1] /\ UNCHANGED <<pheld, pcost>>
        BY <1>2, <2>2 DEF NoPeerLeft
      <3>2. preq' = [preq EXCEPT ![r].tokens = t - 1] BY <3>1 DEF PushIInv, PushTypeOK
      <3>3. t - 1 \in Nat BY <1>0
      <3>4. /\ pskip' \in [PushNodes -> [PushNodes -> {"no", "over", "long"}]]
            /\ \A m, p \in PushNodes : pskip[m][p] = "long" => pskip'[m][p] = "long"
            /\ pcost' \in PushCosts /\ pcost'.credit = pcost.credit /\ pcost'.debit = pcost.debit
        BY <2>1, <3>1 DEF PushIInv, PushTypeOK
      <3> QED BY <1>0, <2>2, <3>1, <3>2, <3>3, <3>4, TokensKeep
    <2>3. CASE preq[r].inflight = {} /\ n \in pnet.full
      <3>1. WantSelf(r) BY <1>2, <2>3 DEF NoPeerLeft
      <3> QED BY <1>0, <2>1, <3>1, WantSelfKeeps
    <2>4. CASE preq[r].inflight = {} /\ n \notin pnet.full
      <3>1. Reply(r, "error") /\ UNCHANGED <<pheld, pcost>> BY <1>2, <2>4 DEF NoPeerLeft
      <3>2. /\ pheld \subseteq pheld' /\ pheld' \subseteq PushNodes /\ pcost' \in PushCosts
            /\ pcost'.credit = pcost.credit /\ pcost'.debit = pcost.debit
        BY <3>1 DEF PushIInv, PushTypeOK
      <3> QED BY <1>0, <2>1, <3>1, <3>2, ReplyKeeps
    <2> QED BY <2>2, <2>3, <2>4
  <1> QED BY <1>1, <1>2

\* No peer is closer to the chunk than the node.
LEMMA SelfClosestKeeps ==
  ASSUME PushIInv, NEW r \in PushRequests, SelfClosest(r)
  PROVE  PushIInv'
  <1> DEFINE t == preq[r].tokens
  <1>0. preq[r].st = "loop" /\ t \in Nat /\ t > 0 /\ UNCHANGED <<pskip, pnet>>
    BY DEF SelfClosest, PushIInv, PushTypeOK, RequestRecords
  <1>1. CASE preq[r].inflight # {}
    <2>1. preq' = [preq EXCEPT ![r].tokens = @ - 1] /\ UNCHANGED <<pheld, pcost>>
      BY <1>1 DEF SelfClosest
    <2>2. preq' = [preq EXCEPT ![r].tokens = t - 1] BY <2>1 DEF PushIInv, PushTypeOK
    <2>3. t - 1 \in Nat BY <1>0
    <2>4. /\ pskip' \in [PushNodes -> [PushNodes -> {"no", "over", "long"}]]
          /\ \A m, p \in PushNodes : pskip[m][p] = "long" => pskip'[m][p] = "long"
          /\ pcost' \in PushCosts /\ pcost'.credit = pcost.credit /\ pcost'.debit = pcost.debit
      BY <1>0, <2>1 DEF PushIInv, PushTypeOK
    <2> QED BY <1>0, <1>1, <2>1, <2>2, <2>3, <2>4, TokensKeep
  <1>2. CASE preq[r].inflight = {}
    <2>1. WantSelf(r) BY <1>2 DEF SelfClosest
    <2> QED BY <1>0, <2>1, WantSelfKeeps
  <1> QED BY <1>1, <1>2

\* What is left of a request whose token is taken for a peer.
LEMMA MultiplexedTyped ==
  ASSUME NEW q \in RequestRecords, NEW p, NEW n
  PROVE  LET m == Multiplexed(q, p, n) IN
         /\ m \in RequestRecords /\ m.st = q.st /\ m.res = q.res /\ m.inflight = q.inflight
         /\ m.left >= q.left
  <1>1. CASE p \in pnet.near[n] /\ q.forwards > 0
    <2> DEFINE t == Min({q.tokens + q.forwards, MaxMultiplexForwards})
    <2>1. q.tokens \in Nat /\ q.forwards \in Nat /\ q.left \in Int BY DEF RequestRecords
    <2>2. t \in Nat BY <2>1, MinOfTwo, PushAssumption
    <2> DEFINE l == q.left + q.forwards
               m == [q EXCEPT !.tokens = t, !.left = l, !.forwards = 0]
    <2>3. Multiplexed(q, p, n) = m BY <1>1 DEF Multiplexed, RequestRecords
    <2>4. l \in Int /\ l >= q.left BY <2>1
    <2> HIDE DEF t, l
    <2>5. /\ m \in RequestRecords /\ m.st = q.st /\ m.res = q.res /\ m.inflight = q.inflight
          /\ m.left = l
      BY <2>2, <2>4 DEF RequestRecords
    <2> HIDE DEF m
    <2> QED BY <2>3, <2>4, <2>5
  <1>2. CASE ~(p \in pnet.near[n] /\ q.forwards > 0)
    <2>1. Multiplexed(q, p, n) = q BY <1>2 DEF Multiplexed
    <2> QED BY <2>1 DEF RequestRecords
  <1> QED BY <1>1, <1>2

\* A chunk goes to a peer that has not had it from this node.
LEMMA ForwardKeeps ==
  ASSUME PushIInv, NEW r \in PushRequests, Forward(r)
  PROVE  PushIInv'
  <1> DEFINE n == r[2]
             p == ClosestPeer(n, r = Root)
             q0 == [preq[r] EXCEPT !.tokens = @ - 1]
             q == Multiplexed(q0, p, n)
  <1>0. /\ preq[r].st = "loop" /\ preq[r].tokens \in Nat /\ preq[r].tokens > 0
        /\ UNCHANGED <<pheld, pnet>> /\ n \in PushNodes /\ p \notin {NoNode, n}
        /\ preq[r] \in RequestRecords /\ RequestSound(preq[r], n) /\ preq[r].left > 0
    BY RequestPair DEF Forward, PushIInv, PushTypeOK, RequestRecords
  <1>1. p \in PushNodes /\ pskip[n][p] = "no"
    <2>1. (r = Root) \in BOOLEAN OBVIOUS
    <2> QED BY <1>0, <2>1, ClosestPeerFound DEF PushIInv
  <1>2. /\ q0 \in RequestRecords /\ q0.st = "loop" /\ q0.res = preq[r].res
        /\ q0.inflight = preq[r].inflight /\ q0.left = preq[r].left
    BY <1>0 DEF RequestRecords
  <1> HIDE DEF q0
  <1>3. /\ q \in RequestRecords /\ q.st = "loop" /\ q.res = preq[r].res
        /\ q.inflight = preq[r].inflight /\ q.left > 0
    <2>1. q \in RequestRecords /\ q.st = q0.st /\ q.res = q0.res /\ q.inflight = q0.inflight
          /\ q.left >= q0.left
      BY <1>2, MultiplexedTyped
    <2>2. q.left \in Int /\ q0.left \in Int BY <2>1, <1>2 DEF RequestRecords
    <2> QED BY <1>0, <1>2, <2>1, <2>2
  <1>4. \/ /\ preq' = [preq EXCEPT ![r] = [q EXCEPT !.tokens = Retry(@)]]
           /\ pskip' = [pskip EXCEPT ![n][p] = "over"]
           /\ pcost' = Spend("overs")
        \/ /\ preq' = [preq EXCEPT ![r] = [q EXCEPT !.inflight = @ \cup {p}],
                                   ![<<n, p>>] = [NoRequest EXCEPT !.st = "wire"]]
           /\ pskip' = [pskip EXCEPT ![n][p] = "long"]
           /\ UNCHANGED pcost
    BY DEF Forward, q0
  <1> HIDE DEF q, p
  <1>5. CASE /\ preq' = [preq EXCEPT ![r] = [q EXCEPT !.tokens = Retry(@)]]
             /\ pskip' = [pskip EXCEPT ![n][p] = "over"]
             /\ pcost' = Spend("overs")
    <2> DEFINE q1 == [q EXCEPT !.tokens = Retry(@)]
    <2>1. q.tokens \in Nat BY <1>3 DEF RequestRecords
    <2>2. Retry(q.tokens) \in Nat /\ Retry(q.tokens) > 0 BY <2>1, RetryPositive
    <2>3. /\ q1 \in RequestRecords /\ q1.st = "loop" /\ q1.res = preq[r].res /\ q1.tokens > 0
          /\ q1.inflight = preq[r].inflight /\ q1.left > 0
      BY <1>3, <2>2 DEF RequestRecords
    <2>4. preq' = [preq EXCEPT ![r] = q1] BY <1>5
    <2> HIDE DEF q1
    <2>5. RequestSound(q1, n) /\ q1.res # "receipt" BY <1>0, <2>3 DEF RequestSound
    <2>6. /\ pskip' \in [PushNodes -> [PushNodes -> {"no", "over", "long"}]]
          /\ \A m, x \in PushNodes : pskip[m][x] = "long" => pskip'[m][x] = "long"
      BY <1>0, <1>1, <1>5 DEF PushIInv, PushTypeOK
    <2>7. pcost' \in PushCosts /\ pcost'.credit = pcost.credit /\ pcost'.debit = pcost.debit
      BY <1>5, SpendTyped DEF PushIInv
    <2> QED BY <1>0, <2>3, <2>4, <2>5, <2>6, <2>7, LoopKeeps
  <1>6. CASE /\ preq' = [preq EXCEPT ![r] = [q EXCEPT !.inflight = @ \cup {p}],
                                     ![<<n, p>>] = [NoRequest EXCEPT !.st = "wire"]]
             /\ pskip' = [pskip EXCEPT ![n][p] = "long"]
             /\ UNCHANGED pcost
    <2> DEFINE q1 == [q EXCEPT !.inflight = @ \cup {p}]
               w == [NoRequest EXCEPT !.st = "wire"]
               s == <<n, p>>
    <2>1. /\ q1 \in RequestRecords /\ q1.st = "loop" /\ q1.res = preq[r].res
          /\ q1.inflight = preq[r].inflight \cup {p} /\ q1.left > 0
      BY <1>1, <1>3 DEF RequestRecords
    <2>2. w \in RequestRecords /\ w.st = "wire" /\ w.res = "none" /\ w.inflight = {}
      BY DEF RequestRecords, PushStates, PushAnswers, NoRequest
    <2>3. s \in PushRequests /\ s[1] = n /\ s[2] = p /\ s # r BY <1>0, <1>1, RequestPair
    <2>4. preq' = [preq EXCEPT ![r] = q1, ![s] = w] BY <1>6
    <2> HIDE DEF q1, w
    <2>5. /\ preq' \in [PushRequests -> RequestRecords] /\ preq'[r] = q1 /\ preq'[s] = w
          /\ \A x \in PushRequests : x # r /\ x # s => preq'[x] = preq[x]
      BY <2>1, <2>2, <2>3, <2>4 DEF PushIInv, PushTypeOK
    <2>6. /\ pskip' \in [PushNodes -> [PushNodes -> {"no", "over", "long"}]] /\ pskip'[n][p] = "long"
          /\ \A m, x \in PushNodes : pskip[m][x] = "long" => pskip'[m][x] = "long"
      BY <1>0, <1>1, <1>6 DEF PushIInv, PushTypeOK
    <2>7. preq[s].st = "none" /\ preq[s].res = "none" /\ preq[r].res = "none"
      BY <1>0, <1>1, <2>3 DEF PushIInv, SentSkipped, RequestSound
    <2>8. PushTypeOK' BY <1>0, <1>6, <2>5, <2>6 DEF PushIInv, PushTypeOK
    <2>9. SentSkipped'
      <3> SUFFICES ASSUME NEW m \in PushNodes, NEW x \in PushNodes, m # x,
                          preq'[<<m, x>>].st # "none"
                   PROVE  pskip'[m][x] = "long"
        BY DEF SentSkipped
      <3>1. CASE <<m, x>> = s BY <3>1, <2>6
      <3>2. CASE <<m, x>> # s
        <4>1. preq[<<m, x>>].st # "none" BY <3>2, <2>5, <1>0, RequestPair
        <4> QED BY <4>1, <2>6 DEF SentSkipped, PushIInv
      <3> QED BY <3>1, <3>2
    <2>10. RequestSound(q1, n) BY <1>0, <2>1 DEF RequestSound
    <2>11. RequestSound(w, p) BY <2>2 DEF RequestSound
    <2>12. \A x \in PushRequests : RequestSound(preq'[x], x[2])
      BY <2>3, <2>5, <2>10, <2>11 DEF PushIInv
    <2>13. \A x \in PushRequests : preq[x].res = "receipt" => preq'[x].res = "receipt"
      BY <2>5, <2>7
    <2>14. \A x \in PushRequests : preq'[x].res = "receipt" => preq[x].res = "receipt"
      BY <2>1, <2>2, <2>5, <2>7
    <2>15. /\ pheld \subseteq pheld' /\ pnet' = pnet /\ pcost.credit \subseteq pcost'.credit
           /\ pcost.debit \subseteq pcost'.debit /\ pcost'.credit \subseteq pcost'.debit
      BY <1>0, <1>6 DEF PushIInv
    <2>16. \A x \in PushRequests : preq'[x].res = "receipt" => ReceiptBacked(x)'
      BY <2>13, <2>14, <2>15, BackedKept DEF PushIInv
    <2> QED BY <2>8, <2>9, <2>12, <2>15, <2>16 DEF PushIInv
  <1> QED BY <1>4, <1>5, <1>6

\* An entry of the skip list expires.
LEMMA RefreshKeeps ==
  ASSUME PushIInv, NEW n \in PushNodes, NEW p \in PushNodes, Refresh(n, p)
  PROVE  PushIInv'
  <1>1. /\ pskip[n][p] = "over" /\ pskip' = [pskip EXCEPT ![n][p] = "no"]
        /\ UNCHANGED <<preq, pheld, pcost, pnet>>
    BY DEF Refresh
  <1>2. /\ pskip' \in [PushNodes -> [PushNodes -> {"no", "over", "long"}]]
        /\ \A m, x \in PushNodes : pskip[m][x] = "long" => pskip'[m][x] = "long"
    BY <1>1 DEF PushIInv, PushTypeOK
  <1>3. PushTypeOK' BY <1>1, <1>2 DEF PushIInv, PushTypeOK
  <1>4. SentSkipped' BY <1>1, <1>2 DEF PushIInv, SentSkipped
  <1>5. \A r \in PushRequests : ReceiptBacked(r) <=> ReceiptBacked(r)'
    BY <1>1 DEF ReceiptBacked, Root
  <1> QED BY <1>1, <1>3, <1>4, <1>5 DEF PushIInv

\* The ticker of the preemptive pushes fires and adds a token.
LEMMA TickKeeps ==
  ASSUME PushIInv, PushTick
  PROVE  PushIInv'
  <1>0. Root \in PushRequests BY RequestPair DEF Root, PushIInv, PushTypeOK, PushNets
  <1> DEFINE t == preq[Root].tokens
  <1>1. /\ preq[Root].st = "loop" /\ preq' = [preq EXCEPT ![Root].tokens = Retry(@)]
        /\ pcost' = Spend("ticks") /\ UNCHANGED <<pskip, pheld, pnet>>
    BY DEF PushTick
  <1>2. t \in Nat BY <1>0 DEF PushIInv, PushTypeOK, RequestRecords
  <1>3. Retry(t) \in Nat /\ Retry(t) > 0 BY <1>2, RetryPositive
  <1>4. preq' = [preq EXCEPT ![Root].tokens = Retry(t)] BY <1>0, <1>1 DEF PushIInv, PushTypeOK
  <1>5. pcost' \in PushCosts /\ pcost'.credit = pcost.credit /\ pcost'.debit = pcost.debit
    BY <1>1, SpendTyped DEF PushIInv
  <1>6. /\ pskip' \in [PushNodes -> [PushNodes -> {"no", "over", "long"}]]
        /\ \A m, x \in PushNodes : pskip[m][x] = "long" => pskip'[m][x] = "long"
    BY <1>1 DEF PushIInv, PushTypeOK
  <1> QED BY <1>0, <1>1, <1>3, <1>4, <1>5, <1>6, TokensKeep

\* The context of a request expires.
LEMMA TimeoutKeeps ==
  ASSUME PushIInv, NEW r \in PushRequests, PushTimeout(r)
  PROVE  PushIInv'
  <1>1. /\ preq[r].st = "loop" /\ Reply(r, "error") /\ pcost' = Spend("faults")
        /\ UNCHANGED <<pskip, pheld, pnet>>
    BY DEF PushTimeout
  <1>2. pcost' \in PushCosts /\ pcost'.credit = pcost.credit /\ pcost'.debit = pcost.debit
    BY <1>1, SpendTyped DEF PushIInv
  <1>3. pheld \subseteq pheld' /\ pheld' \subseteq PushNodes BY <1>1 DEF PushIInv, PushTypeOK
  <1> QED BY <1>1, <1>2, <1>3, ReplyKeeps

\* The result of a push is an error, or comes when the request is over: it leaves the pushes in
\* flight, and an error is counted.
LEMMA FailureKeeps ==
  ASSUME PushIInv, NEW r \in PushRequests, NEW p \in preq[r].inflight,
         preq' = IF preq[r].st = "loop" THEN PushCounted(r, p)
                 ELSE [preq EXCEPT ![r].inflight = @ \ {p}],
         UNCHANGED <<pskip, pheld, pnet>>,
         pcost' \in PushCosts, pcost'.credit = pcost.credit, pcost'.debit = pcost.debit
  PROVE  PushIInv'
  <1> DEFINE b == preq[r]
             i == b.inflight \ {p}
  <1>0. b \in RequestRecords /\ RequestSound(b, r[2]) BY DEF PushIInv, PushTypeOK
  <1>1. /\ pskip' \in [PushNodes -> [PushNodes -> {"no", "over", "long"}]] /\ pheld' \subseteq PushNodes
        /\ \A m, x \in PushNodes : pskip[m][x] = "long" => pskip'[m][x] = "long"
        /\ pcost'.credit \subseteq pcost'.debit
    BY DEF PushIInv, PushTypeOK
  <1>2. CASE b.st = "loop"
    <2> DEFINE t == Retry(b.tokens)
               l == b.left - 1
               st == IF b.left = 1 THEN "replied" ELSE b.st
               res == IF b.left = 1 THEN "error" ELSE b.res
               q == [b EXCEPT !.inflight = i, !.left = l, !.tokens = t, !.st = st, !.res = res]
    <2>1. preq' = PushCounted(r, p) BY <1>2
    <2>2. preq' = [preq EXCEPT ![r] = q]
      BY <2>1 DEF PushCounted, Counting, PushIInv, PushTypeOK, RequestRecords
    <2>3. b.tokens \in Nat /\ b.left \in Int /\ b.left > 0 /\ b.res = "none" /\ i \subseteq PushNodes
      BY <1>0, <1>2 DEF RequestRecords, RequestSound
    <2>4. t \in Nat /\ t > 0 BY <2>3, RetryPositive
    <2>5. /\ l \in Int /\ st \in PushStates /\ res \in PushAnswers /\ (st = "loop" => l > 0)
          /\ (st # "replied" => res = "none") /\ st \in {"loop", "replied"} /\ res # "receipt"
      BY <1>2, <2>3 DEF PushStates, PushAnswers
    <2>6. r[2] \notin i BY <1>0 DEF RequestSound
    <2> HIDE DEF t, l, st, res, i
    <2>7. /\ q \in RequestRecords /\ q.st = st /\ q.res = res /\ q.tokens = t /\ q.left = l
          /\ q.inflight = i
      BY <1>0, <2>3, <2>4, <2>5 DEF RequestRecords
    <2> HIDE DEF q
    <2>8. RequestSound(q, r[2]) BY <2>4, <2>5, <2>6, <2>7 DEF RequestSound
    <2> QED BY <1>1, <1>2, <2>2, <2>5, <2>7, <2>8, LoopKeeps
  <1>3. CASE b.st # "loop"
    <2> DEFINE q == [b EXCEPT !.inflight = i]
    <2>1. preq' = [preq EXCEPT ![r] = q] BY <1>3 DEF PushIInv, PushTypeOK, RequestRecords
    <2>2. b.st = "replied" BY <1>0, <1>3 DEF RequestSound, RequestRecords, PushStates
    <2>3. i \subseteq PushNodes /\ r[2] \notin i BY <1>0 DEF RequestRecords, RequestSound
    <2> HIDE DEF i
    <2>4. q \in RequestRecords /\ q.st = "replied" /\ q.res = b.res /\ q.inflight = i
      BY <1>0, <2>2, <2>3 DEF RequestRecords
    <2> HIDE DEF q
    <2>5. RequestSound(q, r[2]) BY <2>3, <2>4 DEF RequestSound
    <2> QED BY <1>1, <2>1, <2>2, <2>4, <2>5, OverKeeps
  <1> QED BY <1>2, <1>3

\* A push ends in an error before the peer answers it.
LEMMA PushFailsKeeps ==
  ASSUME PushIInv, NEW r \in PushRequests, NEW p \in preq[r].inflight, PushFails(r, p)
  PROVE  PushIInv'
  <1>1. pcost' \in PushCosts /\ pcost'.credit = pcost.credit /\ pcost'.debit = pcost.debit
    BY SpendTyped DEF PushIInv, PushFails
  <1> QED BY <1>1, FailureKeeps DEF PushFails

\* A receipt is taken from a peer, with the record q that its request is left in.
LEMMA TakenKeeps ==
  ASSUME PushIInv, NEW r \in PushRequests, NEW p \in preq[r].inflight,
         preq[<<r[2], p>>].res = "receipt", NEW q \in RequestRecords,
         preq' = [preq EXCEPT ![r] = q], q.st = "replied", q.inflight = preq[r].inflight \ {p},
         q.res = preq[r].res \/ preq[r].st = "loop",
         pcost' \in PushCosts, pcost'.credit = pcost.credit \cup {<<r[2], p>>},
         pcost.debit \subseteq pcost'.debit,
         q.res = "receipt" /\ preq[r].st = "loop" => r = Root \/ r \in pcost'.debit,
         UNCHANGED <<pskip, pheld, pnet>>
  PROVE  PushIInv'
  <1> DEFINE b == preq[r]
             s == <<r[2], p>>
  <1>0. b \in RequestRecords /\ RequestSound(b, r[2]) BY DEF PushIInv, PushTypeOK
  <1>1. b.st \in {"loop", "replied"} /\ (b.st = "loop" => b.res = "none")
    BY <1>0 DEF RequestSound, RequestRecords, PushStates
  <1>2. p \in PushNodes /\ p # r[2] /\ r[2] \notin q.inflight
    BY <1>0 DEF RequestSound, RequestRecords
  <1>3. s \in PushRequests /\ s # r /\ s # Root /\ r[2] \in PushNodes /\ s[2] = p
    BY <1>2, RequestPair DEF Root
  <1>4. ReceiptBacked(s) BY <1>3 DEF PushIInv
  <1>5. pheld # {} /\ s \in pcost.debit BY <1>3, <1>4 DEF ReceiptBacked
  <1>8. RequestSound(q, r[2]) BY <1>2 DEF RequestSound
  <1>9. /\ preq' \in [PushRequests -> RequestRecords] /\ preq'[r] = q
        /\ \A x \in PushRequests : x # r => preq'[x] = preq[x]
    BY DEF PushIInv, PushTypeOK
  <1>10. RequestSound(preq'[r], r[2]) /\ preq'[r].res = q.res BY <1>8, <1>9
  <1>11. preq[r].st # "none" /\ (preq[r].res = "receipt" => q.res = "receipt") BY <1>1
  <1>12. /\ pskip' \in [PushNodes -> [PushNodes -> {"no", "over", "long"}]] /\ pheld' \subseteq PushNodes
         /\ \A m, x \in PushNodes : pskip[m][x] = "long" => pskip'[m][x] = "long"
         /\ pheld \subseteq pheld' /\ pnet' = pnet
         /\ pcost.credit \subseteq pcost'.credit /\ pcost'.credit \subseteq pcost'.debit
    BY <1>5 DEF PushIInv, PushTypeOK
  <1>13. q.res = "receipt" => preq[r].res = "receipt" \/ ReceiptBacked(r)'
    <2> SUFFICES ASSUME q.res = "receipt", preq[r].st = "loop"
                 PROVE  ReceiptBacked(r)'
      BY <1>1
    <2>1. pheld' # {} /\ (r # Root' => r \in pcost'.debit) BY <1>5 DEF Root
    <2>2. s \in pcost'.credit /\ preq'[s].res = "receipt" BY <1>3, <1>9
    <2> QED BY <1>2, <2>1, <2>2 DEF ReceiptBacked
  <1> HIDE DEF b
  <1> QED BY <1>9, <1>10, <1>11, <1>12, <1>13, OneRequest

\* A receipt is taken from a peer: its credit is applied, and the request answered with the
\* receipt (res) or, when the answer fails, with an error.
LEMMA ReceiptKeeps ==
  ASSUME PushIInv, NEW r \in PushRequests, NEW p \in preq[r].inflight,
         preq[<<r[2], p>>].res = "receipt", NEW res \in PushAnswers,
         res = preq[r].res \/ preq[r].st = "loop",
         preq' = [preq EXCEPT ![r].inflight = @ \ {p}, ![r].st = "replied", ![r].res = res],
         pcost' \in PushCosts, pcost'.credit = pcost.credit \cup {<<r[2], p>>},
         pcost.debit \subseteq pcost'.debit,
         res = "receipt" /\ preq[r].st = "loop" => r = Root \/ r \in pcost'.debit,
         UNCHANGED <<pskip, pheld, pnet>>
  PROVE  PushIInv'
  <1> DEFINE b == preq[r]
             i == b.inflight \ {p}
             q == [b EXCEPT !.inflight = i, !.st = "replied", !.res = res]
  <1>1. b \in RequestRecords /\ i \subseteq PushNodes BY DEF PushIInv, PushTypeOK, RequestRecords
  <1>2. preq' = [preq EXCEPT ![r] = q] BY DEF PushIInv, PushTypeOK, RequestRecords
  <1>3. i = preq[r].inflight \ {p} OBVIOUS
  <1> HIDE DEF i
  <1>4. q \in RequestRecords /\ q.st = "replied" /\ q.res = res /\ q.inflight = i
    BY <1>1 DEF RequestRecords, PushStates
  <1> HIDE DEF b, q
  <1>5. /\ q.inflight = preq[r].inflight \ {p} /\ (q.res = preq[r].res \/ preq[r].st = "loop")
        /\ (q.res = "receipt" /\ preq[r].st = "loop" => r = Root \/ r \in pcost'.debit)
    BY <1>3, <1>4
  <1> QED BY <1>2, <1>4, <1>5, TakenKeeps, ZenonT(40)

\* The answer of a peer is taken off the result channel.
LEMMA ResultKeeps ==
  ASSUME PushIInv, NEW r \in PushRequests, NEW p \in preq[r].inflight, Result(r, p)
  PROVE  PushIInv'
  <1> DEFINE s == <<r[2], p>>
             got == IsReceipt(preq[s].res)
             open == preq[r].st = "loop"
  <1>0. UNCHANGED <<pskip, pheld, pnet>> BY DEF Result
  <1>1. /\ preq[r] \in RequestRecords /\ RequestSound(preq[r], r[2]) /\ pcost \in PushCosts
    BY DEF PushIInv, PushTypeOK
  <1>2. s \in PushRequests BY <1>1, RequestPair DEF RequestRecords
  <1>3. CASE /\ ~got /\ UNCHANGED pcost
             /\ preq' = IF open THEN PushCounted(r, p) ELSE [preq EXCEPT ![r].inflight = @ \ {p}]
    <2>1. pcost' \in PushCosts /\ pcost'.credit = pcost.credit /\ pcost'.debit = pcost.debit
      BY <1>1, <1>3
    <2> QED BY <1>0, <1>3, <2>1, FailureKeeps
  <1>4. CASE /\ got
             /\ preq' = [preq EXCEPT ![r].inflight = @ \ {p},
                                     ![r].st = "replied", ![r].res = IF open THEN "receipt" ELSE @]
             /\ pcost' = [pcost EXCEPT !.credit = @ \cup {s},
                                       !.debit = IF open /\ r # Root THEN @ \cup {r} ELSE @]
    <2> DEFINE res == IF open THEN "receipt" ELSE preq[r].res
               deb == IF open /\ r # Root THEN pcost.debit \cup {r} ELSE pcost.debit
    <2>1. res \in PushAnswers /\ (res = preq[r].res \/ open)
      BY <1>1 DEF RequestRecords, PushAnswers
    <2>2. preq' = [preq EXCEPT ![r].inflight = @ \ {p}, ![r].st = "replied", ![r].res = res]
      BY <1>4 DEF PushIInv, PushTypeOK, RequestRecords
    <2>3. /\ deb \subseteq PushRequests /\ pcost.debit \subseteq deb
          /\ (open => r = Root \/ r \in deb)
      BY <1>1 DEF PushCosts
    <2>4. pcost' = [pcost EXCEPT !.credit = @ \cup {s}, !.debit = deb]
      BY <1>1, <1>4 DEF PushCosts
    <2> HIDE DEF deb
    <2>5. pcost' \in PushCosts /\ pcost'.credit = pcost.credit \cup {s} /\ pcost'.debit = deb
      BY <1>1, <1>2, <2>3, <2>4 DEF PushCosts
    <2>6. preq[s].res = "receipt" BY <1>4 DEF IsReceipt
    <2> HIDE DEF res
    <2> QED BY <1>0, <2>1, <2>2, <2>3, <2>5, <2>6, ReceiptKeeps
  <1>5. CASE /\ got /\ open /\ r # Root /\ PushFault
             /\ preq' = [preq EXCEPT ![r].inflight = @ \ {p}, ![r].st = "replied", ![r].res = "error"]
             /\ pcost' = [Spend("faults") EXCEPT !.credit = @ \cup {s}]
    <2>1. Spend("faults") \in PushCosts /\ Spend("faults").credit = pcost.credit
          /\ Spend("faults").debit = pcost.debit
      BY SpendTyped DEF PushIInv
    <2>2. pcost' \in PushCosts /\ pcost'.credit = pcost.credit \cup {s} /\ pcost'.debit = pcost.debit
      BY <1>2, <1>5, <2>1 DEF PushCosts
    <2>3. "error" \in PushAnswers BY DEF PushAnswers
    <2>4. preq[s].res = "receipt" BY <1>5 DEF IsReceipt
    <2> QED BY <1>0, <1>5, <2>2, <2>3, <2>4, ReceiptKeeps
  <1> QED BY <1>3, <1>4, <1>5 DEF Result

\* Before the first push nothing is stored, asked or paid.
LEMMA PushInitially ==
  ASSUME NEW net \in PushNets, PushInit(net)
  PROVE  PushIInv
  <1>1. NoRequest \in RequestRecords /\ [NoRequest EXCEPT !.st = "wire"] \in RequestRecords
    BY DEF NoRequest, RequestRecords, PushStates, PushAnswers
  <1>2. preq \in [PushRequests -> RequestRecords] BY <1>1 DEF PushInit
  <1>3. \A r \in PushRequests : /\ preq[r].st \in {"none", "wire"} /\ preq[r].res = "none"
                                /\ preq[r].inflight = {}
    BY DEF PushInit, NoRequest
  <1>4. PushTypeOK BY <1>2 DEF PushInit, PushTypeOK, PushCosts
  <1>5. \A n, p \in PushNodes : n # p => preq[<<n, p>>].st = "none"
    BY RequestPair DEF PushInit, NoRequest
  <1>6. SentSkipped BY <1>5 DEF SentSkipped
  <1>7. \A r \in PushRequests : RequestSound(preq[r], r[2]) BY <1>3 DEF RequestSound
  <1>8. pcost.credit \subseteq pcost.debit BY DEF PushInit
  <1> QED BY <1>3, <1>4, <1>6, <1>7, <1>8 DEF PushIInv

\* Every step of push-sync keeps the invariant.
LEMMA PushStep ==
  ASSUME PushIInv, [PushNext]_pushVars
  PROVE  PushIInv'
  <1>1. CASE UNCHANGED pushVars
    <2>1. /\ preq' = preq /\ pskip' = pskip /\ pheld' = pheld /\ pcost' = pcost /\ pnet' = pnet
      BY <1>1 DEF pushVars
    <2>2. PushTypeOK' /\ SentSkipped' BY <2>1 DEF PushIInv, PushTypeOK, SentSkipped
    <2>3. \A r \in PushRequests : ReceiptBacked(r)' <=> ReceiptBacked(r)
      BY <2>1 DEF ReceiptBacked, Root
    <2> QED BY <2>1, <2>2, <2>3 DEF PushIInv
  <1>2. ASSUME NEW r \in PushRequests, Arrive(r) PROVE PushIInv' BY <1>2, ArriveKeeps
  <1>3. ASSUME NEW r \in PushRequests, NoPeerLeft(r) PROVE PushIInv' BY <1>3, NoPeerKeeps
  <1>4. ASSUME NEW r \in PushRequests, SelfClosest(r) PROVE PushIInv' BY <1>4, SelfClosestKeeps
  <1>5. ASSUME NEW r \in PushRequests, Forward(r) PROVE PushIInv' BY <1>5, ForwardKeeps
  <1>6. ASSUME NEW r \in PushRequests, NEW p \in preq[r].inflight, Result(r, p) PROVE PushIInv'
    BY <1>6, ResultKeeps
  <1>7. ASSUME NEW r \in PushRequests, PushTimeout(r) PROVE PushIInv' BY <1>7, TimeoutKeeps
  <1>8. ASSUME NEW r \in PushRequests, NEW p \in preq[r].inflight, PushFails(r, p) PROVE PushIInv'
    BY <1>8, PushFailsKeeps
  <1>9. ASSUME NEW n \in PushNodes, NEW p \in PushNodes, Refresh(n, p) PROVE PushIInv'
    BY <1>9, RefreshKeeps
  <1>10. CASE PushTick BY <1>10, TickKeeps
  <1> QED BY <1>1, <1>2, <1>3, <1>4, <1>5, <1>6, <1>7, <1>8, <1>9, <1>10 DEF PushNext, LoopStep

\* A push is never stuck and a receipt has a chunk behind it that was paid for, in every network,
\* with any number of faults, overdrafts and ticks (pushToClosest, handler, push).
THEOREM PushesStand == PushSpec => []PushSound
  <1>1. ASSUME PushIInv PROVE PushSound
    <2>1. PushNeverStuck BY <1>1 DEF PushNeverStuck, PushIInv, RequestSound
    <2>2. ReceiptStands BY <1>1 DEF ReceiptStands, PushIInv, ReceiptBacked
    <2> QED BY <2>1, <2>2 DEF PushSound
  <1>2. (\E net \in PushNets : PushInit(net)) => PushIInv BY PushInitially
  <1>3. PushIInv /\ [PushNext]_pushVars => PushIInv' BY PushStep
  <1> QED BY <1>1, <1>2, <1>3, PTL DEF PushSpec
=============================================================================
