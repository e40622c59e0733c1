----------------------------- MODULE Redundancy -----------------------------
(***************************************************************************)
(* Getting chunks back that the network has lost: the decoder of erasure   *)
(* coded chunks, and the dispersed replicas of a root chunk.               *)
(***************************************************************************)
EXTENDS Integers, FiniteSets

(***************************************************************************)
(* The decoder that retrieves the children of an intermediate chunk with   *)
(* erasure coding (pkg/file/redundancy/getter), and the joiner's cache of  *)
(* decoders.  Shards 1 .. DataShards are data, the others parity; a Get    *)
(* and the prefetch share the single flight of each shard.                 *)
(***************************************************************************)

CONSTANTS DataShards, ParityShards

VARIABLES
    net,     \* [there, slow, saves]: the shards a fetch finds, those that time out, does the putter work
    shard,   \* idle, flying, counted (fetchedCnt added, not in the buffer), got, failed
    rsbuf,   \* the shards in the buffer
    gets,    \* the Get of each data shard
    prefetch,\* [pc, strategy, strict, rest, missing]
    recovery,\* none, good, bad: the closed signal channel
    ectx,    \* the decoder's context is done
    getterEntry    \* the decoder's entry of the joiner's cache: live, nil, none

evars == <<net, shard, rsbuf, gets, prefetch, recovery, ectx, getterEntry>>

Data == 1 .. DataShards
Shards == 1 .. (DataShards + ParityShards)
Strategies == <<"NONE", "DATA", "PROX", "RACE">>

Fetched == Cardinality({i \in Shards : shard[i] \in {"counted", "got"}})
FailedCnt == Cardinality({i \in Shards : shard[i] = "failed"})
Landed(i) == shard[i] \in {"got", "failed"}   \* waits[i] is closed

(* New: sc is [net, strategy (a number), strict, gets]. *)
ErasureInit(sc) ==
    /\ net = sc.net /\ shard = [i \in Shards |-> "idle"] /\ rsbuf = {}
    /\ gets = [i \in Data |-> IF i \in sc.gets THEN "called" ELSE "none"]
    /\ prefetch = [pc |-> IF sc.strict /\ sc.strategy = 1 THEN "none" ELSE "start",
                   strategy |-> sc.strategy, strict |-> sc.strict, rest |-> {}, missing |-> {}]
    /\ recovery = IF sc.strict /\ sc.strategy = 1 THEN "bad" ELSE "none"
    /\ ectx = FALSE /\ getterEntry = "live"

---------------------------------------------------------------------------
(* Get and fetch(ctx, i, true): the first to fly fetches, the others wait   *)
(* for it to land.                                                          *)
Get(i) ==
    /\ gets[i] = "called"
    /\ gets' = [gets EXCEPT ![i] = "fetching"]
    /\ shard' = IF shard[i] = "idle" THEN [shard EXCEPT ![i] = "flying"] ELSE shard
    /\ UNCHANGED <<net, rsbuf, prefetch, recovery, ectx, getterEntry>>

(* The fetcher answers; a fetch in flight ends when the context is done or  *)
(* its time is up.                                                          *)
FetchFails(i) ==
    /\ shard[i] = "flying" /\ (i \notin net.there \/ i \in net.slow \/ ectx)
    /\ shard' = [shard EXCEPT ![i] = "failed"]
    /\ UNCHANGED <<net, rsbuf, gets, prefetch, recovery, ectx, getterEntry>>

FetchedOne(i) ==
    /\ shard[i] = "flying" /\ i \in net.there
    /\ shard' = [shard EXCEPT ![i] = "counted"]
    /\ UNCHANGED <<net, rsbuf, gets, prefetch, recovery, ectx, getterEntry>>

setData(i) ==
    /\ shard[i] = "counted"
    /\ rsbuf' = rsbuf \cup {i} /\ shard' = [shard EXCEPT ![i] = "got"]
    /\ UNCHANGED <<net, gets, prefetch, recovery, ectx, getterEntry>>

(* fetch returns: the shard is in the buffer, or the recovery is waited for. *)
GetReturns(i) ==
    /\ gets[i] = "fetching" /\ Landed(i)
    /\ \/ i \in rsbuf /\ gets' = [gets EXCEPT ![i] = "ok"]
       \/ shard[i] = "failed" /\ recovery = "good" /\ gets' = [gets EXCEPT ![i] = "ok"]
       \/ shard[i] = "failed" /\ recovery = "bad" /\ gets' = [gets EXCEPT ![i] = "notfound"]
    /\ UNCHANGED <<net, shard, rsbuf, prefetch, recovery, ectx, getterEntry>>

---------------------------------------------------------------------------
Unattempted == {i \in Data : ~Landed(i)}

(* A mutant: one more error than there are parities is allowed. *)
AllowedErrsMore(s) == IF s = "RACE" THEN ParityShards + 1 ELSE 0

AllowedErrs(s) == IF s = "RACE" THEN ParityShards ELSE 0

(* The prefetch is over: a signal is closed, the context is done and the    *)
(* decoder removed from the cache - with the error as it was when prefetch  *)
(* began, so always as a success.                                           *)
Finish(how) ==
    /\ recovery' = how /\ ectx' = TRUE /\ getterEntry' = "nil"
    /\ prefetch' = [prefetch EXCEPT !.pc = "done"]

(* The next strategy after a failed one, unless only one may run. *)
StrategyFails ==
    IF prefetch.strict \/ prefetch.strategy = 4 THEN Finish("bad")
    ELSE /\ prefetch' = [prefetch EXCEPT !.pc = "start", !.strategy = @ + 1, !.rest = {}]
         /\ UNCHANGED <<recovery, ectx, getterEntry>>

(* runStrategy: all that is to be fetched takes off at once. *)
RunStrategy ==
    LET s == Strategies[prefetch.strategy]
        m == IF s = "DATA" THEN Unattempted ELSE Unattempted \cup (Shards \ Data)
    IN /\ prefetch.pc = "start" /\ UNCHANGED <<net, rsbuf, gets>>
       /\ IF s \in {"NONE", "PROX"} THEN StrategyFails /\ UNCHANGED shard
          ELSE IF m = {}
          THEN /\ prefetch' = [prefetch EXCEPT !.pc = "recover"]
               /\ UNCHANGED <<shard, recovery, ectx, getterEntry>>
          ELSE /\ shard' = [i \in Shards |->
                              IF i \in m /\ shard[i] = "idle" THEN "flying" ELSE shard[i]]
               /\ prefetch' = [prefetch EXCEPT !.pc = "run", !.rest = m]
               /\ UNCHANGED <<recovery, ectx, getterEntry>>

(* The result of one fetch reaches the strategy. *)
StrategyResult(i) ==
    /\ prefetch.pc = "run" /\ i \in prefetch.rest /\ Landed(i)
    /\ UNCHANGED <<net, shard, rsbuf, gets>>
    /\ IF Fetched >= DataShards
       THEN /\ prefetch' = [prefetch EXCEPT !.pc = "recover"]
            /\ UNCHANGED <<recovery, ectx, getterEntry>>
       ELSE IF FailedCnt > AllowedErrs(Strategies[prefetch.strategy]) THEN StrategyFails
       ELSE /\ prefetch' = [prefetch EXCEPT !.rest = @ \ {i}]
            /\ UNCHANGED <<recovery, ectx, getterEntry>>

(* recover: what is missing, then decode and save. *)
Lacking ==
    /\ prefetch.pc = "recover" /\ UNCHANGED <<net, shard, rsbuf, gets>>
    /\ IF Data \subseteq rsbuf THEN Finish("good")
       ELSE /\ prefetch' = [prefetch EXCEPT !.pc = "decode", !.missing = Data \ rsbuf]
            /\ UNCHANGED <<recovery, ectx, getterEntry>>

(* A mutant: the error of the decoder is ignored. *)
DecodeIgnores ==
    /\ prefetch.pc = "decode" /\ UNCHANGED <<net, shard, gets>> /\ Finish("good")
    /\ rsbuf' = IF Cardinality(rsbuf) >= DataShards THEN rsbuf \cup Data ELSE rsbuf

Decode ==
    /\ prefetch.pc = "decode" /\ UNCHANGED <<net, shard, gets>>
    /\ IF Cardinality(rsbuf) < DataShards THEN StrategyFails /\ UNCHANGED rsbuf
       ELSE /\ rsbuf' = rsbuf \cup Data
            /\ IF net.saves THEN Finish("good") ELSE StrategyFails

(* Close: the context is done, the goroutines are waited for, the decoder   *)
(* leaves the cache.  A prefetch in its loop ends with an error.            *)
Close ==
    /\ prefetch.pc \in {"run", "none"} /\ net.closes
    /\ net' = [net EXCEPT !.closes = FALSE]
    /\ IF prefetch.pc = "run" THEN Finish("bad")
       ELSE /\ ectx' = TRUE /\ getterEntry' = "nil" /\ UNCHANGED <<prefetch, recovery>>
    /\ UNCHANGED <<shard, rsbuf, gets>>

ErasureStep ==
    \/ RunStrategy \/ Lacking \/ Decode
    \/ \E i \in Shards : FetchFails(i) \/ FetchedOne(i) \/ setData(i) \/ StrategyResult(i)
    \/ \E i \in Data : Get(i) \/ GetReturns(i)

ErasureNext == ErasureStep \/ Close

---------------------------------------------------------------------------
(* Every Get returns: where nothing more can happen none is waiting (fetch  *)
(* waits for a landing, then for the recovery's end; the strategies end by  *)
(* their counts).                                                           *)
GetsReturn == (\A i \in Data : gets[i] \in {"none", "ok", "notfound"}) \/ ENABLED ErasureStep

(* A Get that succeeds has its chunk (fetch: the buffer holds the shard     *)
(* when its wait channel is closed, or goodRecovery is closed after the     *)
(* data was reconstructed), and a chunk is never made of fewer shards than  *)
(* there are data shards: with too few of them in the network no chunk that *)
(* is not there is returned.  And every Get returns.                        *)
GetsSound ==
    /\ \A i \in Data : gets[i] = "ok" =>
          i \in rsbuf /\ (i \in net.there \/ Cardinality(net.there) >= DataShards)
    /\ GetsReturn

(* "signals that a new getter is needed to reattempt to recover the data"   *)
(* (decoderCache.GetOrCreate): after a failed recovery the decoder is not   *)
(* in the cache.                                                            *)
Reattempts == prefetch.pc = "done" /\ recovery = "bad" => getterEntry = "none"

(* "Get will call parities and other sibling chunks if the chunk address    *)
(* cannot be retrieved" (decoder.Get): with enough shards retrievable, and  *)
(* none timing out, none is not found under the default configuration.      *)
Recovers ==
    ~prefetch.strict /\ net.slow = {} /\ net.saves /\ Cardinality(net.there) >= DataShards
    /\ prefetch.pc = "done" => recovery = "good"

-----------------------------------------------------------------------------
(***************************************************************************)
(* The dispersed replicas of a root chunk (pkg/replicas): which addresses  *)
(* the replicator hands out and in what order, the putter that stores one  *)
(* per address, and the getter that tries the chunk itself and then ever   *)
(* more replicas, a batch an interval.                                     *)
(*                                                                         *)
(* A mined address is the first RLevel bits of its first byte: its         *)
(* neighbourhood at the depth of the level.                                *)
(***************************************************************************)

CONSTANTS
    RLevel,   \* the redundancy level: 2^RLevel replicas
    MaxMined  \* the addresses mined before the replicator gives up

VARIABLES
    lucky,    \* the requests that find a chunk: 0 the original, n the n-th replica
    miner,    \* [queue, mined]: the replicator
    rloop,    \* level, n, target, next, wait, errcnt, tried: the getter's loop
    rget      \* [flying, answer]: its requests

repvars == <<lucky, miner, rloop, rget>>

GetReplicaCount(l) == IF l = 0 THEN 0 ELSE 2 ^ l
Total == GetReplicaCount(RLevel)
Nh(l, a) == a \div (2 ^ (RLevel - l))   \* the top l bits of the address

(* add: the shallowest depth at which the neighbourhood of the address is   *)
(* new; none when it is taken at the depth of the level.  The queue has the *)
(* addresses of depth l at positions from 2^(l-1), those of depth 1 from 0. *)
RankDepth(q, a) ==
    LET taken(l) == \E k \in DOMAIN q : q[k] # -1 /\ Nh(l, q[k]) = Nh(l, a) IN
    IF taken(RLevel) THEN 0
    ELSE CHOOSE l \in 1 .. RLevel : ~taken(l) /\ \A m \in 1 .. (l - 1) : taken(m)

Place(q, a) ==
    LET d == RankDepth(q, a)
        base == IF d = 1 THEN 0 ELSE 2 ^ (d - 1)
        o == CHOOSE k \in base .. (Total - 1) :
               q[k] = -1 /\ \A m \in base .. (k - 1) : q[m] # -1
    IN IF d = 0 THEN q ELSE [q EXCEPT ![o] = a]

(* What is handed out: the queue as far as it is filled without a gap. *)
Handed == CHOOSE n \in 0 .. Total : /\ \A k \in 0 .. (n - 1) : miner.queue[k] # -1
                                    /\ n = Total \/ miner.queue[n] = -1
MinerDone == Handed = Total \/ miner.mined = MaxMined

(* replicas: the next address that is mined falls anywhere. *)
MineReplica(a) ==
    /\ ~MinerDone
    /\ miner' = [queue |-> Place(miner.queue, a), mined |-> miner.mined + 1]
    /\ UNCHANGED <<lucky, rloop, rget>>

---------------------------------------------------------------------------
ReplicasInit(l) ==
    /\ lucky = l /\ miner = [queue |-> [k \in 0 .. (Total - 1) |-> -1], mined |-> 0]
    /\ rloop = [level |-> 0, n |-> 0, target |-> 2, next |-> TRUE, wait |-> FALSE,
                errcnt |-> 0, tried |-> 0]
    /\ rget = [flying |-> {0}, answer |-> "none"]

(* A chunk is retrieved: the original (0), or the replica of an address. *)
Retrieved(r) ==
    /\ rget.answer = "none" /\ r \in rget.flying /\ r \in lucky
    /\ rget' = [rget EXCEPT !.answer = "chunk"] /\ UNCHANGED <<miner, lucky, rloop>>

(* A mutant: one answer too early. *)
GiveUpEarly(errors) == errors >= Total

GiveUp(errors) == errors > Total

Errored(r) ==
    /\ rget.answer = "none" /\ r \in rget.flying /\ r \notin lucky
    /\ rloop' = [rloop EXCEPT !.errcnt = @ + 1]
    /\ rget' = [rget EXCEPT !.flying = @ \ {r},
                            !.answer = IF GiveUp(rloop.errcnt + 1) THEN "error" ELSE @]
    /\ UNCHANGED <<miner, lucky>>

(* The ticker opens the addresses again; past the level the loop ends. *)
ReplicaTick ==
    /\ rget.answer = "none" /\ rloop.wait
    /\ rloop' = [rloop EXCEPT !.wait = FALSE, !.next = TRUE, !.level = @ + 1,
                              !.target = 2 ^ (rloop.level + 1), !.n = 0]
    /\ rget' = [rget EXCEPT !.answer = IF rloop'.level > RLevel THEN "nothing" ELSE @]
    /\ UNCHANGED <<miner, lucky>>

(* The next address, or the end of them. *)
NextReplica ==
    /\ rget.answer = "none" /\ rloop.next
    /\ rloop.tried < Handed \/ MinerDone
    /\ IF rloop.tried = Handed
       THEN rloop' = [rloop EXCEPT !.next = FALSE] /\ UNCHANGED rget
       ELSE /\ rget' = [rget EXCEPT !.flying = @ \cup {rloop.tried + 1}]
            /\ rloop' = [rloop EXCEPT !.tried = @ + 1, !.n = @ + 1,
                                      !.next = rloop.n + 1 < rloop.target,
                                      !.wait = rloop.n + 1 >= rloop.target]
    /\ UNCHANGED <<miner, lucky>>

ReplicasNext ==
    \/ ReplicaTick \/ NextReplica
    \/ \E a \in 0 .. (Total - 1) : MineReplica(a)
    \/ \E r \in 0 .. Total : Retrieved(r) \/ Errored(r)

---------------------------------------------------------------------------
(* The getter answers with a chunk or an error, never with neither (its     *)
(* loop may run out: "return nil, nil"); it gives up only when all replicas *)
(* were tried, and does not wait in vain once all are found (it has no case *)
(* for its context, and counts on Total + 1 answers).  The replicas are     *)
(* dispersed: of the first 2^l handed out no two share a neighbourhood of   *)
(* depth l ("the order of replicas is so that addresses are always          *)
(* maximally dispersed").                                                   *)
ReplicasTried ==
    /\ rget.answer # "nothing"
    /\ rget.answer = "error" => rloop.tried = Total /\ lucky \cap (0 .. Total) = {}
    /\ rget.answer # "none" \/ Handed < Total \/ ENABLED ReplicasNext
    /\ \A l \in 1 .. RLevel : \A i, j \in 1 .. 2 ^ l :
          i < j /\ j <= Handed => Nh(l, miner.queue[i - 1]) # Nh(l, miner.queue[j - 1])
=============================================================================
