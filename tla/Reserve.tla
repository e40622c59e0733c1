------------------------------ MODULE Reserve ------------------------------
(***************************************************************************)
(* The reserve of the local store: chunks kept for the network, by batch   *)
(* and by bin, numbered within their bin for pull syncing.                 *)
(*                                                                         *)
(* Writers hold the lock of the chunk's batch from the look at the index   *)
(* to the commit; a writer first takes a number (IncBinID), which is       *)
(* written at once, and later writes everything else in one batch.  The    *)
(* eviction worker removes expired batches and, when the reserve is over   *)
(* capacity, bins below the radius; the size worker counts what is within  *)
(* the radius, finds chunks of unknown batches and lowers the radius.      *)
(* Events are channels that hold one signal.                               *)
(***************************************************************************)
EXTENDS Integers, FiniteSets, FiniteSetsExt, Functions

CONSTANTS Addrs, Batches, Writers, MaxBins, NoBatch, ReserveScenarios

ASSUME ReserveAssumption == MaxBins \in Nat \ {0} /\ NoBatch \notin Batches

VARIABLES
    index,     \* the four kinds of items a chunk of the reserve has
    binID,     \* BinItem: the last number given out in each bin
    refCnt,    \* references of the chunk store
    cacheEntry, \* addresses the cache holds
    expiredItem, \* batches to be evicted, as stored
    batchstore, \* batches the batch store knows
    expiring,  \* the batch its cleanup is at
    size, radius, radiusItem, \* in memory; the radius as stored
    todo,      \* chunks that peers and uploads still bring
    put,       \* what each writer does
    ev,        \* the eviction worker
    sz,        \* the worker that counts, and whether it has been started
    active,    \* activeEviction
    chan,      \* signals pending
    sub,       \* a subscriber of one bin
    rhist,     \* what has happened, for the properties
    rsc        \* the scenario

storedVars == <<index, binID, refCnt, cacheEntry, expiredItem, radiusItem>>
workVars == <<ev, sz, active>>
bsVars == <<batchstore, expiring>>
reserveVars == <<storedVars, bsVars, size, radius, todo, put, workVars, chan, sub,
                 rhist, rsc>>

Bins == 0 .. MaxBins - 1

NoChunk == [addr |-> CHOOSE a \in Addrs : TRUE, batch |-> NoBatch, idx |-> 0, ts |-> 0]
NoPut == [pc |-> "idle", chunk |-> NoChunk, id |-> 0, prev |-> 0, old |-> {},
          cached |-> {}, refs |-> 0, isNew |-> FALSE]
NoEviction == [pc |-> "idle", why |-> "none", all |-> {}, batches |-> {}, batch |-> NoBatch,
               radius |-> 0, target |-> 0, total |-> 0, n |-> 0]
NoCount == [pc |-> "off", count |-> 0, missing |-> {}]
NoSignals == [expiry |-> FALSE, over |-> FALSE, unreserve |-> FALSE, flag |-> FALSE,
              done |-> FALSE, bin |-> FALSE]
NewSub == [pc |-> "waiting", next |-> 1, snap |-> {}, seen |-> {}]

ReserveInit ==
    /\ rsc \in ReserveScenarios
    /\ index = [batchRadius |-> {}, chunkBin |-> <<>>, stampIndex |-> <<>>,
                chunkStamp |-> {}]
    /\ binID = [b \in Bins |-> 0]
    /\ refCnt = [a \in Addrs |-> 0]
    /\ cacheEntry = {} /\ expiredItem = {}
    /\ batchstore = {c.batch : c \in rsc.chunks} /\ expiring = NoBatch
    /\ size = 0 /\ radius = 0 /\ radiusItem = 0
    /\ todo = rsc.chunks
    /\ put = [w \in Writers |-> NoPut]
    /\ ev = NoEviction /\ sz = NoCount /\ active = FALSE
    /\ chan = NoSignals
    /\ sub = [NewSub EXCEPT !.pc = "iterating"]
    /\ rhist = [fails |-> 0, crashes |-> 0, dying |-> {}, lowered |-> FALSE,
                maxed |-> FALSE, torn |-> FALSE]

-----------------------------------------------------------------------------
(* The index                                                                *)

Bin(addr) == rsc.bin[addr]

\* the entries of a set of chunks, found by the stamp kept with the chunk
StampsOf(x, entries) ==
    {s \in x.chunkStamp : \E e \in entries : s.addr = e.addr /\ s.batch = e.batch}

\* removeChunk, for each of the entries
Removed(x, entries) ==
    [batchRadius |-> x.batchRadius \ entries,
     chunkBin |-> Restrict(x.chunkBin,
                           DOMAIN x.chunkBin \ {<<e.bin, e.id>> : e \in entries}),
     stampIndex |-> Restrict(x.stampIndex,
                             DOMAIN x.stampIndex \
                                {<<s.batch, s.idx>> : s \in StampsOf(x, entries)}),
     chunkStamp |-> x.chunkStamp \ StampsOf(x, entries)]

Assigned(f, k, v) == [x \in DOMAIN f \cup {k} |-> IF x = k THEN v ELSE f[x]]

\* what Put writes for a chunk
Added(x, c, id) ==
    [batchRadius |-> x.batchRadius \cup
                        {[batch |-> c.batch, addr |-> c.addr, bin |-> Bin(c.addr), id |-> id]},
     chunkBin |-> Assigned(x.chunkBin, <<Bin(c.addr), id>>,
                           [addr |-> c.addr, batch |-> c.batch]),
     stampIndex |-> Assigned(x.stampIndex, <<c.batch, c.idx>>, [addr |-> c.addr, ts |-> c.ts]),
     chunkStamp |-> x.chunkStamp \cup {c}]

Known(c) == \E e \in index.batchRadius : e.addr = c.addr /\ e.batch = c.batch

Loaded(c) == <<c.batch, c.idx>> \in DOMAIN index.stampIndex

\* the older chunk that has the stamp's index
Replaced(c) ==
    IF ~Loaded(c) THEN {}
    ELSE {e \in index.batchRadius :
            e.batch = c.batch /\ e.addr = index.stampIndex[<<c.batch, c.idx>>].addr}

\* seeded fault: the reference is kept when the cache has one of its own
ShallowCopyKeeping(addrs) ==
    /\ cacheEntry' = cacheEntry \cup addrs
    /\ UNCHANGED refCnt

\* Cache.ShallowCopy: the reference of the reserve becomes the cache's, or is dropped
ShallowCopy(addrs) ==
    /\ cacheEntry' = cacheEntry \cup addrs
    /\ refCnt' = [a \in Addrs |-> IF a \in addrs \cap cacheEntry THEN refCnt[a] - 1
                                  ELSE refCnt[a]]

\* the lock of a batch is held by a writer that has looked at the index
Locked(b) == \E w \in Writers : put[w].pc = "numbered" /\ put[w].chunk.batch = b

-----------------------------------------------------------------------------
(* Events                                                                   *)

Over(n) == n > rsc.capacity

\* Trigger: subscribers of an event
Expiry(c) == [c EXCEPT !.expiry = TRUE, !.flag = (sz.pc # "off"),
                       !.unreserve = (ev.why = "unreserve")]
OverCapacity(c, n) == IF Over(n) THEN [c EXCEPT !.over = TRUE] ELSE c
BinSignal(c, addr) == IF Bin(addr) = rsc.subBin THEN [c EXCEPT !.bin = TRUE] ELSE c

-----------------------------------------------------------------------------
(* Writers: ReservePutter().Put, called after the stamp has been validated  *)

Validated(w, c) ==
    /\ put[w].pc = "idle" /\ c \in todo /\ c.batch \in batchstore
    /\ put' = [put EXCEPT ![w] = [NoPut EXCEPT !.pc = "validated", !.chunk = c]]
    /\ todo' = todo \ {c}
    /\ UNCHANGED <<storedVars, bsVars, size, radius, workVars, chan, sub, rhist, rsc>>

\* the putter has the lock of the batch
Enters(w) == put[w].pc = "validated" /\ ~Locked(put[w].chunk.batch)

PutKnown(w) ==
    LET c == put[w].chunk
    IN  /\ Enters(w) /\ Known(c)
        /\ put' = [put EXCEPT ![w] = NoPut]
        /\ chan' = OverCapacity(BinSignal(chan, c.addr), size)
        /\ UNCHANGED <<storedVars, bsVars, size, radius, todo, workVars, sub, rhist, rsc>>

\* ErrOverwriteNewerChunk, or the replaced chunk is not found
PutRefused(w) ==
    LET c == put[w].chunk
    IN  /\ Enters(w) /\ ~Known(c) /\ Loaded(c)
        /\ \/ index.stampIndex[<<c.batch, c.idx>>].ts >= c.ts
           \/ Replaced(c) = {}
        /\ put' = [put EXCEPT ![w] = NoPut]
        /\ UNCHANGED <<storedVars, bsVars, size, radius, todo, workVars, chan, sub, rhist,
                       rsc>>

\* seeded fault: the timestamps are not compared
PutNumberAnyTime(w) ==
    LET c == put[w].chunk
        old == {e.addr : e \in Replaced(c)}
        n == binID[Bin(c.addr)]
    IN  /\ Enters(w) /\ ~Known(c)
        /\ Loaded(c) => old # {}
        /\ ShallowCopy(old)
        /\ binID' = [binID EXCEPT ![Bin(c.addr)] = n + 1]
        /\ put' = [put EXCEPT ![w] =
                     [@ EXCEPT !.pc = "numbered", !.id = n + 1, !.prev = n,
                               !.old = Replaced(c), !.cached = old \cap cacheEntry,
                               !.refs = MapThenSumSet(LAMBDA a : refCnt[a], old),
                               !.isNew = ~Loaded(c)]]
        /\ UNCHANGED <<index, expiredItem, radiusItem, bsVars, size, radius, todo,
                       workVars, chan, sub, rhist, rsc>>

\* the old chunk is handed to the cache and the number is taken: both are written at once
PutNumber(w) ==
    LET c == put[w].chunk
        old == {e.addr : e \in Replaced(c)}
        n == binID[Bin(c.addr)]
    IN  /\ Enters(w) /\ ~Known(c)
        /\ Loaded(c) => /\ index.stampIndex[<<c.batch, c.idx>>].ts < c.ts
                        /\ old # {}
        /\ ShallowCopy(old)
        /\ binID' = [binID EXCEPT ![Bin(c.addr)] = n + 1]
        /\ put' = [put EXCEPT ![w] =
                     [@ EXCEPT !.pc = "numbered", !.id = n + 1, !.prev = n,
                               !.old = Replaced(c), !.cached = old \cap cacheEntry,
                               !.refs = MapThenSumSet(LAMBDA a : refCnt[a], old),
                               !.isNew = ~Loaded(c)]]
        /\ UNCHANGED <<index, expiredItem, radiusItem, bsVars, size, radius, todo,
                       workVars, chan, sub, rhist, rsc>>

\* chunkStore.Put and storeBatch.Commit; the lock is released
PutWrite(w) ==
    LET p == put[w]
    IN  /\ p.pc = "numbered"
        /\ index' = Added(Removed(index, p.old), p.chunk, p.id)
        /\ refCnt' = [refCnt EXCEPT ![p.chunk.addr] = @ + 1]
        /\ put' = [put EXCEPT ![w].pc = "stored"]
        /\ UNCHANGED <<binID, cacheEntry, expiredItem, radiusItem, bsVars, size, radius,
                       todo, workVars, chan, sub, rhist, rsc>>

\* AddSize and the events
PutDone(w) ==
    LET p == put[w]
        n == size + (IF p.isNew THEN 1 ELSE 0)
    IN  /\ p.pc = "stored"
        /\ size' = n
        /\ chan' = OverCapacity(BinSignal(chan, p.chunk.addr), n)
        /\ put' = [put EXCEPT ![w] = NoPut]
        /\ UNCHANGED <<storedVars, bsVars, radius, todo, workVars, sub, rhist, rsc>>

Olds(p) == {e.addr : e \in p.old}

\* undoing what puts have written: each record gets the value it had before
Undone(ps) ==
    /\ \E f \in [Bins -> {p.prev : p \in ps} \cup Range(binID)] :
          /\ \A b \in Bins :
                LET here == {p \in ps : Bin(p.chunk.addr) = b}
                IN  f[b] \in IF here = {} THEN {binID[b]} ELSE {p.prev : p \in here}
          /\ binID' = f
    /\ cacheEntry' = cacheEntry \ UNION {Olds(p) \ p.cached : p \in ps}
    /\ \E f \in [Addrs -> {p.refs : p \in ps} \cup Range(refCnt)] :
          /\ \A a \in Addrs :
                LET here == {p \in ps : a \in p.cached}
                IN  f[a] \in IF here = {} THEN {refCnt[a]} ELSE {p.refs : p \in here}
          /\ refCnt' = f

\* what others have done since to the same records is lost
Tears(ps) ==
    \E p \in ps :
        \/ \E e \in index.batchRadius : e.bin = Bin(p.chunk.addr) /\ e.id >= p.id
        \/ \E w \in Writers : /\ put[w] \notin ps /\ put[w].pc = "numbered"
                              /\ Bin(put[w].chunk.addr) = Bin(p.chunk.addr)
                              /\ put[w].id > p.id
        \/ \E a \in p.cached : refCnt[a] # p.refs - 1

\* the transaction of the putter is rolled back
PutFails(w) ==
    /\ put[w].pc = "numbered" /\ rhist.fails < rsc.fails
    /\ Undone({put[w]})
    /\ rhist' = [rhist EXCEPT !.fails = @ + 1, !.torn = @ \/ Tears({put[w]})]
    /\ put' = [put EXCEPT ![w] = NoPut]
    /\ UNCHANGED <<index, expiredItem, radiusItem, bsVars, size, radius, todo, workVars,
                   chan, sub, rsc>>

-----------------------------------------------------------------------------
(* Expiry of a batch: the batch store evicts first and forgets it afterwards *)

EvictBatch(b) ==
    /\ expiredItem' = expiredItem \cup {b}
    /\ chan' = Expiry(chan)

ExpireBatch(b) ==
    /\ b \in batchstore /\ expiring = NoBatch
    /\ b \in rhist.dying \/ Cardinality(rhist.dying) < rsc.expiries
    /\ EvictBatch(b)
    /\ expiring' = b
    /\ rhist' = [rhist EXCEPT !.dying = @ \cup {b}]
    /\ UNCHANGED <<index, binID, refCnt, cacheEntry, radiusItem, batchstore, size, radius, todo,
                   put, workVars, sub, rsc>>

ForgetBatch ==
    /\ expiring # NoBatch
    /\ batchstore' = batchstore \ {expiring}
    /\ expiring' = NoBatch
    /\ UNCHANGED <<storedVars, size, radius, todo, put, workVars, chan, sub, rhist, rsc>>

-----------------------------------------------------------------------------
(* evictionWorker                                                           *)

\* seeded fault: the bin of the radius is evicted too
EvictBatchBinTo(b, upTo) ==
    LET evicted == {e \in index.batchRadius : e.batch = b /\ e.bin <= upTo}
    IN  /\ ~Locked(b)
        /\ index' = Removed(index, evicted)
        /\ ShallowCopy({e.addr : e \in evicted})
        /\ ev' = [ev EXCEPT !.pc = "shrink", !.batch = b, !.batches = @ \ {b},
                            !.n = Cardinality(evicted)]
        /\ UNCHANGED <<binID, expiredItem, radiusItem, bsVars, size, radius, todo, put, sz,
                       active, chan, sub, rhist, rsc>>

\* EvictBatchBin, under the lock of the batch; AddSize follows when it is released
EvictBatchBin(b, upTo) ==
    LET evicted == {e \in index.batchRadius : e.batch = b /\ e.bin < upTo}
    IN  /\ ~Locked(b)
        /\ index' = Removed(index, evicted)
        /\ ShallowCopy({e.addr : e \in evicted})
        /\ ev' = [ev EXCEPT !.pc = "shrink", !.batch = b, !.batches = @ \ {b},
                            !.n = Cardinality(evicted)]
        /\ UNCHANGED <<binID, expiredItem, radiusItem, bsVars, size, radius, todo, put, sz,
                       active, chan, sub, rhist, rsc>>

TakeExpiry ==
    /\ ev.pc = "idle" /\ chan.expiry
    /\ chan' = [chan EXCEPT !.expiry = FALSE]
    /\ ev' = [NoEviction EXCEPT !.pc = "expired", !.why = "expired", !.batches = expiredItem]
    /\ UNCHANGED <<storedVars, bsVars, size, radius, todo, put, sz, active, sub, rhist, rsc>>

EvictExpired == ev.pc = "expired" /\ \E b \in ev.batches : EvictBatchBin(b, MaxBins)

\* AddSize(-evicted); then the expired batch is forgotten, or the target is looked at
Shrink ==
    /\ ev.pc = "shrink"
    /\ size' = size - ev.n
    /\ ev' = IF ev.why = "expired" THEN [ev EXCEPT !.pc = "unmark"]
             ELSE IF ev.total + ev.n >= ev.target THEN NoEviction
             ELSE [ev EXCEPT !.pc = "unreserve", !.total = @ + ev.n, !.n = 0]
    /\ UNCHANGED <<storedVars, bsVars, radius, todo, put, sz, active, chan, sub, rhist, rsc>>

Unmark ==
    /\ ev.pc = "unmark"
    /\ expiredItem' = expiredItem \ {ev.batch}
    /\ ev' = [ev EXCEPT !.pc = "expired", !.batch = NoBatch, !.n = 0]
    /\ UNCHANGED <<index, binID, refCnt, cacheEntry, radiusItem, bsVars, size, radius, todo,
                   put, sz, active, chan, sub, rhist, rsc>>

ExpiredDone ==
    /\ ev.pc = "expired" /\ ev.batches = {}
    /\ ev' = NoEviction
    /\ chan' = OverCapacity([chan EXCEPT !.done = (sz.pc # "off")], size)
    /\ UNCHANGED <<storedVars, bsVars, size, radius, todo, put, sz, active, sub, rhist, rsc>>

\* a transaction of the eviction fails: evictExpiredBatches or unreserve returns
EvictFails ==
    /\ ev.pc \in {"expired", "unreserve"} /\ ev.batches # {} /\ rhist.fails < rsc.fails
    /\ ev' = IF ev.pc = "expired" THEN [ev EXCEPT !.batches = {}] ELSE NoEviction
    /\ rhist' = [rhist EXCEPT !.fails = @ + 1]
    /\ UNCHANGED <<storedVars, bsVars, size, radius, todo, put, sz, active, chan, sub, rsc>>

\* unreserve
TakeOverCapacity ==
    /\ ev.pc = "idle" /\ chan.over
    /\ chan' = [chan EXCEPT !.over = FALSE, !.unreserve = FALSE]
    /\ ev' = IF ~Over(size) THEN NoEviction
             ELSE [NoEviction EXCEPT !.pc = "unreserve", !.why = "unreserve",
                                     !.radius = radius, !.target = size - rsc.capacity,
                                     !.all = batchstore, !.batches = batchstore]
    /\ rhist' = [rhist EXCEPT !.lowered = FALSE]
    /\ UNCHANGED <<storedVars, bsVars, size, radius, todo, put, sz, active, sub, rsc>>

UnreserveBatch ==
    /\ ev.pc = "unreserve" /\ ~chan.unreserve /\ ev.radius < MaxBins
    /\ \E b \in ev.batches : EvictBatchBin(b, ev.radius)

UnreserveStops ==
    /\ ev.pc = "unreserve" /\ chan.unreserve /\ ev.batches # {} /\ ev.radius < MaxBins
    /\ ev' = NoEviction
    /\ chan' = [chan EXCEPT !.unreserve = FALSE]
    /\ UNCHANGED <<storedVars, bsVars, size, radius, todo, put, sz, active, sub, rhist, rsc>>

SetRadius(r) == radius' = r /\ radiusItem' = r

RaiseRadius ==
    /\ ev.pc = "unreserve" /\ ev.batches = {} /\ ev.radius < MaxBins
    /\ SetRadius(ev.radius + 1)
    /\ ev' = [ev EXCEPT !.radius = @ + 1, !.batches = ev.all]
    /\ UNCHANGED <<index, binID, refCnt, cacheEntry, expiredItem, bsVars, size, todo, put,
                   sz, active, chan, sub, rhist, rsc>>

\* errMaxRadius
UnreserveGivesUp ==
    /\ ev.pc = "unreserve" /\ ev.radius >= MaxBins
    /\ ev' = NoEviction
    /\ rhist' = [rhist EXCEPT !.maxed = TRUE]
    /\ chan' = [chan EXCEPT !.unreserve = FALSE]
    /\ UNCHANGED <<storedVars, bsVars, size, radius, todo, put, sz, active, sub, rsc>>

-----------------------------------------------------------------------------
(* reserveSizeWithinRadiusWorker                                            *)

\* startReserveWorkers after the warm-up: the network's radius
StartWorkers ==
    /\ sz.pc = "off"
    /\ SetRadius(rsc.radius)
    /\ sz' = [NoCount EXCEPT !.pc = "idle"]
    /\ rhist' = [rhist EXCEPT !.lowered = @ \/ rsc.radius < ev.radius]
    /\ UNCHANGED <<index, binID, refCnt, cacheEntry, expiredItem, bsVars, size, todo, put, ev,
                   active, chan, sub, rsc>>

Flag(on) ==
    /\ IF on THEN chan.flag ELSE chan.done
    /\ chan' = IF on THEN [chan EXCEPT !.flag = FALSE] ELSE [chan EXCEPT !.done = FALSE]
    /\ active' = on
    /\ UNCHANGED <<storedVars, bsVars, size, radius, todo, put, ev, sz, sub, rhist, rsc>>

\* seeded fault: batches that are missing are not looked for
CountOnly ==
    /\ sz.pc = "idle"
    /\ sz' = [pc |-> "counted", missing |-> {},
              count |-> Cardinality({k \in DOMAIN index.chunkBin : k[1] >= radius})]
    /\ UNCHANGED <<storedVars, bsVars, size, radius, todo, put, ev, active, chan, sub, rhist, rsc>>

\* countFn: chunks within the radius, and batches the batch store does not know
Count ==
    /\ sz.pc = "idle"
    /\ sz' = [pc |-> "counted",
              count |-> Cardinality({k \in DOMAIN index.chunkBin : k[1] >= radius}),
              missing |-> IF active THEN {}
                          ELSE {v.batch : v \in Range(index.chunkBin)} \ batchstore]
    /\ UNCHANGED <<storedVars, bsVars, size, radius, todo, put, ev, active, chan, sub, rhist, rsc>>

EvictMissing(b) ==
    /\ sz.pc = "counted" /\ b \in sz.missing
    /\ EvictBatch(b)
    /\ sz' = [sz EXCEPT !.missing = @ \ {b}]
    /\ UNCHANGED <<index, binID, refCnt, cacheEntry, radiusItem, bsVars, size, radius, todo, put,
                   ev, active, sub, rhist, rsc>>

\* seeded fault: the radius is lowered below zero
AdjustRadiusBelowZero ==
    /\ sz.pc = "counted" /\ sz.missing = {}
    /\ sz' = [NoCount EXCEPT !.pc = "idle"]
    /\ \/ /\ sz.count < (rsc.capacity * 5) \div 10
          /\ SetRadius(radius - 1)
          /\ rhist' = [rhist EXCEPT !.lowered = TRUE]
       \/ UNCHANGED <<radius, radiusItem, rhist>>
    /\ UNCHANGED <<index, binID, refCnt, cacheEntry, expiredItem, bsVars, size, todo, put, ev,
                   active, chan, sub, rsc>>

\* the radius is read again after the count; the syncer may be busy
AdjustRadius ==
    /\ sz.pc = "counted" /\ sz.missing = {}
    /\ sz' = [NoCount EXCEPT !.pc = "idle"]
    /\ \/ /\ sz.count < (rsc.capacity * 5) \div 10 /\ radius > 0
          /\ SetRadius(radius - 1)
          /\ rhist' = [rhist EXCEPT !.lowered = TRUE]
       \/ UNCHANGED <<radius, radiusItem, rhist>>
    /\ UNCHANGED <<index, binID, refCnt, cacheEntry, expiredItem, bsVars, size, todo, put, ev,
                   active, chan, sub, rsc>>

-----------------------------------------------------------------------------
(* SubscribeBin                                                             *)

\* IterateBin starts: what it goes through is fixed
Iterate ==
    /\ sub.pc = "iterating"
    /\ sub' = [sub EXCEPT !.pc = "sending",
                          !.snap = {k[2] : k \in {k \in DOMAIN index.chunkBin :
                                                    k[1] = rsc.subBin /\ k[2] >= sub.next}}]
    /\ UNCHANGED <<storedVars, bsVars, size, radius, todo, put, workVars, chan, rhist, rsc>>

Send ==
    LET id == Min(sub.snap)
    IN  /\ sub.pc = "sending" /\ sub.snap # {}
        /\ sub' = [sub EXCEPT !.snap = @ \ {id}, !.next = id + 1, !.seen = @ \cup {id}]
        /\ UNCHANGED <<storedVars, bsVars, size, radius, todo, put, workVars, chan, rhist, rsc>>

IterateDone ==
    /\ sub.pc = "sending" /\ sub.snap = {}
    /\ sub' = [sub EXCEPT !.pc = "waiting"]
    /\ UNCHANGED <<storedVars, bsVars, size, radius, todo, put, workVars, chan, rhist, rsc>>

TakeBin ==
    /\ sub.pc = "waiting" /\ chan.bin
    /\ sub' = [sub EXCEPT !.pc = "iterating"]
    /\ chan' = [chan EXCEPT !.bin = FALSE]
    /\ UNCHANGED <<storedVars, bsVars, size, radius, todo, put, workVars, rhist, rsc>>

-----------------------------------------------------------------------------
\* the process stops; New undoes open transactions, loads the radius and counts
Crash ==
    LET open == {p \in Range(put) : p.pc = "numbered"}
    IN  /\ rhist.crashes < rsc.crashes
        /\ Undone(open)
        /\ rhist' = [rhist EXCEPT !.crashes = @ + 1, !.torn = @ \/ Tears(open), !.lowered = FALSE]
        /\ size' = Cardinality(index.batchRadius)
        /\ radius' = radiusItem
        /\ put' = [w \in Writers |-> NoPut]
        /\ ev' = NoEviction /\ sz' = NoCount /\ active' = FALSE
        /\ chan' = NoSignals /\ expiring' = NoBatch
        /\ sub' = [NewSub EXCEPT !.pc = "iterating"]
        /\ UNCHANGED <<index, expiredItem, radiusItem, batchstore, todo, rsc>>

WriterStep(w) ==
    PutKnown(w) \/ PutRefused(w) \/ PutNumber(w) \/ PutWrite(w) \/ PutDone(w)
Evicts ==
    \/ TakeExpiry \/ EvictExpired \/ Shrink \/ Unmark \/ ExpiredDone
    \/ TakeOverCapacity \/ UnreserveBatch \/ UnreserveStops \/ RaiseRadius \/ UnreserveGivesUp
Counts == StartWorkers \/ Count \/ (\E b \in Batches : EvictMissing(b)) \/ AdjustRadius
Subscribes == Iterate \/ Send \/ IterateDone \/ TakeBin

ReserveNext ==
    \/ \E w \in Writers : (\E c \in todo : Validated(w, c)) \/ PutFails(w)
    \/ \E b \in Batches : ExpireBatch(b)
    \/ ForgetBatch \/ EvictFails \/ Crash
    \/ (\E w \in Writers : WriterStep(w)) \/ Evicts \/ Counts \/ Flag(TRUE) \/ Flag(FALSE) \/ Subscribes

\* goroutines that can go on do
ReserveFairness ==
    /\ \A w \in Writers : WF_reserveVars(WriterStep(w))
    /\ WF_reserveVars(Evicts)
    /\ WF_reserveVars(Counts)
    /\ WF_reserveVars(Flag(TRUE) \/ Flag(FALSE))
    /\ WF_reserveVars(Subscribes)

-----------------------------------------------------------------------------
(* Properties                                                               *)

\* Every variable of the reserve and of its workers keeps its type.
ReserveTypeOK ==
    /\ \A e \in index.batchRadius :
          e.batch \in Batches /\ e.addr \in Addrs /\ e.bin \in Bins /\ e.id \in Nat
    /\ DOMAIN index.chunkBin \subseteq Bins \X Nat
    /\ index.chunkStamp \subseteq rsc.chunks
    /\ binID \in [Bins -> Nat] /\ refCnt \in [Addrs -> Nat] /\ cacheEntry \subseteq Addrs
    /\ expiredItem \subseteq Batches /\ batchstore \subseteq Batches
    /\ size \in Int /\ radius \in 0 .. MaxBins /\ radiusItem \in 0 .. MaxBins
    /\ \A w \in Writers : put[w].pc \in {"idle", "validated", "numbered", "stored"}
    /\ ev.pc \in {"idle", "expired", "shrink", "unmark", "unreserve"}
    /\ sz.pc \in {"off", "idle", "counted"} /\ active \in BOOLEAN
    /\ sub.pc \in {"iterating", "sending", "waiting"}

\* The four kinds of items tell one story: a chunk of the reserve has one number in its bin,
\* the number leads back to it, and it has one stamp, whose index leads back to it.  It is
\* lost only when a put is rolled back after another put of the bin has taken a number, for
\* the counter of the bin is then set back.
IndexesAgree ==
    ~rhist.torn =>
        /\ {[bin |-> k[1], id |-> k[2], addr |-> index.chunkBin[k].addr,
             batch |-> index.chunkBin[k].batch] : k \in DOMAIN index.chunkBin}
             = index.batchRadius
        /\ {<<s.addr, s.batch>> : s \in index.chunkStamp}
             = {<<e.addr, e.batch>> : e \in index.batchRadius}
        /\ {<<s.batch, s.idx, s.addr, s.ts>> : s \in index.chunkStamp}
             = {<<k[1], k[2], index.stampIndex[k].addr, index.stampIndex[k].ts>> :
                  k \in DOMAIN index.stampIndex}
        /\ \A e, f \in index.batchRadius :
              e # f => /\ <<e.addr, e.batch>> # <<f.addr, f.batch>>
                       /\ <<e.bin, e.id>> # <<f.bin, f.id>>
        /\ \A e \in index.batchRadius : e.id <= binID[e.bin]

\* The size in memory is the number of chunks of the reserve, but for what writers and the
\* eviction have done under the lock and not yet added after it.
SizeExact ==
    size = Cardinality(index.batchRadius)
             - Cardinality({w \in Writers : put[w].pc = "stored" /\ put[w].isNew})
             + (IF ev.pc = "shrink" THEN ev.n ELSE 0)

\* Every chunk of the reserve, and every entry its evictions made in the cache, holds exactly
\* one reference in the chunk store, also while a put replaces a chunk the cache knows - with
\* the exception of IndexesAgree.
RefsExact ==
    ~rhist.torn =>
        \A a \in Addrs :
            refCnt[a] = Cardinality({e \in index.batchRadius : e.addr = a})
                          - Cardinality({w \in Writers : put[w].pc = "numbered"
                                                          /\ a \in Olds(put[w])})
                          + (IF a \in cacheEntry THEN 1 ELSE 0)

\* A stamp index never goes back to an older timestamp while it is in use, whatever writers
\* of the batch come in whatever order.
StampMonotonic ==
    \A k \in DOMAIN index.stampIndex \cap DOMAIN index.stampIndex' :
       index.stampIndex'[k] # index.stampIndex[k]
          => index.stampIndex'[k].ts > index.stampIndex[k].ts

\* A chunk that leaves the reserve is replaced by a newer one of its stamp index, belongs to
\* a batch that is expiring or gone, or lies outside the radius - unless the size worker has
\* lowered the radius since unreserve read it.
EvictedOutside ==
    \A e \in index.batchRadius \ index'.batchRadius :
       \/ \E w \in Writers : put[w].pc = "numbered" /\ e \in put[w].old
       \/ e.batch \in rhist.dying
       \/ e.bin < radius
       \/ rhist.lowered

\* A reserve over its capacity gets within it again, unless the radius has reached its maximum, or
\* an eviction failed or the process restarted: neither has a signal that starts it again.
CapacityRestored ==
    []<>(~Over(size) \/ rhist.maxed \/ rhist.fails > 0 \/ rhist.crashes > 0)

\* The flag that eviction is going on is left set when its goroutine takes the signal of the
\* end before the one of the start.
FlagStuck == active /\ ev.why # "expired" /\ ~chan.expiry /\ ~chan.done

\* Chunks of a batch the batch store has forgotten leave the reserve, also those that were
\* validated before and stored after the eviction, and also after a failed eviction or a
\* restart - unless the flag of the size worker is stuck.
ExpiredGone ==
    []<>(FlagStuck \/ \A e \in index.batchRadius : e.batch \in batchstore)

\* A subscriber of a bin is fed again and again until nothing numbered from its position on
\* is left in the bin: no signal is lost between an iteration and the wait for the next.
BinFed ==
    []<>(\A e \in index.batchRadius : e.bin = rsc.subBin => e.id < sub.next)

\* "SubscribeBin returns a channel that feeds all the chunks in the reserve from a certain
\* bin" (src/pkg/storer/reserve.go:497): no chunk of the bin is passed over.
NoChunkPassedOver ==
    \A k \in DOMAIN index.chunkBin :
        k[1] = rsc.subBin /\ k[2] < sub.next => k[2] \in sub.seen

\* What the reserve keeps in several places - the items of a chunk, the size, the references of
\* the chunk store - agrees after every step of Put, the evictions and recovery; items and
\* references unless a put was rolled back after another took a number of the bin.
ReserveConsistent == IndexesAgree /\ SizeExact /\ RefsExact

\* No signal between the goroutines of the reserve is lost: its size gets within the capacity
\* (unreserve), chunks of forgotten batches leave (evictionWorker), subscribers are fed
\* (SubscribeBin), each with the exceptions named above.
ReserveProgress == CapacityRestored /\ ExpiredGone /\ BinFed
=============================================================================
