------------------------------ MODULE Postage ------------------------------
(***************************************************************************)
(* Postage batches: the listener that reads the contract's events, the     *)
(* batch service and batch store they are applied to, and the service of   *)
(* stamp issuers that uploads draw stamps from (pkg/postage and below).    *)
(* disk is what survives a crash; node is the memory of the running node.  *)
(* The chain is external: the sequence of events of the contract, of which *)
(* the node sees those up to the head.                                     *)
(***************************************************************************)
EXTENDS Integers, Sequences, FiniteSets, FiniteSetsExt, SequencesExt

CONSTANTS StampChunks,     \* the chunks that are uploaded
          BucketOf,        \* the collision bucket of a chunk
          BucketDepth, StoreCapacity, TailSize, BatchFactor, BlockPage,
          BlockThreshold

VARIABLES posSc, head, disk, node, stampsOut, posHist

pvars == <<posSc, head, disk, node, stampsOut, posHist>>

NoChain == [block |-> 0, total |-> 0, price |-> 0]
NoBatches == [x \in {} |-> 0]
NoSession == [id |-> 0, loose |-> FALSE]
StoreWithout(f, S) == [x \in DOMAIN f \ S |-> f[x]]
StoreWith(f, x, v) == [y \in DOMAIN f \cup {x} |-> IF y = x THEN v ELSE f[y]]

---------------------------------------------------------------------------
(* The chain. *)
Events(from, to) ==
    SelectSeq(posSc.events, LAMBDA e : e.at \in from .. to)

EventsOf(id, b) ==
    SelectSeq(posSc.events, LAMBDA e : e.at <= b /\ e.kind # "price" /\ e.id = id)

PriceAt(b) ==
    LET ps == SelectSeq(posSc.events, LAMBDA e : e.at <= b /\ e.kind = "price")
    IN IF ps = <<>> THEN 0 ELSE Last(ps).value

TotalAt(b) == FoldSet(LAMBDA i, acc : acc + PriceAt(i), 0, 0 .. b - 1)

(* What the store should hold at block b: every batch that was created with *)
(* more than the next block's price and is not used up.                     *)
BatchesAt(b) ==
    {id \in 1 .. posSc.batches :
        LET es == EventsOf(id, b) IN
        /\ es # <<>>
        /\ es[1].value > TotalAt(es[1].at) + PriceAt(es[1].at)
        /\ Last(es).value > TotalAt(b)}

DepthAt(id, b) ==
    LET ds == SelectSeq(EventsOf(id, b), LAMBDA e : e.kind # "topup")
    IN Last(ds).depth

---------------------------------------------------------------------------
(* A work record carries disk and node through one handler: ok is FALSE     *)
(* once a call has returned an error.                                       *)
Work == [d |-> disk, n |-> node, ok |-> TRUE]

(* HandleStampExpiry: the issuer goes from the list and from the store, and *)
(* only then its stamp items.  An upload that holds it goes on holding it.  *)
HandleStampExpiry(w, S) ==
    LET gone == S \cap DOMAIN w.n.issuers IN
    [w EXCEPT
        !.n.issuers = StoreWithout(@, gone),
        !.n.loose = [x \in DOMAIN @ \cup gone |->
                        IF x \in gone THEN w.n.issuers[x] ELSE @[x]],
        !.n.sessions = [u \in DOMAIN @ |->
                          IF @[u].id \in gone THEN [@[u] EXCEPT !.loose = TRUE] ELSE @[u]],
        !.d.issuers = StoreWithout(@, gone),
        !.d.stamps = StoreWithout(@, {k \in DOMAIN @ : k[1] \in gone})]

Before(p, q) == p[1] < q[1] \/ (p[1] = q[1] /\ p[2] < q[2])

(* cleanup: the value keys from the smallest up to the first batch that is  *)
(* still funded; a key whose batch is missing fails the walk.               *)
cleanup(w) ==
    LET B == w.d.batches
        usedUp(p) == p[2] \in DOMAIN B /\ B[p[2]].value <= w.n.cs.total
        seen == {p \in w.d.values : \A q \in w.d.values : Before(q, p) => usedUp(q)}
        expired == {p[2] : p \in {q \in seen : usedUp(q)}}
    IN CASE ~w.ok -> w
         [] w.ok /\ \E p \in seen : p[2] \notin DOMAIN B -> [w EXCEPT !.ok = FALSE]
         [] OTHER ->
              LET v == HandleStampExpiry(w, expired) IN
              [v EXCEPT !.d.batches = StoreWithout(@, expired),
                        !.d.values = {p \in @ : p[2] \notin expired}]

RadiusFor(B) ==
    LET commitment == FoldSet(LAMBDA id, acc : acc + 2 ^ B[id].depth, 0, DOMAIN B)
    IN Min({r \in 0 .. 8 : StoreCapacity * 2 ^ r >= commitment})

computeRadius(w) ==
    IF ~w.ok THEN w
    ELSE LET r == RadiusFor(w.d.batches)
         IN [w EXCEPT !.n.radius = r, !.d.radius = r]

saveBatch(w, id, b) ==
    computeRadius(cleanup([w EXCEPT !.d.batches = StoreWith(@, id, b),
                                    !.d.values = @ \cup {<<b.value, id>>}]))

PutChainState(w, cs) ==
    LET v == computeRadius(cleanup([w EXCEPT !.n.cs = cs]))
    IN IF v.ok THEN [v EXCEPT !.d.cs = cs, !.d.chained = TRUE] ELSE v

Update(w, id, value, depth) ==
    saveBatch([w EXCEPT !.d.values = @ \ {<<w.d.batches[id].value, id>>}],
              id, [w.d.batches[id] EXCEPT !.value = value, !.depth = depth])

---------------------------------------------------------------------------
(* The batch service's handlers, one per event of the contract. *)
updateChecksum(w, tx) ==
    IF ~w.ok THEN w
    ELSE LET s == Append(w.n.sum, tx) IN [w EXCEPT !.n.sum = s, !.d.sum = s]

Issuer(amount, depth, start) ==
    [amount |-> amount, depth |-> depth, start |-> start,
     buckets |-> [b \in {BucketOf[c] : c \in StampChunks} |-> 0]]

(* Add: an issuer that is listed already is left as it is. *)
AddBatch(w, id, issuer) ==
    IF ~w.ok \/ id \in DOMAIN w.n.issuers THEN w
    ELSE [w EXCEPT !.n.issuers = StoreWith(@, id, issuer),
                   !.d.issuers = StoreWith(@, id, issuer)]

Create(w, e) ==
    LET cs == w.n.cs
        saved == saveBatch(w, e.id, [value |-> e.value, depth |-> e.depth])
        told == IF e.id \in posSc.mine
                THEN AddBatch(saved, e.id, Issuer(e.amount, e.depth, cs.block))
                ELSE saved
    IN CASE e.value <= cs.total + cs.price -> w
         [] e.value > cs.total + cs.price /\ e.id \in DOMAIN w.d.batches ->
              [w EXCEPT !.ok = FALSE]
         [] OTHER -> updateChecksum(told, e)

TopUp(w, e) ==
    IF e.id \notin DOMAIN w.d.batches THEN [w EXCEPT !.ok = FALSE]
    ELSE LET v == Update(w, e.id, e.value, w.d.batches[e.id].depth)
             told == IF v.ok /\ e.id \in posSc.mine \cap DOMAIN v.n.issuers
                     THEN [v EXCEPT !.n.issuers[e.id].amount = @ + e.amount] ELSE v
         IN updateChecksum(told, e)

UpdateDepth(w, e) ==
    IF e.id \notin DOMAIN w.d.batches THEN [w EXCEPT !.ok = FALSE]
    ELSE LET v == Update(w, e.id, e.value, e.depth)
             told == IF /\ v.ok /\ e.id \in posSc.mine \cap DOMAIN v.n.issuers
                        /\ e.depth > v.n.issuers[e.id].depth
                     THEN [v EXCEPT !.n.issuers[e.id].depth = e.depth] ELSE v
         IN updateChecksum(told, e)

UpdatePrice(w, e) ==
    updateChecksum(PutChainState(w, [w.n.cs EXCEPT !.price = e.value]), e)

UpdateBlockNumber(w, b) ==
    LET cs == w.n.cs IN
    CASE ~w.ok \/ b = cs.block -> w
      [] w.ok /\ b < cs.block -> [w EXCEPT !.ok = FALSE]
      [] OTHER -> PutChainState(w, [cs EXCEPT !.block = b,
                                    !.total = @ + (b - cs.block) * cs.price])

processEvent(w, e) ==
    CASE ~w.ok -> w
      [] w.ok /\ e.kind = "create" -> Create(w, e)
      [] w.ok /\ e.kind = "topup" -> TopUp(w, e)
      [] w.ok /\ e.kind = "depth" -> UpdateDepth(w, e)
      [] w.ok /\ e.kind = "price" -> UpdatePrice(w, e)

---------------------------------------------------------------------------
StoreExists == disk.chained \/ disk.batches # NoBatches \/ disk.values # {}

(* A mutant: a start that trusts a dirty store. *)
NodeStartTrusting(resync, snap) ==
    /\ node.pc = "down"
    /\ resync => posHist.resyncs < posSc.resyncs
    /\ snap => posSc.snap > 0 /\ (~StoreExists \/ resync)
    /\ node' = [node EXCEPT
                  !.pc = IF resync \/ snap THEN "reset" ELSE "listen",
                  !.cs = disk.cs, !.radius = disk.radius,
                  !.issuers = disk.issuers, !.loose = NoBatches,
                  !.sessions = [u \in DOMAIN @ |-> NoSession],
                  !.sum = IF resync \/ disk.dirty THEN <<>> ELSE disk.sum,
                  !.from = disk.cs.block + 1, !.snap = snap]
    /\ disk' = IF resync THEN [disk EXCEPT !.sum = <<>>] ELSE disk
    /\ posHist' = posHist
    /\ UNCHANGED <<posSc, head, stampsOut>>

(* Starting: the stores are opened; a dirty shutdown, a resync or a         *)
(* snapshot empties the batch store first.                                  *)
NodeStart(resync, snap) ==
    LET fresh == disk.dirty \/ resync \/ snap IN
    /\ node.pc = "down"
    /\ resync => posHist.resyncs < posSc.resyncs
    /\ snap => posSc.snap > 0 /\ (~StoreExists \/ resync)
    /\ node' = [node EXCEPT
                  !.pc = IF fresh THEN "reset" ELSE "listen",
                  !.cs = disk.cs, !.radius = disk.radius,
                  !.issuers = disk.issuers, !.loose = NoBatches,
                  !.sessions = [u \in DOMAIN @ |-> NoSession],
                  !.sum = IF resync \/ disk.dirty THEN <<>> ELSE disk.sum,
                  !.from = disk.cs.block + 1, !.snap = snap]
    /\ disk' = IF resync THEN [disk EXCEPT !.sum = <<>>] ELSE disk
    /\ posHist' = [posHist EXCEPT
                  !.resyncs = IF resync THEN @ + 1 ELSE @,
                  \* a reset that a crash cut short and nothing repeats
                  !.half = (@ \/ posHist.resetting) /\ ~fresh,
                  !.resetting = FALSE]
    /\ UNCHANGED <<posSc, head, stampsOut>>

(* Reset: one key after the other, in the order of the keys. *)
ResetKey ==
    /\ node.pc = "reset"
    /\ \/ /\ disk.batches # NoBatches
          /\ disk' = [disk EXCEPT !.batches = StoreWithout(@, {Min(DOMAIN @)})]
       \/ /\ disk.batches = NoBatches /\ disk.chained
          /\ disk' = [disk EXCEPT !.chained = FALSE, !.cs = NoChain, !.radius = 0]
       \/ /\ disk.batches = NoBatches /\ ~disk.chained /\ disk.values # {}
          /\ disk' = [disk EXCEPT !.values = {}]
    /\ posHist' = [posHist EXCEPT !.resetting = ~disk.dirty]
    /\ UNCHANGED <<posSc, head, node, stampsOut>>

(* The snapshot's events are applied like a page.  *)
ResetDone ==
    /\ node.pc = "reset" /\ ~StoreExists
    /\ disk' = [disk EXCEPT !.dirty = node.snap]
    /\ node' = [node EXCEPT
                  !.cs = NoChain, !.radius = 0,
                  !.pc = IF @ = "reset" /\ node.snap THEN "page" ELSE "listen",
                  !.todo = IF node.snap THEN Events(1, posSc.snap) ELSE <<>>,
                  !.to = posSc.snap + 1,
                  !.from = IF node.snap THEN posSc.snap + 1 ELSE 1]
    /\ posHist' = [posHist EXCEPT !.resetting = FALSE, !.partial = FALSE]
    /\ UNCHANGED <<posSc, head, stampsOut>>

(* One turn of the listener: the newest block that is deep enough, rounded  *)
(* down, at most a page from the last one; then the events of the page.     *)
Target == ((head - TailSize) \div BatchFactor) * BatchFactor

PageEnd == IF Target - node.from >= BlockPage
           THEN node.from + BlockPage - 1 ELSE Target

Poll ==
    /\ node.pc = "listen"
    /\ head >= TailSize /\ Target >= node.from
    /\ disk' = [disk EXCEPT !.dirty = TRUE]
    /\ node' = [node EXCEPT !.pc = "page", !.snap = FALSE, !.to = PageEnd,
                            !.todo = Events(node.from, PageEnd)]
    /\ UNCHANGED <<posSc, head, stampsOut, posHist>>

(* What an error ends: a snapshot is given up and the listener goes on      *)
(* where the snapshot would have ended; a page ends the listener.           *)
PostageFailed(w) == [w.n EXCEPT !.pc = IF node.snap THEN "listen" ELSE "failed",
                         !.todo = <<>>, !.snap = FALSE]

ProcessEvent ==
    LET e == Head(node.todo)
        w == processEvent(UpdateBlockNumber(Work, e.at), e)
    IN /\ node.pc = "page" /\ node.todo # <<>>
       /\ disk' = w.d
       /\ node' = IF w.ok THEN [w.n EXCEPT !.todo = Tail(@)] ELSE PostageFailed(w)
       /\ posHist' = [posHist EXCEPT !.partial = @ \/ (~w.ok /\ node.snap)]
       /\ UNCHANGED <<posSc, head, stampsOut>>

(* A mutant: the next page begins with the block this one ended with. *)
PageDoneAgain ==
    LET w == UpdateBlockNumber(Work, node.to) IN
    /\ node.pc = "page" /\ node.todo = <<>>
    /\ disk' = IF w.ok THEN [w.d EXCEPT !.dirty = FALSE] ELSE w.d
    /\ node' = IF w.ok THEN [w.n EXCEPT !.pc = "listen", !.snap = FALSE, !.from = node.to]
               ELSE PostageFailed(w)
    /\ posHist' = [posHist EXCEPT !.partial = @ \/ (~w.ok /\ node.snap)]
    /\ UNCHANGED <<posSc, head, stampsOut>>

PageDone ==
    LET w == UpdateBlockNumber(Work, node.to) IN
    /\ node.pc = "page" /\ node.todo = <<>>
    /\ disk' = IF w.ok THEN [w.d EXCEPT !.dirty = FALSE] ELSE w.d
    /\ node' = IF w.ok
               THEN [w.n EXCEPT !.pc = "listen", !.snap = FALSE,
                        !.from = IF node.snap THEN @ ELSE node.to + 1]
               ELSE PostageFailed(w)
    /\ posHist' = [posHist EXCEPT !.partial = @ \/ (~w.ok /\ node.snap)]
    /\ UNCHANGED <<posSc, head, stampsOut>>

(* An error of the store in the middle of a page. *)
StoreFault ==
    /\ node.pc = "page" /\ posHist.faults < posSc.faults
    /\ node' = PostageFailed(Work)
    /\ posHist' = [posHist EXCEPT !.faults = @ + 1, !.partial = @ \/ node.snap]
    /\ UNCHANGED <<posSc, head, disk, stampsOut>>

---------------------------------------------------------------------------
(* Uploads: a session takes an issuer, stamps chunks, and saves the issuer  *)
(* when it ends.                                                            *)
IssuerUsable(i) == /\ node.cs.block >= i.start
                   /\ node.cs.block - i.start >= BlockThreshold

Up == node.pc \notin {"down", "reset"}

Session(u) == node.sessions[u]

Held(u) == IF Session(u).loose THEN node.loose[Session(u).id]
           ELSE node.issuers[Session(u).id]

GetStampIssuer(u, id) ==
    /\ Up /\ Session(u) = NoSession /\ posHist.uploads < posSc.uploads
    /\ id \in DOMAIN node.issuers /\ IssuerUsable(node.issuers[id])
    /\ node' = [node EXCEPT !.sessions[u].id = id]
    /\ posHist' = [posHist EXCEPT !.uploads = @ + 1]
    /\ UNCHANGED <<posSc, head, disk, stampsOut>>

WithHeld(u, i) == IF Session(u).loose
                  THEN [node EXCEPT !.loose[Session(u).id] = i]
                  ELSE [node EXCEPT !.issuers[Session(u).id] = i]

(* increment: the count of the bucket is the index; a full bucket refuses   *)
(* in an immutable batch and starts again at 0 in a mutable one.            *)
(* A mutant: one index too many. *)
UpperBoundAbove(i) == 2 ^ (i.depth - BucketDepth) + 1

UpperBound(i) == 2 ^ (i.depth - BucketDepth)

Full(i, b) == i.buckets[b] = UpperBound(i)

IndexFor(i, b) == IF Full(i, b) THEN 0 ELSE i.buckets[b]

(* Stamp: a chunk that has a stamp item keeps its index. *)
Stamp(u, c) ==
    LET id == Session(u).id
        i == Held(u)
        b == BucketOf[c]
        known == <<id, c>> \in DOMAIN disk.stamps
        index == IF known THEN disk.stamps[<<id, c>>] ELSE IndexFor(i, b)
    IN /\ Up /\ Session(u) # NoSession
       /\ known \/ ~Full(i, b) \/ id \notin posSc.immutable
       /\ disk' = [disk EXCEPT !.stamps = StoreWith(@, <<id, c>>, index)]
       /\ node' = IF known THEN node
                  ELSE WithHeld(u, [i EXCEPT !.buckets[b] = index + 1])
       /\ stampsOut' = stampsOut \cup {[id |-> id, chunk |-> c, index |-> index]}
       /\ UNCHANGED <<posSc, head, posHist>>

(* save writes the issuer the upload holds, listed or not. *)
SaveIssuer(u) ==
    LET id == Session(u).id IN
    /\ Up /\ Session(u) # NoSession
    /\ disk' = [disk EXCEPT !.issuers = StoreWith(@, id, Held(u))]
    /\ node' = [node EXCEPT !.sessions[u] = NoSession]
    /\ posHist' = [posHist EXCEPT !.revived = IF Session(u).loose THEN @ \cup {id} ELSE @]
    /\ UNCHANGED <<posSc, head, stampsOut>>

(* CreateBatch learns of its own batch from the receipt, maybe before the   *)
(* listener, which stays TailSize blocks behind.                            *)
CreateReceipt(id) ==
    LET e == EventsOf(id, head)[1]
        w == AddBatch(Work, id, Issuer(e.amount, e.depth, e.at))
    IN /\ Up /\ id \in posSc.receipts \ posHist.receipts
       /\ EventsOf(id, head) # <<>>
       /\ disk' = w.d /\ node' = w.n
       /\ posHist' = [posHist EXCEPT !.receipts = @ \cup {id}]
       /\ UNCHANGED <<posSc, head, stampsOut>>

---------------------------------------------------------------------------
(* Stopping.  Shutdown, which an error of the listener brings about, saves  *)
(* every listed issuer; a crash saves none.                                 *)
Unsaved == {id \in DOMAIN node.issuers :
               id \in DOMAIN disk.issuers => disk.issuers[id] # node.issuers[id]}

Shutdown ==
    /\ node.pc \in {"listen", "failed"}
    /\ node.pc = "listen" => posHist.stops < posSc.stops
    /\ disk' = [disk EXCEPT !.issuers =
                  [id \in DOMAIN @ \cup DOMAIN node.issuers |->
                      IF id \in DOMAIN node.issuers THEN node.issuers[id] ELSE @[id]]]
    /\ node' = [node EXCEPT !.pc = "down"]
    /\ posHist' = [posHist EXCEPT !.stops = IF node.pc = "listen" THEN @ + 1 ELSE @]
    /\ UNCHANGED <<posSc, head, stampsOut>>

NodeCrash ==
    /\ node.pc # "down" /\ posHist.crashes < posSc.crashes
    /\ node' = [node EXCEPT !.pc = "down"]
    /\ posHist' = [posHist EXCEPT !.crashes = @ + 1, !.lost = @ \cup Unsaved]
    /\ UNCHANGED <<posSc, head, disk, stampsOut>>

NewBlock ==
    /\ head < posSc.head
    /\ head' = head + 1
    /\ UNCHANGED <<posSc, disk, node, stampsOut, posHist>>

---------------------------------------------------------------------------
PostageInit(sc) ==
    /\ posSc = sc /\ head = sc.start
    /\ disk = [batches |-> NoBatches, values |-> {}, cs |-> NoChain,
               chained |-> FALSE, radius |-> 0, dirty |-> FALSE, sum |-> <<>>,
               issuers |-> NoBatches, stamps |-> NoBatches]
    /\ node = [pc |-> "down", cs |-> NoChain, radius |-> 0, sum |-> <<>>,
               issuers |-> NoBatches, loose |-> NoBatches, todo |-> <<>>,
               from |-> 1, to |-> 0, snap |-> FALSE,
               sessions |-> [u \in 1 .. 2 |-> NoSession]]
    /\ stampsOut = {}
    /\ posHist = [resyncs |-> 0, crashes |-> 0, faults |-> 0, stops |-> 0,
                uploads |-> 0, receipts |-> {}, lost |-> {}, revived |-> {},
                resetting |-> FALSE, half |-> FALSE, partial |-> FALSE]

Sync == ResetKey \/ ResetDone \/ Poll \/ ProcessEvent \/ PageDone

PostageNext ==
    \/ \E r, s \in BOOLEAN : NodeStart(r, s)
    \/ Sync \/ StoreFault \/ Shutdown \/ NodeCrash \/ NewBlock
    \/ \E u \in 1 .. 2 : \/ \E id \in posSc.mine : GetStampIssuer(u, id)
                         \/ \E c \in StampChunks : Stamp(u, c)
                         \/ SaveIssuer(u)
    \/ \E id \in posSc.mine : CreateReceipt(id)

(* the loop has something to do *)
SyncReady ==
    \/ node.pc \in {"reset", "page"}
    \/ node.pc = "listen" /\ head >= TailSize /\ Target >= node.from

---------------------------------------------------------------------------
(* Between pages the store holds exactly the batches the contract has, at   *)
(* their present value and depth, with one value key each and the radius    *)
(* they call for; and each live batch of this node has its issuer: whatever *)
(* crashes, failures, dirty restarts and resyncs came before (the listener's *)
(* pages, TransactionStart/End, Reset).  Two histories are excepted: a      *)
(* resync whose Reset a crash cut short and that the next start does not    *)
(* repeat, and a snapshot that failed half-way, which Listen only logs.  No *)
(* issuer outlives its batch, but one an upload saved after the batch was   *)
(* used up and one that came with a late receipt.                           *)
PostageExact ==
    (node.pc = "listen" /\ ~disk.dirty /\ ~posHist.half /\ ~posHist.partial) =>
        LET b == node.cs.block
            B == disk.batches
        IN /\ DOMAIN B = BatchesAt(b)
           /\ \A id \in DOMAIN B :
                 /\ B[id].value = Last(EventsOf(id, b)).value
                 /\ B[id].depth = DepthAt(id, b)
           /\ disk.values = {<<B[id].value, id>> : id \in DOMAIN B}
           /\ disk.radius = RadiusFor(B) /\ node.radius = disk.radius
           /\ disk.cs = node.cs
           /\ DOMAIN B \cap posSc.mine \subseteq DOMAIN node.issuers
           /\ \A id \in DOMAIN node.issuers \ (posHist.revived \cup posHist.receipts) :
                 EventsOf(id, b) # <<>> => id \in DOMAIN B
           /\ node.cs.total = TotalAt(b)

(* While an immutable batch lives, no two chunks get the same index of it,  *)
(* whichever uploads stamp them, and an index lies within the depth the     *)
(* batch has on the chain (Stamp, increment, save).  A crash that loses the *)
(* counts of an issuer is excepted.                                         *)
StampsGood ==
    \A s, t \in stampsOut :
        /\ (s.id = t.id /\ s.id \in (posSc.immutable \cap BatchesAt(head)) \ posHist.lost
            /\ s.index = t.index /\ BucketOf[s.chunk] = BucketOf[t.chunk])
              => s.chunk = t.chunk
        /\ s.index < 2 ^ (DepthAt(s.id, head) - BucketDepth)

(* The batches are those of the chain and the stamps made with them valid   *)
(* (batchservice, batchstore, postage service, stamp issuer).               *)
PostageSound == PostageExact /\ StampsGood

(* The amount an issuer shows is what was paid for the batch: "Amount paid  *)
(* for the batch." (stampIssuerData.BatchAmount).                           *)
PaidAt(id, b) ==
    FoldSeq(LAMBDA e, acc : acc + e.amount, 0,
            SelectSeq(EventsOf(id, b), LAMBDA e : e.kind # "depth"))

AmountPaid ==
    (node.pc = "listen" /\ ~disk.dirty /\ ~posHist.half /\ ~posHist.partial) =>
        \A id \in DOMAIN node.issuers \cap DOMAIN disk.batches :
            id \notin posHist.lost => node.issuers[id].amount = PaidAt(id, node.cs.block)

(* However often the node crashes, fails or is told to resync, the listener *)
(* catches up with the chain in the end (Listen, Start).  In a scenario     *)
(* whose chain tops up a batch the service ignored for its low balance the  *)
(* listener fails at that event for ever: sound is FALSE there.             *)
EventuallySynced ==
    posSc.sound => <>[](node.pc = "listen" /\ node.from > Target)
=============================================================================
