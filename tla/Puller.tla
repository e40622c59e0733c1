------------------------------- MODULE Puller -------------------------------
EXTENDS Integers, Sequences, FiniteSets, FiniteSetsExt, SequencesExt, Functions

(***************************************************************************)
(* The list of intervals the puller keeps for a bin of a peer: which       *)
(* numbers of the bin were pulled.  A list is a sequence of ranges         *)
(* <<first, last>>; numbers below lower are never added.                   *)
(***************************************************************************)

\* the numbers of a list
Covered(ranges) == UNION {ranges[j][1]..ranges[j][2] : j \in 1..Len(ranges)}

\* seeded fault: a range that ends where the new one begins is not joined with it
TouchesInside(s, e, r) == (s <= r[1] /\ e >= r[1]) \/ (s < r[2] /\ e >= r[2])

\* The state of the loop of add over the ranges: the bounds, which grow over the ranges they
\* touch, and the first and the last range they touch (0 for none).
Touches(s, e, r) == (s <= r[1] /\ e + 1 >= r[1]) \/ (s <= r[2] + 1 /\ e + 1 >= r[2])
Reaches(s, e, r) == (s <= r[2] /\ e + 1 >= r[2]) \/ (s <= r[1] /\ e + 1 >= r[1])

\* one round of the loop; endCheck keeps the end the call was made with
ScanRound(l, r, j, end) ==
    LET min == l.min = 0 /\ Touches(l.s, end, r)
        s == IF min /\ r[1] < l.s THEN r[1] ELSE l.s
        max == Reaches(s, end, r)
        e == IF max /\ r[2] > l.e THEN r[2] ELSE l.e
    IN  [s |-> s, e |-> e, j |-> j, min |-> IF min THEN j ELSE l.min,
         max |-> IF max THEN j ELSE l.max, stop |-> e + 1 <= r[1]]

Scan(ranges, start, end) ==
    LET n == Len(ranges)
        loop[j \in 0..n] ==
            IF j = 0 THEN [s |-> start, e |-> end, j |-> 0, min |-> 0, max |-> 0, stop |-> FALSE]
            ELSE IF loop[j - 1].stop THEN loop[j - 1]
            ELSE ScanRound(loop[j - 1], ranges[j], j, end)
    IN  loop[n]

\* where a range that touches none goes: before the one the loop stopped at
Inserted(ranges, l) ==
    LET j == IF l.stop THEN l.j - 1 ELSE Len(ranges)
    IN  SubSeq(ranges, 1, j) \o <<<<l.s, l.e>>>> \o SubSeq(ranges, j + 1, Len(ranges))

Joined(ranges, l) ==
    LET lows == IF l.min > 0 THEN [ranges EXCEPT ![l.min][1] = l.s] ELSE ranges
        both == IF l.max > 0 THEN [lows EXCEPT ![l.max][2] = l.e] ELSE lows
    IN  IF l.min > 0 /\ l.max > 0 /\ l.min # l.max
        THEN LET one == [both EXCEPT ![l.max][1] = l.s]
             IN  SubSeq(one, 1, l.min - 1) \o SubSeq(one, l.max, Len(one))
        ELSE both

AddInterval(lower, ranges, start, end) ==
    LET s == IF start < lower THEN lower ELSE start
        l == Scan(ranges, s, end)
    IN  IF end < lower THEN ranges
        ELSE IF l.min = 0 /\ l.max = 0 THEN Inserted(ranges, l)
        ELSE Joined(ranges, l)

\* the first number to pull, which is all the puller takes of Next
NextStart(lower, ranges) ==
    IF ranges = <<>> \/ ranges[1][1] # lower THEN lower ELSE ranges[1][2] + 1

\* What is stored is read back range by range.
Unmarshal(lower, ranges) ==
    LET read[j \in 0..Len(ranges)] ==
            IF j = 0 THEN <<>> ELSE AddInterval(lower, read[j - 1], ranges[j][1], ranges[j][2])
    IN  read[Len(ranges)]

-----------------------------------------------------------------------------
(***************************************************************************)
(* The puller of a node and the pull-sync protocol under it.  The node     *)
(* pulls the chunks of its neighbourhood from the bins of its peers, and   *)
(* keeps for each bin of a peer the intervals of numbers it has pulled.    *)
(*                                                                         *)
(* One goroutine (manage) starts and stops the workers; a bin of a peer    *)
(* has a worker for what the peer had when its cursors were read and a     *)
(* live one for what comes after.  A worker repeats Sync: the peer offers  *)
(* a page, the node wants what it lacks, the peer delivers, the node puts. *)
(* The radius of the node's reserve, the contents of the peers and the     *)
(* connections change meanwhile.                                           *)
(***************************************************************************)

CONSTANTS
    PullPeers, PullBins, PullScenarios,
    MaxPage      \* most chunks of an offer

VARIABLES
    remote,      \* per peer: epoch, chunks per bin, and the ones it has evicted
    linked,      \* connected peers (topology)
    nodeRadius,      \* storage radius of the node
    stored,      \* chunks of the node's reserve
    itv,         \* statestore: intervals by peer and bin
    epochs,      \* statestore: epoch by peer, 0 if none
    syncPeers,   \* per peer: NoPeer, or cursors and the bins with a cancel function
    manage,      \* the goroutine manage
    pullers,     \* sync goroutines
    pullHist,       \* what has happened, for the bounds and the properties
    pullSc          \* the scenario

pullVars == <<remote, linked, nodeRadius, stored, itv, epochs, syncPeers, manage, pullers, pullHist, pullSc>>

NoPeer == [cursors |-> <<>>, bins |-> {}, in |-> FALSE]
NewSyncPeer == [NoPeer EXCEPT !.in = TRUE]

\* proximity of a chunk, of a peer
PO(c) == pullSc.chunkPO[c]
PeerPO(p) == pullSc.po[p]

\* the chunks a peer has numbered or will number in a bin
Numbered(p, b) == pullSc.has[p][remote[p].epoch][b]

PullInit ==
    /\ pullSc \in PullScenarios
    /\ remote = [p \in PullPeers |-> [epoch |-> 1, n |-> pullSc.n[p], gone |-> {}]]
    /\ linked = pullSc.peers
    /\ nodeRadius = pullSc.radius /\ stored = {}
    /\ itv = [p \in PullPeers |-> [b \in PullBins |-> <<>>]]
    /\ epochs = [p \in PullPeers |-> 0]
    /\ syncPeers = [p \in PullPeers |-> NoPeer]
    /\ manage = [pc |-> "change", prev |-> 0, radius |-> 0, todo |-> {}]
    /\ pullers = {}
    /\ pullHist = [pulled |-> {}, lost |-> {}, fails |-> 0, moves |-> 0, links |-> 0,
                peak |-> pullSc.radius, missed |-> FALSE, quit |-> {},
                survived |-> {}, restarts |-> 0]

-----------------------------------------------------------------------------
\* The goroutine manage.

SetManage(pc) == manage' = [manage EXCEPT !.pc = pc]

\* contexts of all workers of peers are cancelled (syncPeer.stop)
CancelledFor(ps) == {IF w.peer \in ps THEN [w EXCEPT !.ctx = FALSE] ELSE w : w \in pullers}

\* the ticker, or a change of the topology
Wake ==
    /\ manage.pc = "idle"
    /\ SetManage("change")
    /\ UNCHANGED <<remote, linked, nodeRadius, stored, itv, epochs, syncPeers, pullers, pullHist, pullSc>>

\* onChange reads the radius; when it is lower all peers are stopped first
OnChange ==
    /\ manage.pc = "change"
    /\ LET lower == nodeRadius < manage.prev
       IN  /\ pullers' = IF lower THEN CancelledFor({p \in PullPeers : syncPeers[p].in}) ELSE pullers
           /\ manage' = [manage EXCEPT !.radius = nodeRadius, !.pc = IF lower THEN "reset" ELSE "prune"]
           /\ pullHist' = [pullHist EXCEPT !.peak = nodeRadius,
                                     !.missed = @ \/ (pullHist.peak > nodeRadius /\ pullHist.peak > manage.prev)]
    /\ UNCHANGED <<remote, linked, nodeRadius, stored, itv, epochs, syncPeers, pullSc>>

\* seeded fault: only the bins from the new radius on are pulled again
ResetBinsNew == {b \in PullBins : manage.radius < b /\ b < manage.prev}

\* the bins resetIntervals deletes: those below the radius before
ResetBins == {b \in PullBins : b < manage.prev}

\* once the workers are gone (stop waits for them) the intervals are deleted and the peers dropped
ResetIntervals ==
    /\ manage.pc = "reset" /\ pullers = {}
    /\ itv' = [p \in PullPeers |-> [b \in PullBins |-> IF b \in ResetBins THEN <<>> ELSE itv[p][b]]]
    /\ pullHist' = [pullHist EXCEPT !.pulled = {x \in @ : x[2] \notin ResetBins},
                              !.quit = {}, !.survived = {}]
    /\ syncPeers' = [p \in PullPeers |-> NoPeer]
    /\ SetManage("prune")
    /\ UNCHANGED <<remote, linked, nodeRadius, stored, epochs, pullers, pullSc>>

\* connected peers get an entry, those of the others are stopped
PruneGone ==
    /\ manage.pc = "prune"
    /\ syncPeers' = [p \in PullPeers |->
                        IF p \in linked /\ ~syncPeers[p].in THEN NewSyncPeer ELSE syncPeers[p]]
    /\ pullers' = CancelledFor({p \in PullPeers : syncPeers[p].in} \ linked)
    /\ manage' = [manage EXCEPT !.prev = manage.radius, !.pc = "pruning",
                                !.todo = {p \in PullPeers : syncPeers[p].in} \ linked]
    /\ UNCHANGED <<remote, linked, nodeRadius, stored, itv, epochs, pullHist, pullSc>>

\* and dropped when their workers are gone; then every peer left is looked at (recalcPeers)
Pruned ==
    /\ manage.pc = "pruning"
    /\ \A w \in pullers : w.peer \notin manage.todo
    /\ syncPeers' = [p \in PullPeers |-> IF p \in manage.todo THEN NoPeer ELSE syncPeers[p]]
    /\ manage' = [manage EXCEPT !.pc = "recalc",
                                !.todo = {p \in PullPeers \ @ : syncPeers[p].in}]
    /\ pullHist' = [pullHist EXCEPT !.quit = @ \ manage.todo, !.survived = @ \ manage.todo]
    /\ UNCHANGED <<remote, linked, nodeRadius, stored, itv, epochs, pullers, pullSc>>

Looked(p) ==
    manage' = [manage EXCEPT !.todo = @ \ {p}, !.pc = IF @ = "recalc" /\ manage.todo = {p} THEN "idle" ELSE @]

NothingToLook ==
    /\ manage.pc = "recalc" /\ manage.todo = {}
    /\ SetManage("idle")
    /\ UNCHANGED <<remote, linked, nodeRadius, stored, itv, epochs, syncPeers, pullers, pullHist, pullSc>>

\* GetCursors: the last number of each bin, and the epoch of the peer's reserve
Cursors(p) == remote[p].n

resetPeerIntervals(p) == [itv EXCEPT ![p] = [b \in PullBins |-> <<>>]]

\* syncPeer asks a new peer for its cursors; another epoch drops what was pulled from it.  The
\* entry is new, so it has no worker that stop would wait for.
GetCursors(p) ==
    /\ manage.pc = "recalc" /\ p \in manage.todo /\ syncPeers[p].cursors = <<>>
    /\ p \in linked
    /\ syncPeers' = [syncPeers EXCEPT ![p].cursors = Cursors(p)]
    /\ LET reset == epochs[p] # remote[p].epoch
       IN  /\ itv' = IF reset THEN resetPeerIntervals(p) ELSE itv
           /\ pullHist' = IF reset THEN [pullHist EXCEPT !.pulled = {x \in @ : x[1] # p}] ELSE pullHist
           /\ epochs' = [epochs EXCEPT ![p] = remote[p].epoch]
    /\ UNCHANGED <<remote, linked, nodeRadius, stored, manage, pullers, pullSc>>

\* the peer does not answer: it is left alone until the next change
GetCursorsFails(p) ==
    /\ manage.pc = "recalc" /\ p \in manage.todo /\ syncPeers[p].cursors = <<>>
    /\ IF p \in linked
       THEN pullHist.fails < pullSc.fails /\ pullHist' = [pullHist EXCEPT !.fails = @ + 1]
       ELSE UNCHANGED pullHist
    /\ Looked(p)
    /\ UNCHANGED <<remote, linked, nodeRadius, stored, itv, epochs, syncPeers, pullers, pullSc>>

\* Neighbours are pulled from the radius on, others only in the bin of their proximity.
PeerBins(p) == IF PeerPO(p) >= manage.radius THEN {b \in PullBins : b >= manage.radius} ELSE {PeerPO(p)}

Worker(p, b, hist, start) ==
    [peer |-> p, bin |-> b, hist |-> hist, start |-> start, cursor |-> start, ctx |-> TRUE,
     pc |-> "next", offer |-> <<>>, want |-> {}]

\* syncPeerBin: a worker up to the cursor, if there is anything, and one from there on
Started(p, bs) ==
    {Worker(p, b, TRUE, syncPeers[p].cursors[b]) : b \in {x \in bs : syncPeers[p].cursors[x] > 0}}
      \cup {Worker(p, b, FALSE, syncPeers[p].cursors[b] + 1) : b \in bs}

\* seeded fault: bins that are being pulled are started again
StartBinsAll(p) == PeerBins(p)

\* the bins without a cancel function are started
StartBins(p) == PeerBins(p) \ syncPeers[p].bins

SyncPeer(p) ==
    /\ manage.pc = "recalc" /\ p \in manage.todo /\ syncPeers[p].cursors # <<>>
    /\ LET drop == syncPeers[p].bins \ PeerBins(p)
       IN  pullers' = {IF w.peer = p /\ w.bin \in drop THEN [w EXCEPT !.ctx = FALSE] ELSE w : w \in pullers}
                        \cup Started(p, StartBins(p))
    /\ syncPeers' = [syncPeers EXCEPT ![p].bins = PeerBins(p)]
    /\ Looked(p)
    /\ UNCHANGED <<remote, linked, nodeRadius, stored, itv, epochs, pullHist, pullSc>>

-----------------------------------------------------------------------------
\* The workers.

WorkerBecomes(w, new) == pullers' = (pullers \ {w}) \cup new

nextPeerInterval(p, b) == NextStart(1, itv[p][b])
addPeerInterval(p, b, start, end) ==
    [itv EXCEPT ![p][b] = AddInterval(1, Unmarshal(1, @), start, end)]

\* A historical worker takes the first number it lacks, and ends beyond the cursor; the context
\* is looked at before each Sync.
NextRound(w) ==
    /\ w.pc = "next"
    /\ LET start == IF w.hist THEN nextPeerInterval(w.peer, w.bin) ELSE w.start
       IN  WorkerBecomes(w, IF (w.hist /\ start > w.cursor) \/ ~w.ctx THEN {}
                      ELSE {[w EXCEPT !.start = start, !.pc = "get"]})
    /\ UNCHANGED <<remote, linked, nodeRadius, stored, itv, epochs, syncPeers, manage, pullHist, pullSc>>

Again(w) == [w EXCEPT !.pc = "next", !.offer = <<>>, !.want = {}]

\* NewStream finds no such peer: the worker ends, and its cancel function stays
PeerNotFound(w) ==
    /\ w.pc = "get" /\ w.peer \notin linked
    /\ WorkerBecomes(w, {})
    /\ pullHist' = [pullHist EXCEPT !.quit = IF w.ctx THEN @ \cup {w.peer} ELSE @]
    /\ UNCHANGED <<remote, linked, nodeRadius, stored, itv, epochs, syncPeers, manage, pullSc>>

\* Sync fails with no result, by its context, the connection or the peer: the loop goes on
SyncFails(w) ==
    /\ w.pc \in {"get", "wanted", "broken"}
    /\ IF ~w.ctx \/ w.pc = "broken" THEN UNCHANGED pullHist
       ELSE pullHist.fails < pullSc.fails /\ pullHist' = [pullHist EXCEPT !.fails = @ + 1]
    /\ WorkerBecomes(w, {Again(w)})
    /\ UNCHANGED <<remote, linked, nodeRadius, stored, itv, epochs, syncPeers, manage, pullSc>>

\* seeded fault: what is not stored is wanted only from the neighbourhood above the radius
WantedAbove(w) == {i \in DOMAIN w.offer : PO(w.offer[i]) > nodeRadius /\ w.offer[i] \notin stored}

\* of the offer the node wants what lies within its radius and is not stored
Wanted(w) == {i \in DOMAIN w.offer : PO(w.offer[i]) >= nodeRadius /\ w.offer[i] \notin stored}

\* collectAddrs waits for a chunk from the start on, and then for more up to a page; what was
\* evicted is not in the index.  The node answers with what it wants of the page.
Offer(w) ==
    /\ w.pc = "get" /\ w.peer \in linked
    /\ LET r == remote[w.peer]
           ids == {i \in w.start..r.n[w.bin] : <<w.bin, i>> \notin r.gone}
       IN  \E last \in ids :
              LET page == {i \in ids : i <= last}
                  offered == [w EXCEPT !.pc = "wanted",
                                       !.offer = [i \in page |-> Numbered(w.peer, w.bin)[i]]]
              IN  /\ Cardinality(page) <= MaxPage
                  /\ WorkerBecomes(w, {[offered EXCEPT !.want = Wanted(offered)]})
    /\ UNCHANGED <<remote, linked, nodeRadius, stored, itv, epochs, syncPeers, manage, pullHist, pullSc>>

\* wanted and no longer there
Evicted(w) == {i \in w.want : <<w.bin, i>> \in remote[w.peer].gone}

\* the end of a worker's round: the interval up to the topmost number is added, whatever became
\* of the chunks in it
Pulled(w, put, bad) ==
    LET top == Max(DOMAIN w.offer)
    IN  /\ stored' = stored \cup {w.offer[i] : i \in put}
        /\ itv' = addPeerInterval(w.peer, w.bin, w.start, top)
        /\ WorkerBecomes(w, {[Again(w) EXCEPT !.start = top + 1]})
        /\ pullHist' = [pullHist EXCEPT
              !.pulled = @ \cup {<<w.peer, w.bin, i>> : i \in w.start..top},
              !.lost = @ \cup {w.offer[i] : i \in bad},
              !.fails = @ + Cardinality(bad \ Evicted(w))]

\* The peer delivers what it still has (processWant sends an empty chunk for the rest); chunks
\* that are not valid, or not newer than what is stored, are left out, and the result is topmost.
Delivered(w) ==
    /\ w.pc = "wanted"
    /\ \E bad \in SUBSET w.want :
          /\ Evicted(w) \subseteq bad
          /\ pullHist.fails + Cardinality(bad \ Evicted(w)) <= pullSc.fails
          /\ Pulled(w, w.want \ bad, bad)
    /\ UNCHANGED <<remote, linked, nodeRadius, epochs, syncPeers, manage, pullSc>>

\* the reserve refuses a chunk for another reason: Sync returns an error and no result, what was
\* put before stays
PullPutFails(w) ==
    /\ w.pc = "wanted" /\ pullHist.fails < pullSc.fails
    /\ \E put \in SUBSET (w.want \ Evicted(w)) :
          put # w.want /\ stored' = stored \cup {w.offer[i] : i \in put}
    /\ pullHist' = [pullHist EXCEPT !.fails = @ + 1]
    /\ WorkerBecomes(w, {Again(w)})
    /\ UNCHANGED <<remote, linked, nodeRadius, itv, epochs, syncPeers, manage, pullSc>>

-----------------------------------------------------------------------------
\* What happens around the puller.

\* the reserve raises the radius and evicts, or lowers it
RadiusMoves ==
    /\ pullHist.moves < Len(pullSc.radii)
    /\ nodeRadius' = pullSc.radii[pullHist.moves + 1]
    /\ stored' = {c \in stored : PO(c) >= nodeRadius'}
    /\ pullHist' = [pullHist EXCEPT !.moves = @ + 1, !.peak = IF nodeRadius' > @ THEN nodeRadius' ELSE @]
    /\ UNCHANGED <<remote, linked, itv, epochs, syncPeers, manage, pullers, pullSc>>

\* a peer receives another chunk, or evicts one
PeerChanges(p, b) ==
    /\ \/ /\ remote[p].n[b] < Len(Numbered(p, b))
          /\ remote' = [remote EXCEPT ![p].n[b] = @ + 1]
          /\ UNCHANGED pullHist
       \/ \E i \in 1..remote[p].n[b] :
             /\ pullHist.fails < pullSc.fails /\ <<b, i>> \notin remote[p].gone
             /\ remote' = [remote EXCEPT ![p].gone = @ \cup {<<b, i>>}]
             /\ pullHist' = [pullHist EXCEPT !.fails = @ + 1, !.lost = @ \cup {Numbered(p, b)[i]}]
    /\ UNCHANGED <<linked, nodeRadius, stored, itv, epochs, syncPeers, manage, pullers, pullSc>>

\* a peer leaves, which breaks its streams
PeerLeaves(p) ==
    /\ p \in linked /\ pullHist.links < pullSc.links
    /\ linked' = linked \ {p}
    /\ pullers' = {IF w.peer = p /\ w.pc = "wanted"
                   THEN [w EXCEPT !.pc = "broken"] ELSE w : w \in pullers}
    /\ pullHist' = [pullHist EXCEPT !.links = @ + 1]
    /\ UNCHANGED <<remote, nodeRadius, stored, itv, epochs, syncPeers, manage, pullSc>>

\* or comes back, perhaps with a new reserve; the puller may not have noticed that it was gone
PeerReturns(p) ==
    /\ p \in pullSc.peers \ linked
    /\ linked' = linked \cup {p}
    /\ \/ UNCHANGED remote
       \/ remote[p].epoch = 1
          /\ remote' = [remote EXCEPT ![p] =
               [epoch |-> 2, n |-> [b \in PullBins |-> Len(pullSc.has[p][2][b])], gone |-> {}]]
    /\ pullHist' = [pullHist EXCEPT !.survived =
                    IF syncPeers[p].in /\ (p \in pullHist.quit \/ remote' # remote) THEN @ \cup {p} ELSE @]
    /\ UNCHANGED <<nodeRadius, stored, itv, epochs, syncPeers, manage, pullers, pullSc>>

\* the node restarts: the intervals, the epochs and the reserve are kept
PullRestart ==
    /\ pullHist.restarts < pullSc.restarts
    /\ pullers' = {}
    /\ syncPeers' = [p \in PullPeers |-> NoPeer]
    /\ manage' = [pc |-> "change", prev |-> 0, radius |-> 0, todo |-> {}]
    /\ pullHist' = [pullHist EXCEPT !.restarts = @ + 1, !.quit = {}, !.survived = {}, !.peak = nodeRadius,
                              !.missed = @ \/ pullHist.peak > nodeRadius \/ manage.prev > nodeRadius]
    /\ UNCHANGED <<remote, linked, nodeRadius, stored, itv, epochs, pullSc>>

WorkerStep(w) ==
    \/ NextRound(w) \/ PeerNotFound(w) \/ SyncFails(w) \/ Offer(w) \/ Delivered(w) \/ PullPutFails(w)

ManageStep ==
    \/ OnChange \/ ResetIntervals \/ PruneGone \/ Pruned \/ NothingToLook
    \/ \E p \in PullPeers : GetCursors(p) \/ GetCursorsFails(p) \/ SyncPeer(p)

PullNext ==
    \/ Wake \/ ManageStep
    \/ \E w \in pullers : WorkerStep(w)
    \/ RadiusMoves \/ PullRestart
    \/ \E p \in PullPeers : PeerLeaves(p) \/ PeerReturns(p) \/ \E b \in PullBins : PeerChanges(p, b)

-----------------------------------------------------------------------------
\* Types of the manager and of the workers.
PullTypeOK ==
    /\ manage.pc \in {"idle", "change", "reset", "prune", "pruning", "recalc"}
    /\ \A w \in pullers : /\ w.pc \in {"next", "get", "wanted", "broken"}
                          /\ w.start \in Nat \ {0} /\ w.want \subseteq DOMAIN w.offer
    /\ \A p \in PullPeers : syncPeers[p].bins # {} => syncPeers[p].in

\* The chunk is closer to the peer than to the node: it can lie in a bin of the peer above the
\* radius that resetIntervals does not reach when the radius is lowered.
Sheltered(b, c) == b > PO(c)

\* The intervals of a peer say the truth: a chunk whose number they cover is in the reserve if
\* it belongs there (Sync, addPeerInterval, resetIntervals), once the manager has seen the
\* radius - but for chunks that peers had evicted or delivered damaged, for sheltered ones and
\* for a radius that was higher in between without the manager seeing it.
CoveredHeld ==
    (manage.prev = nodeRadius /\ pullHist.peak = nodeRadius /\ manage.pc # "reset" /\ ~pullHist.missed) =>
        \A p \in PullPeers, b \in PullBins : epochs[p] = remote[p].epoch =>
            \A i \in Covered(itv[p][b]) \cap (1..remote[p].n[b]) :
                LET c == Numbered(p, b)[i]
                IN  \/ PO(c) < nodeRadius \/ c \in stored \cup pullHist.lost
                    \/ <<b, i>> \in remote[p].gone \/ Sheltered(b, c)

\* The stored intervals are exactly the pulled numbers, and the next interval starts at the
\* first number that was not pulled, although Add keeps ranges inside others (Intervals.Add, Next).
IntervalsExact ==
    \A p \in PullPeers, b \in PullBins :
        LET pulled == {x[3] : x \in {y \in pullHist.pulled : y[1] = p /\ y[2] = b}}
            next == NextStart(1, itv[p][b])
        IN  /\ Covered(itv[p][b]) = pulled
            /\ next \notin pulled /\ \A i \in 1..(next - 1) : i \in pulled

\* A bin of a peer is pulled once: at most one worker for its past and one live one have a
\* context, and only of peers the puller knows (setBinCancel, isBinSyncing, cancelBin).
PulledOnce ==
    \A v, w \in pullers : v.ctx /\ w.ctx =>
        /\ v.bin \in syncPeers[v.peer].bins \/ manage.pc \in {"reset", "pruning"}
        /\ (v.peer = w.peer /\ v.bin = w.bin /\ v.hist = w.hist) => v = w

\* What the puller keeps about a peer is true and used once: the intervals are exactly what was
\* pulled, what they cover is in the reserve, and no bin has two workers (Puller.syncPeer,
\* syncWorker, addPeerInterval, resetIntervals).
PullSound == PullTypeOK /\ IntervalsExact /\ PulledOnce /\ CoveredHeld

\* Every chunk of the node's neighbourhood that a connected peer has is pulled, through failed
\* calls, restarts and changes of the radius - but for a peer that was away without the manager
\* noticing and lost its workers or its reserve.
EventuallyPulled ==
    []<>(\/ pullHist.missed \/ pullHist.survived # {}
         \/ \A p \in linked, b \in PullBins :
                (PeerPO(p) >= nodeRadius /\ b >= nodeRadius) \/ PeerPO(p) = b =>
                    \A i \in 1..remote[p].n[b] :
                        LET c == Numbered(p, b)[i]
                        IN  \/ PO(c) < nodeRadius \/ c \in stored \cup pullHist.lost
                            \/ <<b, i>> \in remote[p].gone \/ Sheltered(b, c))
=============================================================================
