------------------------------ MODULE Kademlia ------------------------------
EXTENDS Integers, Sequences, FiniteSets, FiniteSetsExt, SequencesExt

(***************************************************************************)
(* The manage loop of kademlia: which known peers are dialled (one for     *)
(* every slot of a bin, and all of the neighbourhood), which connected     *)
(* ones are pruned, what changes wake the loop, and the depth that is      *)
(* computed from the connected peers.                                      *)
(*                                                                         *)
(* A peer is in one bin (its proximity) and in one slot of it (the prefix  *)
(* of the bin it is nearest to).  Whether a dial succeeds is a property    *)
(* of the peer; peers come and go, turn out reachable or sick, and the     *)
(* storage radius changes while the loop is at work.                       *)
(***************************************************************************)

CONSTANTS KPeers, KBins, SlotsOf, SaturationPeers, OverSaturationPeers, LowWaterMark

VARIABLES
    known, connected, waiting, unreachable, sick,   \* sets of peers
    storageRadius, depth,
    manageC,    \* the channel that wakes the loop holds a token
    loop,       \* where the loop is: the step, the slot it has pruned and with which radius, the dials
                \* that are not done
    told,       \* the last periodic broadcast: the neighbours, and whom each was told of
    khist,      \* changes made by the world so far; whether the depth is out of date
    ksc         \* the scenario

kadVars == <<known, connected, waiting, unreachable, sick, storageRadius, depth, manageC, loop, told, khist, ksc>>

bin(p) == ksc.at[p][1]
InBin(S, i) == {p \in S : bin(p) = i}
InSlot(S, i, j) == {p \in S : ksc.at[p] = <<i, j>>}
KadRests == [step |-> "idle", at |-> <<0, 0>>, radius |-> 0, dials |-> {}]

KadInit(sc) ==
    /\ ksc = sc
    /\ known = sc.known /\ connected = sc.connected
    /\ waiting = {} /\ unreachable = sc.unreachable /\ sick = sc.sick
    /\ storageRadius = sc.radius /\ depth = 0
    /\ manageC = TRUE /\ loop = KadRests
    /\ told = [to |-> {}, of |-> [p \in KPeers |-> {}]]
    /\ khist = [changes |-> 0, stale |-> TRUE]

-----------------------------------------------------------------------------
\* recalcDepth, a peer at a time from the shallowest bin; the empty bins; the peers of the deepest bins.

BinSize(S, i) == Cardinality(InBin(S, i))
ascending == [i \in 1..Cardinality(KBins) |-> i - 1]

\* the scan over the reachable peers R: the bin it is in, the peers counted there, whether it stopped
shallowestUnsaturated(R) ==
    LET Scan(acc, i) ==
            IF acc.done \/ BinSize(R, i) = 0 THEN acc
            ELSE IF i > acc.bin /\ acc.count < SaturationPeers THEN [acc EXCEPT !.done = TRUE]
            ELSE [acc EXCEPT !.bin = i, !.count = BinSize(R, i)]
    IN  FoldLeft(Scan, [bin |-> 0, count |-> 0, done |-> FALSE], ascending).bin

emptyBins(C) == {i \in KBins : BinSize(C, i) = 0}

\* the bin in which the low water mark is reached, counted from the deepest
candidate(R) ==
    LET Deepest(acc, i) ==
            LET n == acc.count + BinSize(R, i)
            IN  [count |-> n, bin |-> IF acc.count < LowWaterMark /\ n >= LowWaterMark THEN i ELSE acc.bin]
    IN  FoldLeft(Deepest, [bin |-> 0, count |-> 0], Reverse(ascending)).bin

\* the deep bins are not counted
recalcDepthUncapped(C, U) ==
    IF Cardinality(C) <= LowWaterMark THEN 0
    ELSE Min({shallowestUnsaturated(C \ U)} \cup emptyBins(C))

recalcDepth(C, U) ==
    IF Cardinality(C) <= LowWaterMark THEN 0
    ELSE Min({shallowestUnsaturated(C \ U), candidate(C \ U)} \cup emptyBins(C))

-----------------------------------------------------------------------------
\* What the world does.

Changes == khist.changes < ksc.changes
Changed == [khist EXCEPT !.changes = @ + 1]

\* peers that are put in or taken out are followed by a new depth and a wake up
Recalculated(C, U) == depth' = recalcDepth(C, U) /\ manageC' = TRUE

\* binSaturated: enough reachable peers in the bin that are not static
Oversaturated(p) == BinSize(connected \ (unreachable \cup ksc.static), bin(p)) >= OverSaturationPeers

\* Pick and Connected: a peer dials in; when the bin is full a bootnode puts out another, the others
\* refuse
Inbound(p) ==
    /\ Changes /\ p \in ksc.callers \ connected
    /\ \E V \in SUBSET InBin(connected \ ksc.static, bin(p)) :
         /\ IF Oversaturated(p) THEN ksc.bootnode /\ Cardinality(V) = 1 ELSE V = {}
         /\ connected' = (connected \ V) \cup {p}
         /\ waiting' = (waiting \cup V) \ {p}
    /\ known' = known \cup {p}
    /\ Recalculated(connected', unreachable)
    /\ khist' = [Changed EXCEPT !.stale = FALSE]
    /\ UNCHANGED <<unreachable, sick, storageRadius, loop, told, ksc>>

\* Disconnected
Gone(p) ==
    /\ connected' = connected \ {p} /\ waiting' = waiting \cup {p}
    /\ Recalculated(connected \ {p}, unreachable)

Leaves(p) ==
    /\ Changes /\ p \in connected /\ Gone(p)
    /\ khist' = [Changed EXCEPT !.stale = FALSE]
    /\ UNCHANGED <<known, unreachable, sick, storageRadius, loop, told, ksc>>

\* the reacher's verdict; only a good one is followed by a new depth
Reachable(p, ok) ==
    /\ Changes /\ p \in connected /\ (ok <=> p \in unreachable)
    /\ unreachable' = IF ok THEN unreachable \ {p} ELSE unreachable \cup {p}
    /\ khist' = [Changed EXCEPT !.stale = ~ok]
    /\ IF ok THEN Recalculated(connected, unreachable') ELSE UNCHANGED <<depth, manageC>>
    /\ UNCHANGED <<known, connected, waiting, sick, storageRadius, loop, told, ksc>>

SetStorageRadius(r) ==
    /\ Changes /\ r # storageRadius
    /\ storageRadius' = r /\ manageC' = TRUE
    /\ khist' = Changed
    /\ UNCHANGED <<known, connected, waiting, unreachable, sick, depth, loop, told, ksc>>

AddPeers(p) ==
    /\ Changes /\ p \in ksc.callers \ known
    /\ known' = known \cup {p} /\ manageC' = TRUE
    /\ khist' = Changed
    /\ UNCHANGED <<connected, waiting, unreachable, sick, storageRadius, depth, loop, told, ksc>>

\* the time of waitNext is over (that of a connected peer is not looked at, and renewed when it leaves),
\* and the loop wakes every 15 seconds
KWaitOver(p) ==
    /\ p \in waiting \ connected
    /\ waiting' = waiting \ {p}
    /\ UNCHANGED <<known, connected, unreachable, sick, storageRadius, depth, manageC, loop, told, khist, ksc>>

Wakes ==
    /\ ~manageC /\ manageC' = TRUE
    /\ UNCHANGED <<known, connected, waiting, unreachable, sick, storageRadius, depth, loop, told, khist, ksc>>

-----------------------------------------------------------------------------
\* The loop.

OnlyLoop == UNCHANGED <<known, connected, waiting, unreachable, sick, storageRadius, depth, told, khist, ksc>>

Manage ==
    /\ loop.step = "idle" /\ manageC
    /\ manageC' = FALSE
    /\ loop' = IF ksc.bootnode THEN loop ELSE [loop EXCEPT !.step = "balance"]
    /\ OnlyLoop

\* connectBalanced: a peer for every slot without one, except where the neighbourhood is dialled anyway;
\* the first that is not waiting is taken, and given up if it is blocklisted
Unbalanced ==
    {ij \in KBins \X (1..SlotsOf) :
        /\ ~(ij[1] >= storageRadius /\ BinSize(known, ij[1]) < SlotsOf)
        /\ InSlot(connected, ij[1], ij[2]) = {}
        /\ InSlot(known \ waiting, ij[1], ij[2]) # {}}

ConnectBalanced ==
    /\ loop.step = "balance"
    /\ \E f \in [Unbalanced -> known \ waiting] :
         /\ \A ij \in Unbalanced : ksc.at[f[ij]] = ij
         /\ loop' = [loop EXCEPT !.step = "neighbours", !.dials = Range(f) \ ksc.blocked]
    /\ UNCHANGED manageC /\ OnlyLoop

\* connectNeighbours: up to SaturationPeers of the peers of a bin that may be dialled
Dialable(i) == IF i < storageRadius THEN {} ELSE InBin(known, i) \ (connected \cup ksc.blocked \cup waiting)

ConnectNeighbours ==
    /\ loop.step = "neighbours"
    /\ \E D \in SUBSET UNION {Dialable(i) : i \in KBins} :
         /\ \A i \in KBins : BinSize(D, i) = Min({Cardinality(Dialable(i)), SaturationPeers})
         /\ loop' = [loop EXCEPT !.step = "wait", !.dials = @ \cup D]
    /\ UNCHANGED manageC /\ OnlyLoop

\* connectionAttemptsHandler: a worker takes a dial; it succeeds, or fails and the peer
\* waits for another attempt; after the last one, and if it is a light node, it is forgotten
Attempt(p) ==
    /\ p \in loop.dials
    /\ loop' = [loop EXCEPT !.dials = @ \ {p}]
    /\ \/ p \in waiting /\ UNCHANGED <<known, connected, waiting, depth, manageC, khist>>
       \/ /\ p \notin waiting /\ p \in ksc.willing
          /\ connected' = connected \cup {p} /\ waiting' = waiting \cup {p}
          /\ Recalculated(connected', unreachable) /\ khist' = [khist EXCEPT !.stale = FALSE] /\ UNCHANGED known
       \/ /\ p \notin waiting /\ p \notin ksc.willing /\ p \notin connected
          /\ \/ known' = known \ {p} /\ UNCHANGED waiting
             \/ p \notin ksc.light /\ waiting' = waiting \cup {p} /\ UNCHANGED known
          /\ UNCHANGED <<connected, depth, manageC, khist>>
    /\ UNCHANGED <<unreachable, sick, storageRadius, told, ksc>>

\* all dials are done; the slots are pruned with the radius of now
Waited ==
    /\ loop.step = "wait" /\ loop.dials = {}
    /\ loop' = [loop EXCEPT !.step = "prune", !.at = <<0, 0>>, !.radius = storageRadius]
    /\ UNCHANGED manageC /\ OnlyLoop

\* peers of a slot that may be put out: the sick ones first, then the unreachable, then any
Victims(S) ==
    IF S \cap sick # {} THEN S \cap sick ELSE IF S \cap unreachable # {} THEN S \cap unreachable ELSE S

\* the last of a slot is put out too
MayPruneLast(S) == S # {}

MayPrune(S) == Cardinality(S) > 1

\* pruneOversaturatedBins: the slots after the last one looked at that are crowded, bins ascending; at
\* the end the loop waits again
Crowded ==
    {ij \in KBins \X (1..SlotsOf) :
        /\ ij[1] < loop.radius /\ (ij[1] > loop.at[1] \/ (ij[1] = loop.at[1] /\ ij[2] > loop.at[2]))
        /\ BinSize(connected, ij[1]) > OverSaturationPeers
        /\ MayPrune(InSlot(connected, ij[1], ij[2]))}

Prune ==
    /\ loop.step = "prune"
    /\ \/ /\ Crowded = {} /\ loop' = KadRests
          /\ UNCHANGED <<connected, waiting, depth, manageC, khist>>
       \/ \E ij \in Crowded :
            /\ \A kl \in Crowded : kl[1] > ij[1] \/ (kl[1] = ij[1] /\ kl[2] >= ij[2])
            /\ \E v \in Victims(InSlot(connected, ij[1], ij[2])) : Gone(v)
            /\ loop' = [loop EXCEPT !.at = ij]
            /\ khist' = [khist EXCEPT !.stale = FALSE]
    /\ UNCHANGED <<known, unreachable, sick, storageRadius, told, ksc>>

-----------------------------------------------------------------------------
\* The periodic broadcast to the neighbourhood.

\* append(s[:i-1], s[i:]...) writes into s: the entries after i move down by one, the last one stays
CutOff(s, i) == [k \in 1..Len(s) |-> IF k < i \/ k = Len(s) THEN s[k] ELSE s[k + 1]]

\* a round of the loop over s: peer s[i] is told all but the last of the cut slice
Tell(acc, i) ==
    LET peer == acc.s[i]
        s == CutOff(acc.s, i)
    IN  [s |-> s, of |-> [acc.of EXCEPT ![peer] = @ \cup {s[k] : k \in 1..Len(s) - 1}]]

Broadcast ==
    LET N == {p \in connected : bin(p) >= storageRadius}
        none == [p \in KPeers |-> {}]
    IN  /\ Changes /\ N # {}
        /\ \E s \in SetToSeqs(N) :
              told' = [to |-> N, of |-> FoldLeft(Tell, [s |-> s, of |-> none], [i \in 1..Len(s) |-> i]).of]
        /\ khist' = Changed
        /\ UNCHANGED <<known, connected, waiting, unreachable, sick, storageRadius, depth, manageC, loop, ksc>>

KadWorld ==
    \/ \E p \in KPeers : Inbound(p) \/ Leaves(p) \/ AddPeers(p) \/ \E ok \in BOOLEAN : Reachable(p, ok)
    \/ \E r \in ksc.radii : SetStorageRadius(r)
    \/ (ksc.broadcast /\ Broadcast)

KadLoop == Manage \/ ConnectBalanced \/ ConnectNeighbours \/ Waited \/ Prune

KadNext == KadWorld \/ KadLoop \/ Wakes \/ \E p \in KPeers : Attempt(p) \/ KWaitOver(p)

-----------------------------------------------------------------------------
\* The depth is the least of: the shallowest bin with too few reachable peers among those that have
\* any (bin 0 always counts), the shallowest empty bin, and the deepest bin that has the low water
\* mark of reachable peers in it and below.  It is out of date only after a peer turned unreachable.
DepthCorrect ==
    LET R == connected \ unreachable
        some == {i \in KBins : BinSize(R, i) > 0}
        poor == {i \in some : BinSize(R, i) < SaturationPeers}
        unsaturated == IF 0 \notin some THEN 0 ELSE IF poor # {} THEN Min(poor) ELSE Max(some)
        low == {i \in KBins : Cardinality({p \in R : bin(p) >= i}) >= LowWaterMark}
        few == IF low = {} THEN 0 ELSE Max(low)
    IN  khist.stale \/
        depth = IF Cardinality(connected) <= LowWaterMark THEN 0
                ELSE Min({unsaturated, few} \cup emptyBins(connected))

\* Once the world stands still, every known peer of the neighbourhood that accepts a dial is
\* connected, and so is one of every slot for which such a peer is known, unless a blocklisted or
\* refusing peer of the slot stands in the way.  Pruning does not undo it.
Dials(p) == p \in known /\ p \in ksc.willing \ ksc.blocked
KadOpen(i, j) == InSlot(known, i, j) \subseteq ksc.willing \ ksc.blocked
Built ==
    \A p \in KPeers : Dials(p) =>
        IF bin(p) >= storageRadius THEN p \in connected
        ELSE KadOpen(bin(p), ksc.at[p][2]) => InSlot(connected, bin(p), ksc.at[p][2]) # {}
KadBuilt == ksc.bootnode \/ <>[]Built

\* "tell each neighbor about other neighbors periodically" (comment in Kad.manage)
NeighboursTold ==
    \A p, q \in told.to : p # q => q \in told.of[p]

-----------------------------------------------------------------------------
(***************************************************************************)
(* The reacher pings the connected peers, each again RetryAfter after the  *)
(* last time.  A manage goroutine acquires the next peer and hands it to   *)
(* one of the workers; it waits for more work, for the earliest retry, or  *)
(* for a worker.  Time is a small integer that stands still at MaxNow.     *)
(***************************************************************************)

CONSTANTS ReachPeers, RetryAfter, ReachWorkers, MaxNow

VARIABLES
    rpeers,    \* peer -> retryAfter, of the peers of the map
    work,      \* the work channel holds a token
    rmanage,   \* the manage goroutine: [pc, peer, until]
    pinging,   \* peers the workers ping
    rnow,      \* the clock
    verdicts,  \* times each peer was reported, in all
    rmoves     \* connects and disconnects left

reacherVars == <<rpeers, work, rmanage, pinging, rnow, verdicts, rmoves>>

Manages(pc, p, t) == [pc |-> pc, peer |-> p, until |-> t]
Acquire == Manages("acquire", {}, 0)

ReacherInit(moves) ==
    /\ rpeers = <<>> /\ work = FALSE /\ rmanage = Acquire /\ pinging = {}
    /\ rnow = 0 /\ verdicts = [p \in ReachPeers |-> 0] /\ rmoves = moves

\* Connected does not wake the manage goroutine
ConnectedQuiet(p) ==
    /\ rmoves > 0 /\ p \notin DOMAIN rpeers
    /\ rpeers' = [q \in DOMAIN rpeers \cup {p} |-> IF q = p THEN -1 ELSE rpeers[q]]
    /\ rmoves' = rmoves - 1
    /\ UNCHANGED <<work, rmanage, pinging, rnow, verdicts>>

\* reacher.Connected and reacher.Disconnected
ReachConnected(p) ==
    /\ rmoves > 0 /\ p \notin DOMAIN rpeers
    /\ rpeers' = [q \in DOMAIN rpeers \cup {p} |-> IF q = p THEN -1 ELSE rpeers[q]]
    /\ work' = TRUE /\ rmoves' = rmoves - 1
    /\ UNCHANGED <<rmanage, pinging, rnow, verdicts>>

ReachDisconnected(p) ==
    /\ rmoves > 0 /\ p \in DOMAIN rpeers
    /\ rpeers' = [q \in DOMAIN rpeers \ {p} |-> rpeers[q]]
    /\ rmoves' = rmoves - 1
    /\ UNCHANGED <<work, rmanage, pinging, rnow, verdicts>>

\* tryAcquirePeer reads the clock twice: for the peers that are due, and for the time to wait, which
\* may be over by then
ReachDue(t) == {p \in DOMAIN rpeers : rpeers[p] < t}
NextClosest == Min({rpeers[p] : p \in DOMAIN rpeers})

TryAcquire ==
    /\ rmanage.pc = "acquire"
    /\ IF ReachDue(rnow) # {}
       THEN \E p \in ReachDue(rnow) :
              /\ rpeers' = [rpeers EXCEPT ![p] = rnow + RetryAfter]
              /\ rmanage' = Manages("send", {p}, 0)
       ELSE /\ UNCHANGED rpeers
            /\ \/ DOMAIN rpeers = {} /\ rmanage' = Manages("work", {}, 0)
               \/ /\ DOMAIN rpeers # {} /\ NextClosest > rnow
                  /\ rmanage' = Manages("timed", {}, NextClosest)
               \/ /\ DOMAIN rpeers # {} /\ NextClosest <= rnow
                  /\ rmanage' = Manages("work", {}, 0)
    /\ UNCHANGED <<work, pinging, rnow, verdicts, rmoves>>

\* more work, or the time is over
WakeManage ==
    /\ \/ rmanage.pc \in {"work", "timed"} /\ work /\ work' = FALSE
       \/ rmanage.pc = "timed" /\ rnow >= rmanage.until /\ UNCHANGED work
    /\ rmanage' = Acquire
    /\ UNCHANGED <<rpeers, pinging, rnow, verdicts, rmoves>>

\* a worker takes the peer, and later reports what its ping showed, even of a peer that is gone
SendPeer ==
    /\ rmanage.pc = "send" /\ Cardinality(pinging) < ReachWorkers
    /\ pinging' = pinging \cup rmanage.peer /\ rmanage' = Acquire
    /\ UNCHANGED <<rpeers, work, rnow, verdicts, rmoves>>

Pinged(p) ==
    /\ p \in pinging
    /\ pinging' = pinging \ {p} /\ verdicts' = [verdicts EXCEPT ![p] = @ + 1] /\ work' = TRUE
    /\ UNCHANGED <<rpeers, rmanage, rnow, rmoves>>

ReachTick ==
    /\ rnow < MaxNow /\ rnow' = rnow + 1
    /\ UNCHANGED <<rpeers, work, rmanage, pinging, verdicts, rmoves>>

ReacherNext ==
    \/ TryAcquire \/ WakeManage \/ SendPeer \/ ReachTick
    \/ \E p \in ReachPeers : ReachConnected(p) \/ ReachDisconnected(p) \/ Pinged(p)

\* "if no peer is returned, wait until either more work or the closest retry-after time."
\* (comment in reacher.manage): a peer that stays is pinged again when its retry-after time is over.
PingedAgain ==
    \A p \in ReachPeers :
        (p \in DOMAIN rpeers /\ rpeers[p] < MaxNow) ~> (p \notin DOMAIN rpeers \/ rpeers[p] >= MaxNow)

\* A peer that has come is reported on at least once if it stays, whatever the manage goroutine and
\* the workers are busy with when it comes.
EventuallyPinged ==
    \A p \in ReachPeers : (p \in DOMAIN rpeers) ~> (p \notin DOMAIN rpeers \/ verdicts[p] > 0)
=============================================================================
