----------------------------- MODULE PeerHealth -----------------------------
EXTENDS Integers, FiniteSets, Sequences, FiniteSetsExt, SequencesExt

(***************************************************************************)
(* Judging peers: the blocker and the breaker, which count time; salud,    *)
(* which compares what peers say of themselves; and hive, which tells      *)
(* peers of others and learns of them.                                     *)
(***************************************************************************)

(***************************************************************************)
(* Two guards of the p2p layer that count time: the blocker, which         *)
(* blocklists a peer that stays flagged, and the breaker, which stops      *)
(* dialling after several failures in a row.  The blocker's clock stands   *)
(* still while the network is unavailable.                                 *)
(***************************************************************************)

CONSTANTS FlagPeers, FlagTimeout, Calls, BreakLimit, FailInterval, StartBackoff, MaxBackoff, MaxTime

VARIABLES
    sequence,   \* the blocker's clock
    flagged,    \* peer -> blockAfter, of the flagged ones
    netUp,      \* the network is available
    blk,        \* history: how long each peer has been flagged, and whom it was right to block
    brk,        \* the breaker: failed, firstFailed, closedAt, backoff; -1 is the zero time
    calls,      \* calls of Execute: "idle", "running"
    btime,      \* time the breaker reads
    bhist       \* history: failures in a row since the last success or reset, calls begun too early

blockerVars == <<sequence, flagged, netUp, blk, brk, calls, btime, bhist>>

BlockerInit(what) ==
    /\ sequence = 0 /\ flagged = <<>> /\ netUp = TRUE
    /\ blk = [what |-> what, held |-> [p \in FlagPeers |-> 0], blocked |-> {}, early |-> {}]
    /\ brk = [failed |-> 0, firstFailed |-> -1, closedAt |-> -1, backoff |-> StartBackoff]
    /\ calls = [c \in Calls |-> "idle"] /\ btime = 0
    /\ bhist = [until |-> -1, early |-> FALSE, waits |-> StartBackoff]

-----------------------------------------------------------------------------
OnlyBlocker == blk.what = "blocker" /\ UNCHANGED <<brk, calls, btime, bhist>>

\* the sequencer
Sequence ==
    /\ OnlyBlocker /\ netUp /\ sequence < MaxTime
    /\ sequence' = sequence + 1
    /\ blk' = [blk EXCEPT !.held = [p \in FlagPeers |-> IF p \in DOMAIN flagged THEN @[p] + 1 ELSE 0]]
    /\ UNCHANGED <<flagged, netUp>>

NetChange == OnlyBlocker /\ sequence < MaxTime /\ netUp' = ~netUp /\ UNCHANGED <<sequence, flagged, blk>>

Unflagged(S) ==
    /\ flagged' = [q \in DOMAIN flagged \ S |-> flagged[q]]
    /\ blk' = [blk EXCEPT !.held = [p \in FlagPeers |-> IF p \in S THEN 0 ELSE @[p]]]

\* a flag that is raised again starts anew, and the time is counted as if it did not
FlagAnew(p) ==
    /\ OnlyBlocker /\ netUp
    /\ flagged' = [q \in DOMAIN flagged \cup {p} |-> IF q = p THEN sequence ELSE flagged[q]]
    /\ UNCHANGED <<sequence, netUp, blk>>

\* the network is looked at before the lock is taken
FlagPeer(p) ==
    /\ OnlyBlocker /\ netUp /\ p \notin DOMAIN flagged
    /\ flagged' = [q \in DOMAIN flagged \cup {p} |-> IF q = p THEN sequence + FlagTimeout ELSE flagged[q]]
    /\ UNCHANGED <<sequence, netUp, blk>>

Unflag(p) == OnlyBlocker /\ p \in DOMAIN flagged /\ Unflagged({p}) /\ UNCHANGED <<sequence, netUp>>

PruneUnseen(seen) ==
    /\ OnlyBlocker /\ DOMAIN flagged \ seen # {}
    /\ Unflagged(DOMAIN flagged \ seen) /\ UNCHANGED <<sequence, netUp>>

\* block: the peers whose time is over, a failure to blocklist them included
Block ==
    LET S == {p \in DOMAIN flagged : 0 < flagged[p] /\ flagged[p] < sequence}
    IN  /\ OnlyBlocker /\ S # {}
        /\ flagged' = [q \in DOMAIN flagged \ S |-> flagged[q]]
        /\ blk' = [blk EXCEPT !.blocked = @ \cup S, !.held = [p \in FlagPeers |-> IF p \in S THEN 0 ELSE @[p]],
                              !.early = @ \cup {p \in S : blk.held[p] <= FlagTimeout}]
        /\ UNCHANGED <<sequence, netUp>>

-----------------------------------------------------------------------------
OnlyBreaker == blk.what = "breaker" /\ UNCHANGED <<sequence, flagged, netUp, blk>>

BreakTick == OnlyBreaker /\ btime < MaxTime /\ btime' = btime + 1 /\ UNCHANGED <<brk, calls, bhist>>

resetFailed(b) == [b EXCEPT !.failed = 0, !.firstFailed = -1]

\* beforef: closed, or open again with a longer backoff, or failures too far apart are forgotten
Reopened(b) ==
    IF b.failed < BreakLimit THEN b
    ELSE [resetFailed(b) EXCEPT !.backoff = IF b.backoff * 2 <= MaxBackoff THEN b.backoff * 2 ELSE MaxBackoff]
Forgotten(b) == IF b.firstFailed >= 0 /\ btime - b.firstFailed >= FailInterval THEN resetFailed(b) ELSE b

\* the limit is reached and the backoff is not over
ClosedNow(b) == b.failed >= BreakLimit /\ (b.closedAt < 0 \/ btime - b.closedAt < b.backoff)

Begin(c) ==
    /\ OnlyBreaker /\ calls[c] = "idle" /\ ~ClosedNow(brk)
    /\ calls' = [calls EXCEPT ![c] = "running"]
    /\ brk' = Forgotten(Reopened(brk))
    /\ bhist' = [bhist EXCEPT !.early = @ \/ btime < bhist.until, !.until = -1]
    /\ UNCHANGED btime

\* the breaker closes whenever a call fails beyond the limit
FailedLate(b) ==
    LET f == [b EXCEPT !.failed = @ + 1, !.firstFailed = IF b.failed = 0 THEN btime ELSE @]
    IN  [f EXCEPT !.closedAt = IF f.failed > BreakLimit THEN btime ELSE @]

\* afterf
FailedCall(b) ==
    LET f == [b EXCEPT !.failed = @ + 1, !.firstFailed = IF b.failed = 0 THEN btime ELSE @]
    IN  [f EXCEPT !.closedAt = IF f.failed = BreakLimit THEN btime ELSE @]

EndFailed(c) ==
    /\ OnlyBreaker /\ calls[c] = "running"
    /\ calls' = [calls EXCEPT ![c] = "idle"]
    /\ brk' = FailedCall(brk)
    /\ bhist' = IF brk'.failed = BreakLimit THEN [bhist EXCEPT !.until = btime + brk.backoff] ELSE bhist
    /\ UNCHANGED btime

EndWell(c) ==
    /\ OnlyBreaker /\ calls[c] = "running"
    /\ calls' = [calls EXCEPT ![c] = "idle"]
    /\ brk' = resetFailed(brk)
    /\ bhist' = [bhist EXCEPT !.until = -1]
    /\ UNCHANGED btime

BlockerNext ==
    \/ Sequence \/ NetChange \/ Block \/ BreakTick
    \/ \E p \in FlagPeers : FlagPeer(p) \/ Unflag(p)
    \/ \E seen \in SUBSET FlagPeers : PruneUnseen(seen)
    \/ \E c \in Calls : Begin(c) \/ EndFailed(c) \/ EndWell(c)

-----------------------------------------------------------------------------
\* A peer is blocklisted only after it has been flagged without a break for longer than the flag
\* timeout, counted while the network was there; and the breaker begins no call before the backoff
\* after the failure that closed it is over, whatever calls were running, unless one of them
\* succeeded meanwhile.
GuardsPatient == blk.early = {} /\ ~bhist.early

-----------------------------------------------------------------------------
(***************************************************************************)
(* The health check of the connected peers (salud).  A round asks every    *)
(* peer for its status; peers that do not answer are unhealthy, and of the *)
(* others those that are slow, badly connected, behind with their radius   *)
(* or with another batch commitment, but only as long as their bin has     *)
(* more than MinPerBin peers that are not unhealthy.  The round ends with  *)
(* the node's own health and the radius told to the subscribers.           *)
(***************************************************************************)

CONSTANTS SaludPeers, SBin, SBins, MinPerBin, SaludAnswers, Radii, Rank

VARIABLES
    swith,      \* the connected peers
    healthy,    \* what the topology holds of each peer's health
    round,      \* the round under way: got maps the peers that answered to their answers
    selfRadius, isSelfHealthy,
    radiusC,    \* the subscriber's channel, of capacity one
    shist       \* history: the last complete round, changes so far

saludVars == <<swith, healthy, round, selfRadius, isSelfHealthy, radiusC, shist>>

Idle == [pc |-> "idle", got |-> <<>>]
None == [peers |-> {}, unfit |-> {}, radius |-> 0, self |-> TRUE]

SaludInit(sc) ==
    /\ swith = sc.peers /\ healthy = SaludPeers /\ round = Idle
    /\ selfRadius = sc.radius /\ isSelfHealthy = TRUE /\ radiusC = <<>>
    /\ shist = [last |-> None, rounds |-> sc.rounds, changes |-> sc.changes]

\* a round: every connected peer is asked at the same time, and gives an answer, that of a node of
\* another mode, or none; the last is unhealthy at once
SaludAsk ==
    /\ round.pc = "idle" /\ shist.rounds < 2 /\ swith # {}
    /\ \E some \in SUBSET swith : \E none \in SUBSET (swith \ some), f \in [some -> SaludAnswers] :
         /\ round' = [pc |-> "judge", got |-> f]
         /\ healthy' = healthy \ none
    /\ UNCHANGED <<swith, selfRadius, isSelfHealthy, radiusC, shist>>

-----------------------------------------------------------------------------
\* the thresholds of the answers g

SaludCount(g, P(_)) == Cardinality({p \in DOMAIN g : P(g[p])})

\* radius: the most common, the smallest of several
networkRadius(g) ==
    LET n(r) == SaludCount(g, LAMBDA a : a.radius = r)
    IN  Min({r \in Radii : \A q \in Radii : n(q) <= n(r)})

\* commitment: a most common one, whichever the map yields first
commitments(g) ==
    LET n(c) == SaludCount(g, LAMBDA a : a.commit = c)
        C == {g[p].commit : p \in DOMAIN g}
    IN  {c \in C : \A d \in C : n(d) <= n(c)}

\* percentileDur and percentileConns: the entry at index Rank(n) of the sorted answers
percentileDur(g) ==
    CHOOSE d \in {g[p].dur : p \in DOMAIN g} :
        /\ SaludCount(g, LAMBDA a : a.dur < d) <= Rank[Cardinality(DOMAIN g)]
        /\ SaludCount(g, LAMBDA a : a.dur <= d) > Rank[Cardinality(DOMAIN g)]
percentileConns(g) ==
    CHOOSE c \in {g[p].conns : p \in DOMAIN g} :
        /\ SaludCount(g, LAMBDA a : a.conns > c) <= Rank[Cardinality(DOMAIN g)]
        /\ SaludCount(g, LAMBDA a : a.conns >= c) > Rank[Cardinality(DOMAIN g)]

Fit(g, p, com) ==
    /\ ~(networkRadius(g) > 0 /\ g[p].radius < networkRadius(g) - 1)
    /\ g[p].dur <= percentileDur(g)
    /\ g[p].conns >= percentileConns(g)
    /\ g[p].commit = com

\* an unhealthy peer stays counted in its bin
JudgeAll(g, com, order) ==
    LET Step(acc, p) == IF acc.bins[SBin[p]] <= MinPerBin \/ Fit(g, p, com) THEN acc
                        ELSE [acc EXCEPT !.unfit = @ \cup {p}]
        bins == [i \in SBins |-> Cardinality({p \in DOMAIN g : SBin[p] = i})]
    IN  FoldLeft(Step, [unfit |-> {}, bins |-> bins], order).unfit

\* the peers one after the other, in the order the last sort left; an unhealthy one leaves its bin
Judge(g, com, order) ==
    LET Step(acc, p) == IF acc.bins[SBin[p]] <= MinPerBin \/ Fit(g, p, com) THEN acc
                        ELSE [acc EXCEPT !.unfit = @ \cup {p}, !.bins[SBin[p]] = @ - 1]
        bins == [i \in SBins |-> Cardinality({p \in DOMAIN g : SBin[p] = i})]
    IN  FoldLeft(Step, [unfit |-> {}, bins |-> bins], order).unfit

\* sorted by the number of connections, descending
Sorted(g, s) == \A i \in 1..Len(s) - 1 : g[s[i]].conns >= g[s[i + 1]].conns

SaludJudge ==
    LET g == round.got
    IN  /\ round.pc = "judge"
        /\ round' = Idle
        /\ IF DOMAIN g = {}
           THEN /\ UNCHANGED <<healthy, isSelfHealthy, radiusC>>
                /\ shist' = [shist EXCEPT !.rounds = @ + 1]
           ELSE \E com \in commitments(g), s \in SetToSeqs(DOMAIN g) :
                  /\ Sorted(g, s)
                  /\ LET unfit == Judge(g, com, s)
                     IN  /\ healthy' = (healthy \cup DOMAIN g) \ unfit
                         /\ shist' = [shist EXCEPT !.rounds = @ + 1,
                              !.last = [peers |-> DOMAIN g, unfit |-> unfit, radius |-> networkRadius(g),
                                        self |-> selfRadius = networkRadius(g)]]
                  /\ isSelfHealthy' = (selfRadius = networkRadius(g))
                  /\ radiusC' = IF radiusC = <<>> THEN <<networkRadius(g)>> ELSE radiusC
        /\ UNCHANGED <<swith, selfRadius>>

SaludChange ==
    /\ shist.changes > 0
    /\ shist' = [shist EXCEPT !.changes = @ - 1]
    /\ \/ \E p \in SaludPeers : swith' = (swith \ {p}) \cup ({p} \ swith) /\ UNCHANGED <<selfRadius, radiusC>>
       \/ \E r \in Radii \ {selfRadius} : selfRadius' = r /\ UNCHANGED <<swith, radiusC>>
       \/ radiusC # <<>> /\ radiusC' = <<>> /\ UNCHANGED <<swith, selfRadius>>
    /\ UNCHANGED <<healthy, round, isSelfHealthy>>

SaludNext == SaludAsk \/ SaludJudge \/ SaludChange

\* "every bin should have at least some peers, healthy or not": a round leaves at least MinPerBin of
\* the peers of a bin that answered healthy, or all if there are no more, however the
\* peers compare.  The node calls itself healthy exactly if its radius was the network's when the round ended.
BinsKept ==
    /\ \A i \in SBins :
          LET P == {p \in shist.last.peers : SBin[p] = i}
          IN  Cardinality(P \ shist.last.unfit) >= Min({MinPerBin, Cardinality(P)})
    /\ isSelfHealthy = shist.last.self
    /\ radiusC # <<>> => radiusC[1] \in Radii

-----------------------------------------------------------------------------
(***************************************************************************)
(* Peers tell each other of peers (hive).  The sending side cuts the list  *)
(* in batches and stops when its limiter for the addressee is used up; the *)
(* receiving side limits every sender, and then checks the peers of a      *)
(* message in goroutines under a semaphore: those whose underlay answers a *)
(* ping go into the address book and are handed to kademlia when all of    *)
(* the message is done.  Meanwhile kademlia may take peers out of the book *)
(* and a sender may disconnect, which renews its limits.                   *)
(***************************************************************************)

CONSTANTS Senders, HiveOverlays, Underlays, NoUnderlay, Burst, MaxBatchSize, SemSize

VARIABLES
    outLeft,   \* tokens left of the sender's limiter
    inLeft,    \* tokens left of the receiver's limiter, per sender
    sends,     \* what the senders have still to tell: a sequence of overlay and underlay
    batches,   \* messages being checked: items to look at, being pinged, added
    hiveBook,      \* the receiver's address book
    handed,    \* overlays handed to kademlia
    removed,   \* overlays kademlia has taken out of the book
    hhist,     \* entries accepted of each sender since it connected; most entries let through at once
    hsc        \* the scenario

hiveVars == <<outLeft, inLeft, sends, batches, hiveBook, handed, removed, hhist, hsc>>

HiveInit(sc) ==
    /\ hsc = sc
    /\ outLeft = [s \in Senders |-> Burst] /\ inLeft = [s \in Senders |-> Burst]
    /\ sends = sc.sends /\ batches = {}
    /\ hiveBook = sc.book /\ handed = {} /\ removed = {}
    /\ hhist = [accepted |-> [s \in Senders |-> 0], refills |-> 0, clears |-> 0, drops |-> 0]

Batch(s, todo) == [from |-> s, todo |-> todo, pinging |-> {}, added |-> {}]

\* BroadcastPeers: the size of a batch shrinks to what is left of the list, and never grows again
BatchSize(s) == Min({MaxBatchSize, Len(sends[s])})

\* a batch is sent, read and let through or refused by the receiver's limiter; a bootnode only reads
SendPeers(s) ==
    LET n == BatchSize(s)
        entries == {sends[s][i] : i \in 1..n}
    IN  /\ sends[s] # <<>> /\ outLeft[s] >= n
        /\ sends' = [sends EXCEPT ![s] = SubSeq(@, n + 1, Len(@))]
        /\ outLeft' = [outLeft EXCEPT ![s] = @ - n]
        /\ IF inLeft[s] >= n
           THEN /\ inLeft' = [inLeft EXCEPT ![s] = @ - n]
                /\ hhist' = [hhist EXCEPT !.accepted[s] = @ + n]
                /\ batches' = IF hsc.bootnode THEN batches ELSE batches \cup {Batch(s, entries)}
           ELSE UNCHANGED <<inLeft, hhist, batches>>
        /\ UNCHANGED <<hiveBook, handed, removed, hsc>>

\* the limiter says no: the rest is not sent, and nobody is told
SendLimited(s) ==
    /\ sends[s] # <<>> /\ outLeft[s] < BatchSize(s)
    /\ sends' = [sends EXCEPT ![s] = <<>>]
    /\ UNCHANGED <<outLeft, inLeft, batches, hiveBook, handed, removed, hhist, hsc>>

BookReplaced(b, c) == batches' = (batches \ {b}) \cup {c}
Pings == UNION {b.pinging : b \in batches}

\* the next entry of a message: in the book with this underlay, or to be pinged
SkipEntry(b, e) ==
    /\ e \in b.todo /\ hiveBook[e[1]] = e[2]
    /\ BookReplaced(b, [b EXCEPT !.todo = @ \ {e}])
    /\ UNCHANGED <<outLeft, inLeft, sends, hiveBook, handed, removed, hhist, hsc>>

PingEntry(b, e) ==
    /\ e \in b.todo /\ hiveBook[e[1]] # e[2] /\ Cardinality(Pings) < SemSize
    /\ BookReplaced(b, [b EXCEPT !.todo = @ \ {e}, !.pinging = @ \cup {<<b.from, e>>}])
    /\ UNCHANGED <<outLeft, inLeft, sends, hiveBook, handed, removed, hhist, hsc>>

\* the time for the message is over before there was a permit
DropEntry(b, e) ==
    /\ hhist.drops < hsc.drops
    /\ e \in b.todo /\ hiveBook[e[1]] # e[2]
    /\ BookReplaced(b, [b EXCEPT !.todo = @ \ {e}])
    /\ hhist' = [hhist EXCEPT !.drops = @ + 1]
    /\ UNCHANGED <<outLeft, inLeft, sends, hiveBook, handed, removed, hsc>>

\* a peer goes into the book whether or not it answers
PongAnyway(b, e) ==
    /\ <<b.from, e>> \in b.pinging
    /\ BookReplaced(b, [b EXCEPT !.pinging = @ \ {<<b.from, e>>}, !.added = @ \cup {e[1]}])
    /\ hiveBook' = [hiveBook EXCEPT ![e[1]] = e[2]] /\ removed' = removed \ {e[1]}
    /\ UNCHANGED <<outLeft, inLeft, sends, handed, hhist, hsc>>

\* the ping is answered, and the peer goes into the book; or it is not
Pong(b, e) ==
    /\ <<b.from, e>> \in b.pinging
    /\ IF e[2] \in hsc.alive
       THEN /\ BookReplaced(b, [b EXCEPT !.pinging = @ \ {<<b.from, e>>}, !.added = @ \cup {e[1]}])
            /\ hiveBook' = [hiveBook EXCEPT ![e[1]] = e[2]] /\ removed' = removed \ {e[1]}
       ELSE BookReplaced(b, [b EXCEPT !.pinging = @ \ {<<b.from, e>>}]) /\ UNCHANGED <<hiveBook, removed>>
    /\ UNCHANGED <<outLeft, inLeft, sends, handed, hhist, hsc>>

\* all of the message is done
HandOver(b) ==
    /\ b.todo = {} /\ b.pinging = {}
    /\ batches' = batches \ {b} /\ handed' = handed \cup b.added
    /\ UNCHANGED <<outLeft, inLeft, sends, hiveBook, removed, hhist, hsc>>

\* kademlia gives the peer up
BookRemove(o) ==
    /\ o \in handed /\ hiveBook[o] # NoUnderlay
    /\ hiveBook' = [hiveBook EXCEPT ![o] = NoUnderlay] /\ removed' = removed \cup {o}
    /\ handed' = handed \ {o}
    /\ UNCHANGED <<outLeft, inLeft, sends, batches, hhist, hsc>>

\* a token comes back with time; a sender that disconnects starts with all of them
Refill(s) ==
    /\ hhist.refills < hsc.refills /\ inLeft[s] < Burst
    /\ inLeft' = [inLeft EXCEPT ![s] = @ + 1]
    /\ hhist' = [hhist EXCEPT !.refills = @ + 1]
    /\ UNCHANGED <<outLeft, sends, batches, hiveBook, handed, removed, hsc>>

HiveDisconnect(s) ==
    /\ hhist.clears < hsc.clears
    /\ inLeft' = [inLeft EXCEPT ![s] = Burst] /\ outLeft' = [outLeft EXCEPT ![s] = Burst]
    /\ hhist' = [hhist EXCEPT !.clears = @ + 1, !.accepted[s] = 0]
    /\ UNCHANGED <<sends, batches, hiveBook, handed, removed, hsc>>

HiveNext ==
    \/ \E s \in Senders : SendPeers(s) \/ SendLimited(s) \/ Refill(s) \/ HiveDisconnect(s)
    \/ \E b \in batches : \/ HandOver(b)
                          \/ \E e \in b.todo : SkipEntry(b, e) \/ PingEntry(b, e) \/ DropEntry(b, e)
                          \/ \E q \in b.pinging : Pong(b, q[2])
    \/ \E o \in HiveOverlays : BookRemove(o)

\* A peer that was handed to kademlia has an underlay in the address book that has answered a ping,
\* or was there before, unless kademlia itself has taken it out: neither two messages with different
\* underlays of one peer, nor one that is late, leave kademlia with a peer it cannot dial.  No sender
\* gets more entries looked at than its burst and the tokens that came back, and no more pings run
\* than the semaphore has permits.
GossipSound ==
    /\ \A o \in handed : hiveBook[o] \in hsc.alive \/ hiveBook[o] = hsc.book[o] \/ o \in removed
    /\ \A b \in batches : \A o \in b.added : hiveBook[o] # NoUnderlay \/ o \in removed
    /\ \A o \in HiveOverlays : hiveBook[o] \in hsc.alive \cup {hsc.book[o], NoUnderlay}
    /\ \A s \in Senders : hhist.accepted[s] <= Burst + hhist.refills
    /\ Cardinality(Pings) <= SemSize
=============================================================================
