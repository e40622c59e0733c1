---------------------------- MODULE Transactions ----------------------------
(***************************************************************************)
(* The transaction service and its monitor (pkg/transaction): Send takes   *)
(* the next nonce, hands the transaction to the backend and records it;    *)
(* the monitor watches the sender's nonce and tells those who wait whether *)
(* their transaction was confirmed or its nonce taken by another.  The     *)
(* chain is external: mined is the transaction of each nonce used, with    *)
(* the block it is in; a block near the head may be replaced.              *)
(***************************************************************************)
EXTENDS Integers, FiniteSets, FiniteSetsExt

CONSTANTS MaxTx, MaxBlock, CancellationDepth

VARIABLES tsc, mempool, mined, top, tstore, sending, waiters, monitor, thist

tvars == <<tsc, mempool, mined, top, tstore, sending, waiters, monitor, thist>>

TxIds == 1 .. MaxTx
NoTx == [id |-> 0, nonce |-> -1]

---------------------------------------------------------------------------
(* The chain. *)
NonceAt(b) == Cardinality({n \in DOMAIN mined : mined[n].at <= b})

PendingNonceAt ==
    LET used == DOMAIN mined \cup {t.nonce : t \in mempool}
    IN Min({n \in 0 .. MaxTx : n \notin used})

IsMined(id) == \E n \in DOMAIN mined : mined[n].id = id

MineBlock ==
    /\ top < MaxBlock
    /\ top' = top + 1
    /\ \/ UNCHANGED <<mined, mempool>>
       \/ \E t \in mempool :
             /\ t.nonce = NonceAt(top) /\ top + CancellationDepth < MaxBlock
             /\ mined' = [n \in DOMAIN mined \cup {t.nonce} |->
                            IF n = t.nonce THEN [id |-> t.id, at |-> top + 1]
                            ELSE mined[n]]
             /\ mempool' = mempool \ {t}
    /\ UNCHANGED <<tsc, tstore, sending, waiters, monitor, thist>>

(* A transaction vanishes from the pending pool of the network. *)
Drop ==
    /\ thist.drops < tsc.drops
    /\ \E t \in mempool : mempool' = mempool \ {t}
    /\ thist' = [thist EXCEPT !.drops = @ + 1]
    /\ UNCHANGED <<tsc, mined, top, tstore, sending, waiters, monitor>>

(* The last block is replaced by one that holds a competing transaction. *)
Reorg ==
    /\ thist.reorgs < tsc.reorgs
    /\ \E n \in DOMAIN mined : \E t \in mempool :
          /\ mined[n].at = top /\ t.nonce = n
          /\ mined' = [mined EXCEPT ![n].id = t.id]
          /\ mempool' = (mempool \ {t}) \cup {[id |-> mined[n].id, nonce |-> n]}
    /\ thist' = [thist EXCEPT !.reorgs = @ + 1]
    /\ UNCHANGED <<tsc, top, tstore, sending, waiters, monitor>>

---------------------------------------------------------------------------
(* A mutant: the stored nonce is not looked at. *)
nextNonceBackend == PendingNonceAt

(* nextNonce: what the backend says, or the stored nonce if it is ahead. *)
nextNonce == IF tstore.nonce = -1 \/ PendingNonceAt > tstore.nonce
             THEN PendingNonceAt ELSE tstore.nonce

Unused == {id \in TxIds : id \notin thist.used}

(* Send, under the lock: the backend has the transaction before the store. *)
SendTx(lost) ==
    LET t == [id |-> Min(Unused), nonce |-> nextNonce] IN
    /\ thist.up /\ sending.id = 0 /\ Unused # {} /\ thist.sends < tsc.sends
    /\ lost => thist.faults < tsc.faults
    /\ mempool' = mempool \cup {t}
    /\ sending' = IF lost THEN NoTx ELSE t
    /\ thist' = [thist EXCEPT !.used = @ \cup {t.id}, !.sends = @ + 1,
                    !.faults = IF lost THEN @ + 1 ELSE @]
    /\ UNCHANGED <<tsc, mined, top, tstore, waiters, monitor>>

(* The nonce, the transaction and its pending entry are written, and a      *)
(* goroutine of the service starts to wait for it; the caller may as well.  *)
Record(t) == [tstore EXCEPT !.stored = @ \cup {t}, !.pending = @ \cup {t.id}]

Waiter(t, who) == [tx |-> t, who |-> who, st |-> "new"]

SendRecord ==
    /\ thist.up /\ sending.id # 0
    /\ tstore' = [Record(sending) EXCEPT !.nonce = sending.nonce + 1]
    /\ waiters' = waiters \cup {Waiter(sending, "service"), Waiter(sending, "caller")}
    /\ sending' = NoTx
    /\ thist' = [thist EXCEPT !.nonces = @ \cup {sending.nonce},
                             !.reused = @ \/ sending.nonce \in thist.nonces]
    /\ UNCHANGED <<tsc, mempool, mined, top, monitor>>

(* ResendTransaction: with the fees of today; only if these make the same   *)
(* transaction is it the one that is sent again.                            *)
ResendTransaction(t) ==
    /\ thist.up /\ t \in tstore.stored /\ thist.resends < tsc.drops
    /\ t \notin mempool /\ t.nonce \notin DOMAIN mined
    /\ mempool' = mempool \cup {t}
    /\ thist' = [thist EXCEPT !.resends = @ + 1]
    /\ UNCHANGED <<tsc, mined, top, tstore, sending, waiters, monitor>>

(* CancelTransaction, without the lock: a transaction of the same nonce.  *)
CancelTransaction(t) ==
    LET c == [id |-> Min(Unused), nonce |-> t.nonce] IN
    /\ thist.up /\ Unused # {} /\ thist.cancels < tsc.cancels
    /\ t \in tstore.stored /\ t.nonce \notin DOMAIN mined
    /\ mempool' = mempool \cup {c}
    /\ tstore' = Record(c)
    /\ waiters' = waiters \cup {Waiter(c, "service")}
    /\ thist' = [thist EXCEPT !.used = @ \cup {c.id}, !.cancels = @ + 1]
    /\ UNCHANGED <<tsc, mined, top, sending, monitor>>

---------------------------------------------------------------------------
(* A mutant: the watch is added without a nudge. *)
WatchQuiet(w) ==
    /\ thist.up /\ w.st = "new" /\ sending.id = 0
    /\ waiters' = (waiters \ {w}) \cup {[w EXCEPT !.st = "watching"]}
    /\ UNCHANGED <<tsc, mempool, mined, top, tstore, sending, monitor, thist>>

(* WatchTransaction: a watch on the transaction, and a nudge. *)
Watch(w) ==
    /\ thist.up /\ w.st = "new" /\ sending.id = 0
    /\ waiters' = (waiters \ {w}) \cup {[w EXCEPT !.st = "watching"]}
    /\ monitor' = [monitor EXCEPT !.added = TRUE]
    /\ thist' = IF monitor.pc = "notify" THEN [thist EXCEPT !.late = @ \cup {w.tx.id}]
                ELSE thist
    /\ UNCHANGED <<tsc, mempool, mined, top, tstore, sending>>

(* watchPending's turn, on the nudge or on the polling interval: the block  *)
(* number, and the groups of watches whose nonce is used up there.          *)
Watching == {w \in waiters : w.st = "watching"}

PollPending(added) ==
    /\ thist.up /\ monitor.pc = "idle" /\ Watching # {}
    /\ added => monitor.added
    /\ top > monitor.last \/ added
    /\ monitor' = [monitor EXCEPT
                     !.pc = "receipts", !.added = IF added THEN FALSE ELSE @,
                     !.block = top,
                     !.groups = {w.tx.nonce : w \in {v \in Watching :
                                                      v.tx.nonce < NonceAt(top)}}]
    /\ UNCHANGED <<tsc, mempool, mined, top, tstore, sending, waiters, thist>>

(* A call to the backend fails: the nudge is used up, the block is not. *)
PollFails ==
    /\ thist.up /\ thist.faults < tsc.faults /\ top < MaxBlock
    /\ monitor.pc = "receipts" \/ (Watching # {} /\ monitor.added)
    /\ monitor' = [monitor EXCEPT !.pc = "idle", !.added = FALSE, !.groups = {},
                                  !.confirmed = {}]
    /\ thist' = [thist EXCEPT !.faults = @ + 1]
    /\ UNCHANGED <<tsc, mempool, mined, top, tstore, sending, waiters>>

(* The receipts of the watched transactions of those groups. *)
Receipts ==
    /\ thist.up /\ monitor.pc = "receipts"
    /\ monitor' = [monitor EXCEPT
                     !.pc = "notify",
                     !.confirmed = {w.tx : w \in {v \in Watching :
                                      v.tx.nonce \in monitor.groups /\ IsMined(v.tx.id)}}]
    /\ UNCHANGED <<tsc, mempool, mined, top, tstore, sending, waiters, thist>>

(* A mutant: any used nonce without a receipt counts as cancelled. *)
CancelledAtOnce(n) == n < NonceAt(monitor.block)

Cancelled(n) == n < NonceAt(monitor.block - CancellationDepth)

Verdict(w) ==
    CASE w.tx \in monitor.confirmed -> "receipt"
      [] w.tx \notin monitor.confirmed
            /\ \E t \in monitor.confirmed : t.nonce = w.tx.nonce -> "outrun"
      [] OTHER -> IF w.tx.nonce \in monitor.groups /\ Cancelled(w.tx.nonce)
                  THEN "cancelled" ELSE "none"

(* ErrTransactionCancelled is either of cancelled (by depth) and outrun (by  *)
(* a watched competitor).                                                    *)
(* Everyone in a group that is settled is told, and the group is deleted;   *)
(* the service's goroutine drops the pending entry of a confirmed one.      *)
Notify ==
    LET told == {w \in Watching : Verdict(w) # "none"}
        done == {w.tx.id : w \in {v \in told : v.who = "service" /\ Verdict(v) = "receipt"}}
    IN /\ thist.up /\ monitor.pc = "notify"
       /\ waiters' = (waiters \ told) \cup {[w EXCEPT !.st = Verdict(w)] : w \in told}
       /\ tstore' = [tstore EXCEPT !.pending = @ \ done]
       /\ monitor' = [monitor EXCEPT !.pc = "idle", !.last = monitor.block,
                                     !.groups = {}, !.confirmed = {}]
       /\ thist' = [thist EXCEPT !.early = @ \cup {w.tx.id : w \in {v \in told :
                      Verdict(v) = "outrun" /\ ~Cancelled(v.tx.nonce)}}]
       /\ UNCHANGED <<tsc, mempool, mined, top, sending>>

---------------------------------------------------------------------------
(* A crash; and NewService: what is no longer in the mempool is dropped     *)
(* from the pending entries, the rest is waited for again.                  *)
TxCrash ==
    /\ thist.up /\ thist.crashes < tsc.crashes
    /\ thist' = [thist EXCEPT !.up = FALSE, !.crashes = @ + 1]
    /\ sending' = NoTx /\ waiters' = {}
    /\ monitor' = [monitor EXCEPT !.pc = "idle", !.added = FALSE, !.last = 0,
                                  !.groups = {}, !.confirmed = {}]
    /\ UNCHANGED <<tsc, mempool, mined, top, tstore>>

TxRestart ==
    LET live == {t \in tstore.stored : t.id \in tstore.pending /\ t \in mempool} IN
    /\ ~thist.up
    /\ tstore' = [tstore EXCEPT !.pending = {t.id : t \in live}]
    /\ waiters' = {Waiter(t, "service") : t \in live}
    /\ thist' = [thist EXCEPT !.up = TRUE]
    /\ UNCHANGED <<tsc, mempool, mined, top, sending, monitor>>

TransactionsInit(sc) ==
    /\ tsc = sc
    /\ mempool = {} /\ mined = [n \in {} |-> 0] /\ top = 1
    /\ tstore = [nonce |-> -1, stored |-> {}, pending |-> {}]
    /\ sending = NoTx /\ waiters = {}
    /\ monitor = [pc |-> "idle", last |-> 0, added |-> FALSE, block |-> 0,
                  groups |-> {}, confirmed |-> {}]
    /\ thist = [up |-> TRUE, used |-> {}, sends |-> 0, cancels |-> 0, faults |-> 0,
                crashes |-> 0, reorgs |-> 0, early |-> {},
                late |-> {}, drops |-> 0, resends |-> 0, nonces |-> {}, reused |-> FALSE]

MonitorStep == (\E a \in BOOLEAN : PollPending(a)) \/ Receipts \/ Notify

TransactionsNext ==
    \/ MineBlock \/ Reorg \/ Drop \/ SendRecord \/ PollFails \/ MonitorStep \/ TxCrash \/ TxRestart
    \/ \E l \in BOOLEAN : SendTx(l)
    \/ \E t \in tstore.stored : CancelTransaction(t) \/ ResendTransaction(t)
    \/ \E w \in waiters : Watch(w)

---------------------------------------------------------------------------
(* What the monitor tells is true: a receipt is of a mined transaction, and *)
(* a transaction that is reported as cancelled is not in the chain          *)
(* (checkPending), whatever is mined or sent between its calls.  A watch    *)
(* that joins its group after the receipts were asked for is excepted: it   *)
(* is told with the group that its nonce went to another.                   *)
(* And no two transactions that Send recorded have one nonce (nextNonce),   *)
(* whatever the backend forgot and whenever the node was restarted.         *)
VerdictsTrue ==
    /\ ~thist.reused
    /\ \A w \in waiters :
          /\ w.st = "receipt" /\ thist.reorgs = 0 => IsMined(w.tx.id)
          /\ w.st = "outrun" /\ thist.reorgs = 0 => ~IsMined(w.tx.id)
          /\ w.st = "cancelled" /\ w.tx.id \notin thist.late => ~IsMined(w.tx.id)

(* "WatchTransaction watches the transaction until either there is 1        *)
(* confirmation or a competing transaction with cancellationDepth           *)
(* confirmations." (Monitor)                                                *)
CancelledDeep == thist.early = {}

(* "PendingTransactions returns ... all pending": an entry whose service    *)
(* goroutine was told is no longer pending.                                 *)
PendingPending ==
    \A w \in waiters : w.who = "service" /\ w.st \in {"receipt", "cancelled", "outrun"}
                         => w.tx.id \notin tstore.pending

(* Whoever waits for a transaction whose nonce is used is told in the end   *)
(* (watchPending, the nudge of watchAdded), also when calls to the backend  *)
(* fail on the way.                                                         *)
EventuallyTold ==
    \A i \in TxIds :
        (\E w \in waiters : w.tx.id = i /\ w.st = "watching" /\ w.tx.nonce \in DOMAIN mined)
        ~> (\A w \in waiters : w.tx.id = i => w.st \notin {"new", "watching"})
=============================================================================
