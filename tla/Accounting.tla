------------------------------ MODULE Accounting ------------------------------
(***************************************************************************)
(* The accounting of one node towards ONE peer (pkg/accounting).           *)
(*                                                                         *)
(* Every handler of the code takes accountingPeer.lock for its whole body, *)
(* so each is one action.  What interleaves is what the lock does not      *)
(* cover: the gap between Prepare and Apply/Cleanup of an action, the gap  *)
(* between starting a settlement (go refreshFunction, go payFunction) and  *)
(* its Notify, connects and disconnects in between, and the failure of one *)
(* of a handler's store writes.  Peers do not share state, so one peer is  *)
(* enough.  Time is counted in seconds.                                    *)
(***************************************************************************)
EXTENDS Integers, Sequences, FiniteSets, FiniteSetsExt, Functions

CONSTANTS
    RefreshRate,              \* units of debt forgiven per second
    PaymentThreshold,         \* the threshold announced to full nodes
    PaymentTolerance,         \* percent above it before the peer is blocked
    EarlyPayment,             \* percent below it at which we settle
    LightFactor,              \* divisor for light nodes
    MinimumPaymentDivisor,
    FailedSettlementInterval, \* seconds
    LinearCheckpointNumber,
    LinearCheckpointStep,
    SwapEnabled,              \* whether payFunction is set
    Start,                    \* the wall clock at start (unset stamps are 0)
    Slots,                    \* places for actions in flight
    Prices,                   \* chunk prices
    Amounts,                  \* amounts of incoming payments and refreshments
    Accepted,                 \* amounts a peer may accept of our refreshment
    Intervals,                \* seconds since its last one, by the peer's clock
    Thresholds,               \* thresholds the peer may announce to us
    NodeTypes,                \* how the peer may connect
    MaxSeconds, MaxPrepared, MaxReceived, MaxConnects, MaxFaults \* bounds

ASSUME RatesAssumption ==
    /\ RefreshRate \in Nat \ {0}
    /\ PaymentThreshold \in Nat
    /\ PaymentTolerance \in Nat
    /\ EarlyPayment \in 0..100
    /\ LightFactor \in Nat \ {0}
    /\ MinimumPaymentDivisor \in Nat \ {0}
    /\ FailedSettlementInterval \in Nat
    /\ LinearCheckpointNumber \in Nat
    /\ LinearCheckpointStep \in Nat
    /\ SwapEnabled \in BOOLEAN
    /\ Start \in Nat

ASSUME InputsAssumption ==
    /\ Prices \subseteq Nat
    /\ Amounts \subseteq Nat
    /\ Accepted \subseteq Nat
    /\ Intervals \subseteq Nat
    /\ Thresholds \subseteq Nat
    /\ NodeTypes \subseteq {"full", "light"}
    /\ {MaxSeconds, MaxPrepared, MaxReceived, MaxConnects, MaxFaults} \subseteq Nat

VARIABLES
    peer,     \* the in-memory accountingPeer
    store,    \* the persisted balance, surplus balance and originated balance
    now,      \* wall clock
    actions,  \* slot -> the credit or debit action in flight
    refreshes,\* amounts of the refreshFunction calls that are running
    payments, \* amounts of the payFunction calls that are running
    ban,      \* the last blocklisting asked of p2p in this connection
    h         \* history: counters the properties talk about, and the bounds

vars == <<peer, store, now, actions, refreshes, payments, ban, h>>

----------------------------------------------------------------------------
(* Constants derived by NewAccounting. *)

PercentOf(percent, of) == (of * percent) \div 100

LightRefreshRate == RefreshRate \div LightFactor
LightPaymentThreshold == PaymentThreshold \div LightFactor
MinimumPayment == RefreshRate \div MinimumPaymentDivisor

RateFor(node) == IF node = "full" THEN RefreshRate ELSE LightRefreshRate
ThresholdFor(node) == IF node = "full" THEN PaymentThreshold ELSE LightPaymentThreshold
GrowStepFor(node) == RateFor(node) * LinearCheckpointStep
GrowChangeFor(node) == RateFor(node) * LinearCheckpointNumber
DisconnectLimitFor(threshold) == PercentOf(100 + PaymentTolerance, threshold)

Lesser(a, b) == IF a < b THEN a ELSE b
Greater(a, b) == IF a < b THEN b ELSE a

----------------------------------------------------------------------------
(* State. *)

NoAction == [kind |-> "none", price |-> 0, originated |-> FALSE, failed |-> FALSE]

Action == [kind : {"none", "credit", "debit"}, price : Nat,
           originated : BOOLEAN, failed : BOOLEAN]

AccountingPeer ==
    [reserved : Nat, shadow : Int, refreshReserved : Int, ghost : Nat,
     paymentThreshold : Nat, earlyPayment : Nat,
     thresholdForPeer : Nat, disconnectLimit : Nat,
     refreshTs : Nat, refreshReceivedTs : Nat, lastFailure : Nat,
     paymentOngoing : BOOLEAN, refreshOngoing : BOOLEAN,
     connected : BOOLEAN, node : {"full", "light"},
     totalDebtRepay : Nat, growAt : Nat]

Store == [balance : Int, surplus : Nat, originated : Int]

\* ledger and received count since the last Connect, the others since start;
\* clean: the connection began with no action or payment in flight and with
\* the stored balances reset.
History ==
    [ledger : Int, received : Nat, clean : BOOLEAN,
     originated : Nat, paid : Nat,
     prepared : Nat, connects : Nat, faults : Nat]

NoBan == [reason |-> "none", seconds |-> 0]
Ban == [reason : {"none", "overdraw", "ghost", "refresh", "allowance", "disconnect"},
        seconds : Nat]

\* getAccountingPeer: the record made on first use
NewPeer ==
    [reserved |-> 0, shadow |-> 0, refreshReserved |-> 0, ghost |-> 0,
     paymentThreshold |-> PaymentThreshold,
     earlyPayment |-> PercentOf(100 - EarlyPayment, PaymentThreshold),
     thresholdForPeer |-> PaymentThreshold,
     disconnectLimit |-> DisconnectLimitFor(PaymentThreshold),
     refreshTs |-> 0, refreshReceivedTs |-> 0, lastFailure |-> 0,
     paymentOngoing |-> FALSE, refreshOngoing |-> FALSE,
     connected |-> FALSE, node |-> "light",
     totalDebtRepay |-> 0, growAt |-> GrowStepFor("full")]

Init ==
    /\ peer = NewPeer
    /\ store = [balance |-> 0, surplus |-> 0, originated |-> 0]
    /\ now = Start
    /\ actions = [s \in Slots |-> NoAction]
    /\ refreshes = <<>>
    /\ payments = <<>>
    /\ ban = NoBan
    /\ h = [ledger |-> 0, received |-> 0, clean |-> TRUE, originated |-> 0,
            paid |-> 0, prepared |-> 0, connects |-> 0, faults |-> 0]

----------------------------------------------------------------------------
(* Helpers of the handlers. *)

\* The k-th store write of a handler fails (0: none does).  The guard of a
\* handler that can fail k ways is Fault(k).
Fault(k) == k > 0 => h.faults < MaxFaults
Faulted(hist, k) == [hist EXCEPT !.faults = IF k > 0 THEN @ + 1 ELSE @]

\* getIncreasedExpectedDebt
IncreasedExpectedDebt(p, st, price) ==
    Greater(-st.balance, 0) + p.reserved + price + st.surplus

\* shadowBalance: our debt, less what may be debited soon
ShadowBalance(p, st) ==
    IF st.balance >= 0 \/ st.surplus - st.balance < p.shadow
    THEN 0
    ELSE -st.balance - p.shadow

\* seeded fault: the services rendered but not debited are forgotten
LatentDebtWithoutGhost(p, st) == Greater(Greater(st.balance, 0) + p.shadow, 0)

\* peerLatentDebt
PeerLatentDebt(p, st) ==
    Greater(Greater(st.balance, 0) + p.shadow + p.ghost, 0)

\* blocklistUntil with multiplier 1: seconds
BlocklistUntil(p, st) ==
    (Greater(PeerLatentDebt(p, st), RefreshRate) + PaymentThreshold) \div RefreshRate

\* blocklist
Blocklist(p, st, reason) == [reason |-> reason, seconds |-> BlocklistUntil(p, st)]

\* seeded fault: the reserve is not clamped at zero
ReleasedUnclamped(reserved, price) == reserved - price

\* release a reservation, never below zero
Released(reserved, price) == IF price > reserved THEN 0 ELSE reserved - price

\* decreaseOriginatedBalanceTo
DecreasedTo(originated, limit) == Greater(originated, Lesser(limit, 0))

\* seeded fault: the refreshOngoing flag is not tested
StartsRefreshAgain(p, st) ==
    /\ ShadowBalance(p, st) >= RefreshRate
    /\ now - p.refreshTs >= 1

\* settle: which settlements it starts
StartsRefresh(p, st) ==
    /\ ShadowBalance(p, st) >= RefreshRate
    /\ now - p.refreshTs >= 1
    /\ ~p.refreshOngoing

\* seeded fault: the whole debt is paid, forwarded traffic included
PaymentOfWholeDebt(p, st) ==
    -st.balance - (now - p.refreshTs) * RefreshRate - p.shadow

PaymentAmount(p, st) ==
    Lesser(-st.originated,
           -st.balance - (now - p.refreshTs) * RefreshRate - p.shadow)

StartsPayment(p, st) ==
    /\ ShadowBalance(p, st) >= RefreshRate
    /\ SwapEnabled
    /\ ~p.paymentOngoing
    /\ now - p.lastFailure > FailedSettlementInterval
    /\ -st.originated >= MinimumPayment
    /\ PaymentAmount(p, st) >= MinimumPayment

\* settle: the peer record it leaves and the settlements then running
Settle(p, st) ==
    LET refresh == p.refreshOngoing \/ StartsRefresh(p, st)
        pays == StartsPayment(p, st)
        amount == PaymentAmount(p, st)
    IN  [peer |-> [p EXCEPT
                     !.refreshOngoing = refresh,
                     !.paymentOngoing = @ \/ pays,
                     !.shadow = IF pays THEN @ + amount ELSE @,
                     !.refreshReserved = IF pays /\ refresh THEN @ + amount ELSE @],
         refreshes |-> IF StartsRefresh(p, st)
                       THEN Append(refreshes, ShadowBalance(p, st)) ELSE refreshes,
         payments |-> IF pays THEN Append(payments, amount) ELSE payments]

NoSettle(p) == [peer |-> p, refreshes |-> refreshes, payments |-> payments]

----------------------------------------------------------------------------
(* Credit actions: we ask the peer for a service and will owe its price. *)

RefreshDue(elapsed, rate) == Lesser(elapsed, 1) * rate

OverdraftLimit(p) ==
    p.paymentThreshold + RefreshDue(now - p.refreshTs, RefreshRate)

\* the early settlement of PrepareCredit
PrepareSettles(price) ==
    /\ IncreasedExpectedDebt(peer, store, price) - peer.shadow >= peer.earlyPayment
    /\ store.balance < 0

\* seeded fault: the price asked for is not counted
WithinOverdraftBefore(price) ==
    IncreasedExpectedDebt(peer, store, 0) <= OverdraftLimit(peer)

WithinOverdraft(price) ==
    IncreasedExpectedDebt(peer, store, price) <= OverdraftLimit(peer)

EarlySettle(price) ==
    IF PrepareSettles(price) THEN Settle(peer, store) ELSE NoSettle(peer)

Credits == [kind : {"credit"}, price : Prices, originated : BOOLEAN, failed : {FALSE}]

\* PrepareCredit, granted.  settle changes neither the balances nor the
\* reserve, so the debt computed again after it is the one computed before.
PrepareCredit(s, a) ==
    LET r == EarlySettle(a.price)
    IN  /\ actions[s] = NoAction
        /\ h.prepared < MaxPrepared
        /\ peer.connected
        /\ WithinOverdraft(a.price)
        /\ peer' = [r.peer EXCEPT !.reserved = @ + a.price]
        /\ refreshes' = r.refreshes
        /\ payments' = r.payments
        /\ actions' = [actions EXCEPT ![s] = a]
        /\ h' = [h EXCEPT !.prepared = @ + 1]
        /\ UNCHANGED <<store, now, ban>>

\* PrepareCredit, refused with ErrOverdraft: what settle started stays started
PrepareCreditRefused(price) ==
    LET r == EarlySettle(price)
    IN  /\ peer.connected
        /\ ~WithinOverdraft(price)
        /\ peer' = r.peer
        /\ refreshes' = r.refreshes
        /\ payments' = r.payments
        /\ UNCHANGED <<store, now, actions, ban, h>>

\* the store after the writes of creditAction.Apply: balance, then (for an
\* originated credit) originated balance
CreditedStore(a, fault) ==
    LET balance == store.balance - a.price
    IN  [store EXCEPT
           !.balance = balance,
           !.originated = IF a.originated /\ fault # 2
                          THEN Greater(@ - a.price, Lesser(balance, 0))
                          ELSE @]

\* seeded fault: the failing Apply releases what Cleanup releases again
CreditApplyFailsReleasing(s) ==
    /\ actions[s].kind = "credit" /\ ~actions[s].failed
    /\ Fault(1)
    /\ peer' = [peer EXCEPT !.reserved = Released(@, actions[s].price)]
    /\ actions' = [actions EXCEPT ![s].failed = TRUE]
    /\ h' = Faulted(h, 1)
    /\ UNCHANGED <<store, now, refreshes, payments, ban>>

\* creditAction.Apply with a failing balance write: only Cleanup can follow
CreditApplyFails(s) ==
    /\ actions[s].kind = "credit" /\ ~actions[s].failed
    /\ Fault(1)
    /\ actions' = [actions EXCEPT ![s].failed = TRUE]
    /\ h' = Faulted(h, 1)
    /\ UNCHANGED <<peer, store, now, refreshes, payments, ban>>

\* creditAction.Apply.  A failing originated-balance write returns before
\* settling, with the action already marked applied.
CreditApply(s, fault) ==
    LET a == actions[s]
        released == [peer EXCEPT !.reserved = Released(@, a.price)]
        credited == CreditedStore(a, fault)
        due == IncreasedExpectedDebt(peer, store, a.price) - peer.shadow
        r == IF fault = 0 /\ due > peer.earlyPayment
             THEN Settle(released, credited) ELSE NoSettle(released)
    IN  /\ a.kind = "credit" /\ ~a.failed
        /\ fault \in (IF a.originated THEN {0, 2} ELSE {0})
        /\ Fault(fault)
        /\ store' = credited
        /\ peer' = r.peer
        /\ refreshes' = r.refreshes
        /\ payments' = r.payments
        /\ actions' = [actions EXCEPT ![s] = NoAction]
        /\ h' = Faulted([h EXCEPT !.ledger = @ - a.price,
                                  !.originated = IF a.originated THEN @ + a.price ELSE @],
                        fault)
        /\ UNCHANGED <<now, ban>>

\* creditAction.Cleanup of an action that was not applied
CreditCleanup(s) ==
    /\ actions[s].kind = "credit"
    /\ peer' = [peer EXCEPT !.reserved = Released(@, actions[s].price)]
    /\ actions' = [actions EXCEPT ![s] = NoAction]
    /\ UNCHANGED <<store, now, refreshes, payments, ban, h>>

----------------------------------------------------------------------------
(* Debit actions: the peer asks us for a service and will owe its price. *)

Debits == [kind : {"debit"}, price : Prices, originated : {FALSE}, failed : {FALSE}]

PrepareDebit(s, a) ==
    /\ actions[s] = NoAction
    /\ h.prepared < MaxPrepared
    /\ peer.connected
    /\ peer' = [peer EXCEPT
                  !.shadow = @ + a.price,
                  !.refreshReserved = IF peer.refreshOngoing THEN @ + a.price ELSE @]
    /\ actions' = [actions EXCEPT ![s] = a]
    /\ h' = [h EXCEPT !.prepared = @ + 1]
    /\ UNCHANGED <<store, now, refreshes, payments, ban>>

\* seeded fault: the surplus is spent without lowering the balance
IncreasedBalanceSurplusLost(price, fault) ==
    LET balance == store.balance + price
    IN  IF store.surplus > 0 /\ store.surplus >= price
        THEN [store EXCEPT !.surplus = @ - price]
        ELSE [balance |-> balance, surplus |-> 0,
              originated |-> DecreasedTo(store.originated, balance)]

\* increaseBalance: the store after debiting price.  The surplus pays first;
\* a failing write of the originated balance (fault 3) is only logged.
IncreasedBalance(price, fault) ==
    LET balance == store.balance + price - store.surplus
    IN  IF store.surplus > 0 /\ store.surplus >= price
        THEN [store EXCEPT !.surplus = @ - price]
        ELSE [balance |-> balance, surplus |-> 0,
              originated |-> IF fault = 3 THEN store.originated
                             ELSE DecreasedTo(store.originated, balance)]

\* debitAction.Apply when increaseBalance fails: on its first write nothing is
\* stored, on the balance write that follows it the surplus is already spent
DebitApplyFails(s, fault) ==
    /\ actions[s].kind = "debit" /\ ~actions[s].failed
    /\ fault = 2 => store.surplus \in 1..(actions[s].price - 1)
    /\ Fault(fault)
    /\ store' = [store EXCEPT !.surplus = IF fault = 2 THEN 0 ELSE @]
    /\ actions' = [actions EXCEPT ![s].failed = TRUE]
    /\ h' = Faulted(h, fault)
    /\ UNCHANGED <<peer, now, refreshes, payments, ban>>

DisconnectLimit(p) ==
    p.disconnectLimit + RefreshDue(now - p.refreshReceivedTs, RateFor(p.node))

\* debitAction.Apply
DebitApply(s, fault) ==
    LET a == actions[s]
        debited == IncreasedBalance(a.price, fault)
        q == [peer EXCEPT !.shadow = @ - a.price]
    IN  /\ a.kind = "debit" /\ ~a.failed
        /\ fault = 3 => /\ debited.balance # store.balance
                        /\ store.originated < Lesser(debited.balance, 0)
        /\ Fault(fault)
        /\ store' = debited
        /\ peer' = q
        /\ ban' = IF debited.balance >= DisconnectLimit(peer)
                  THEN Blocklist(q, debited, "overdraw") ELSE ban
        /\ actions' = [actions EXCEPT ![s] = NoAction]
        /\ h' = Faulted([h EXCEPT !.ledger = @ + a.price], fault)
        /\ UNCHANGED <<now, refreshes, payments>>

\* debitAction.Cleanup of an action that was not applied
DebitCleanup(s) ==
    LET price == actions[s].price
        q == [peer EXCEPT !.shadow = @ - price, !.ghost = @ + price]
    IN  /\ actions[s].kind = "debit"
        /\ peer' = q
        /\ ban' = IF q.ghost > q.disconnectLimit THEN Blocklist(q, store, "ghost") ELSE ban
        /\ actions' = [actions EXCEPT ![s] = NoAction]
        /\ UNCHANGED <<store, now, refreshes, payments, h>>

----------------------------------------------------------------------------
(* Settlements we send. *)

Without(seq, i) == SubSeq(seq, 1, i - 1) \o SubSeq(seq, i + 1, Len(seq))

\* seeded fault: the shadow reserve of the failed payment is kept
PaymentFailedKeeping(i) ==
    /\ peer' = [peer EXCEPT !.paymentOngoing = FALSE, !.lastFailure = now]
    /\ payments' = Without(payments, i)
    /\ UNCHANGED <<store, now, actions, refreshes, ban, h>>

\* NotifyPaymentSent with an error
PaymentFailed(i) ==
    /\ peer' = [peer EXCEPT !.paymentOngoing = FALSE, !.shadow = @ - payments[i],
                            !.lastFailure = now]
    /\ payments' = Without(payments, i)
    /\ UNCHANGED <<store, now, actions, refreshes, ban, h>>

\* seeded fault: the flag is lowered only after a successful balance write
NotifyPaymentSentLate(i, fault) ==
    LET amount == payments[i]
    IN  /\ Fault(fault)
        /\ peer' = [peer EXCEPT !.paymentOngoing = (fault = 1), !.shadow = @ - amount]
        /\ payments' = Without(payments, i)
        /\ store' = [store EXCEPT !.balance = IF fault = 1 THEN @ ELSE @ + amount,
                                  !.originated = IF fault # 0 THEN @ ELSE @ + amount]
        /\ h' = Faulted([h EXCEPT !.ledger = @ + amount, !.paid = @ + amount], fault)
        /\ UNCHANGED <<now, actions, refreshes, ban>>

\* NotifyPaymentSent after the cheque was delivered; either write may fail
NotifyPaymentSent(i, fault) ==
    LET amount == payments[i]
    IN  /\ Fault(fault)
        /\ peer' = [peer EXCEPT !.paymentOngoing = FALSE, !.shadow = @ - amount]
        /\ payments' = Without(payments, i)
        /\ store' = [store EXCEPT !.balance = IF fault = 1 THEN @ ELSE @ + amount,
                                  !.originated = IF fault # 0 THEN @ ELSE @ + amount]
        /\ h' = Faulted([h EXCEPT !.ledger = @ + amount, !.paid = @ + amount], fault)
        /\ UNCHANGED <<now, actions, refreshes, ban>>

\* NotifyRefreshmentSent with an error.  A peer that is gone is not blocked.
RefreshmentFailed(i, err) ==
    LET q == [peer EXCEPT !.refreshOngoing = FALSE, !.refreshTs = 0]
    IN  /\ peer' = q
        /\ refreshes' = Without(refreshes, i)
        /\ ban' = IF err = "ErrPeerNotFound" THEN ban ELSE Blocklist(q, store, "refresh")
        /\ UNCHANGED <<store, now, actions, payments, h>>

\* what the peer must accept of an attempted refreshment
ExpectedAllowance(p, attempted, interval) ==
    Lesser(interval * RefreshRate,
           Lesser(attempted - p.refreshReserved, attempted))

\* NotifyRefreshmentSent with the amount the peer accepted and the interval
\* since its last refreshment
NotifyRefreshmentSent(i, amount, interval, fault) ==
    LET q == [peer EXCEPT !.refreshOngoing = FALSE, !.refreshTs = now,
                          !.refreshReserved = 0]
        met == amount >= ExpectedAllowance(peer, refreshes[i], interval)
        stored == met /\ fault # 1
        balance == store.balance + amount
    IN  /\ amount <= refreshes[i]    \* pseudosettle refuses more
        /\ Fault(fault)
        /\ fault > 0 => met
        /\ fault = 2 => store.originated < Lesser(balance, 0)
        /\ peer' = q
        /\ refreshes' = Without(refreshes, i)
        /\ store' = IF stored
                    THEN [store EXCEPT
                            !.balance = balance,
                            !.originated = IF fault = 2 THEN @ ELSE DecreasedTo(@, balance)]
                    ELSE store
        /\ ban' = IF met THEN ban ELSE Blocklist(q, store, "allowance")
        /\ h' = Faulted([h EXCEPT !.ledger = IF met THEN @ + amount ELSE @], fault)
        /\ UNCHANGED <<now, actions, payments>>

----------------------------------------------------------------------------
(* Settlements we receive. *)

\* seeded fault: the disconnect limit stays behind the threshold
UpgradedThresholdOnly(p) ==
    [p EXCEPT !.growAt = IF @ >= GrowChangeFor(p.node) THEN @ * 2
                         ELSE @ + GrowStepFor(p.node),
              !.thresholdForPeer = @ + RateFor(p.node)]

\* notifyPaymentThresholdUpgrade, when the checkpoint is passed
Upgraded(p) ==
    LET threshold == p.thresholdForPeer + RateFor(p.node)
    IN  [p EXCEPT
           !.growAt = IF @ >= GrowChangeFor(p.node) THEN @ * 2
                      ELSE @ + GrowStepFor(p.node),
           !.thresholdForPeer = threshold,
           !.disconnectLimit = DisconnectLimitFor(threshold)]

Repaid(p, amount) ==
    LET q == [p EXCEPT !.totalDebtRepay = @ + amount]
    IN  IF q.totalDebtRepay > q.growAt THEN Upgraded(q) ELSE q

\* NotifyPaymentReceived: a payment beyond the peer's debt becomes surplus.
\* With a failing write: of the first value stored, or of the surplus after
\* the balance.
NotifyPaymentReceived(amount, fault) ==
    LET balance == IF store.balance <= 0 THEN store.balance
                   ELSE Greater(store.balance - amount, 0)
        growth == amount - (store.balance - balance)
    IN  /\ h.received + amount <= MaxReceived
        /\ fault = 2 => store.balance > 0 /\ growth > 0
        /\ Fault(fault)
        /\ peer' = Repaid(peer, amount)
        /\ store' = [store EXCEPT !.balance = IF fault = 1 THEN @ ELSE balance,
                                  !.surplus = IF fault > 0 THEN @ ELSE @ + growth]
        /\ h' = Faulted([h EXCEPT !.ledger = @ - amount, !.received = @ + amount], fault)
        /\ UNCHANGED <<now, actions, refreshes, payments, ban>>

\* NotifyRefreshmentReceived; a refreshment may put us in debt
NotifyRefreshmentReceived(amount, fault) ==
    LET q == Repaid(peer, amount)
    IN  /\ h.received + amount <= MaxReceived
        /\ Fault(fault)
        /\ peer' = IF fault > 0 THEN q ELSE [q EXCEPT !.refreshReceivedTs = now]
        /\ store' = IF fault > 0 THEN store ELSE [store EXCEPT !.balance = @ - amount]
        /\ h' = Faulted([h EXCEPT !.ledger = @ - amount, !.received = @ + amount], fault)
        /\ UNCHANGED <<now, actions, refreshes, payments, ban>>

\* NotifyPaymentThreshold: the peer announces what it lets us owe
NotifyPaymentThreshold(threshold) ==
    /\ peer' = [peer EXCEPT
                  !.paymentThreshold = threshold,
                  !.earlyPayment = PercentOf(100 - EarlyPayment, threshold)]
    /\ UNCHANGED <<store, now, actions, refreshes, payments, ban, h>>

----------------------------------------------------------------------------
(* Connections. *)

InFlight == \E s \in Slots : actions[s] # NoAction

\* Connect: writes that fail are only logged; the totals repaid, the
\* settlements that are running and the originated balance are kept
Connect(node, failing) ==
    /\ h.connects < MaxConnects
    /\ failing # {} => h.faults < MaxFaults
    /\ peer' = [peer EXCEPT
                  !.connected = TRUE, !.node = node,
                  !.shadow = 0, !.ghost = 0, !.reserved = 0, !.refreshReserved = 0,
                  !.thresholdForPeer = ThresholdFor(node),
                  !.growAt = GrowStepFor(node),
                  !.disconnectLimit = DisconnectLimitFor(ThresholdFor(node))]
    /\ store' = [store EXCEPT !.balance = IF "balance" \in failing THEN @ ELSE 0,
                              !.surplus = IF "surplus" \in failing THEN @ ELSE 0]
    /\ ban' = NoBan
    /\ h' = Faulted([h EXCEPT !.connects = @ + 1, !.ledger = 0, !.received = 0,
                              !.clean = ~InFlight /\ payments = <<>> /\ failing = {}],
                    IF failing = {} THEN 0 ELSE 1)
    /\ UNCHANGED <<now, actions, refreshes, payments>>

\* Disconnect: the ban is for as long as the debt takes to be forgiven
Disconnect ==
    /\ peer.connected
    /\ peer' = [peer EXCEPT !.connected = FALSE]
    /\ ban' = Blocklist(peer, store, "disconnect")
    /\ UNCHANGED <<store, now, actions, refreshes, payments, h>>

Tick ==
    /\ now < Start + MaxSeconds
    /\ now' = now + 1
    /\ UNCHANGED <<peer, store, actions, refreshes, payments, ban, h>>

----------------------------------------------------------------------------
Next ==
    \/ \E s \in Slots, a \in Credits : PrepareCredit(s, a)
    \/ \E price \in Prices : PrepareCreditRefused(price)
    \/ \E s \in Slots, fault \in {0, 2} : CreditApply(s, fault)
    \/ \E s \in Slots : CreditApplyFails(s)
    \/ \E s \in Slots : CreditCleanup(s)
    \/ \E s \in Slots, a \in Debits : PrepareDebit(s, a)
    \/ \E s \in Slots, fault \in {0, 3} : DebitApply(s, fault)
    \/ \E s \in Slots, fault \in {1, 2} : DebitApplyFails(s, fault)
    \/ \E s \in Slots : DebitCleanup(s)
    \/ \E i \in 1..Len(payments) : PaymentFailed(i)
    \/ \E i \in 1..Len(payments), fault \in 0..2 : NotifyPaymentSent(i, fault)
    \/ \E i \in 1..Len(refreshes), err \in {"ErrPeerNotFound", "other"} :
         RefreshmentFailed(i, err)
    \/ \E i \in 1..Len(refreshes), amount \in Accepted, interval \in Intervals, fault \in 0..2 :
         NotifyRefreshmentSent(i, amount, interval, fault)
    \/ \E amount \in Amounts, fault \in 0..2 : NotifyPaymentReceived(amount, fault)
    \/ \E amount \in Amounts, fault \in 0..1 : NotifyRefreshmentReceived(amount, fault)
    \/ \E threshold \in Thresholds : NotifyPaymentThreshold(threshold)
    \/ \E node \in NodeTypes, failing \in SUBSET {"balance", "surplus"} :
         Connect(node, failing)
    \/ Disconnect
    \/ Tick

Spec == Init /\ [][Next]_vars

----------------------------------------------------------------------------
(* Properties. *)

\* Every field of the peer record, the store and the history has its type; in
\* particular the reserve and the ghost balance never go below zero.
TypeOK ==
    /\ peer \in AccountingPeer
    /\ store \in Store
    /\ now \in Nat
    /\ actions \in [Slots -> Action]
    /\ refreshes \in Seq(Nat)
    /\ payments \in Seq(Nat)
    /\ ban \in Ban
    /\ h \in History

\* The ongoing flags are exact: whatever the order of settle, Notify* and
\* reconnects, a running refreshment (payment) is flagged and at most one runs.
OneSettlement ==
    /\ Len(refreshes) = (IF peer.refreshOngoing THEN 1 ELSE 0)
    /\ Len(payments) = (IF peer.paymentOngoing THEN 1 ELSE 0)

\* CompensatedBalance (balance less surplus) is the sum of all that was applied
\* since Connect: debits, minus credits, plus what we settled, minus what the
\* peer settled.  No handler loses or doubles an amount while writes succeed.
CompensatedLedger ==
    h.faults = 0 => store.balance - store.surplus = h.ledger

\* Cheques pay only for traffic this node originated: payments sent and in
\* flight never exceed the originated credits applied.  It holds across
\* reconnects, although Connect resets the balance and not the originated one.
PaidOnlyForOriginated ==
    h.faults = 0 =>
        h.paid + (IF peer.paymentOngoing THEN payments[1] ELSE 0) <= h.originated

SumOfPrices(kind) ==
    MapThenSumSet(LAMBDA s : actions[s].price, {s \in Slots : actions[s].kind = kind})

Total(seq) == FoldFunction(+, 0, seq)

\* In a connection that began with nothing in flight, the reserve is the sum
\* of the open credits, and the shadow reserve the sum of the open debits and
\* of the payment being sent: nothing is released twice or forgotten.  Even when actions
\* outlive their connection the reserve is at most what open credits still hold.
ReservesExact ==
    /\ h.clean => /\ peer.reserved = SumOfPrices("credit")
                  /\ peer.shadow = SumOfPrices("debit") + Total(payments)
    /\ peer.reserved <= SumOfPrices("credit")

HighestThreshold == Max(Thresholds \cup {PaymentThreshold})

\* PrepareCredit bounds our debt: with every reserved action counted as
\* applied, what we may owe exceeds the highest threshold announced to us by at
\* most one second of refreshment and what the peer itself settled meanwhile.
OverdraftBounded ==
    h.clean =>
        IncreasedExpectedDebt(peer, store, 0)
            <= HighestThreshold + RefreshRate + h.received

\* The disconnect limit follows the threshold given to the peer through every
\* connect and upgrade.
LimitFollowsThreshold ==
    peer.disconnectLimit = DisconnectLimitFor(peer.thresholdForPeer)

\* Every ban outlasts the debt that is forgiven when the peer reconnects: at
\* the refresh rate its seconds cover what the peer owes, what the debits still
\* open would add, and the ghost balance of services not debited.
BanOutlastsDebt ==
    [][h.clean /\ ban' # ban /\ ban'.reason # "none" =>
         ban'.seconds * RefreshRate >=
             Greater(store'.balance, 0) + SumOfPrices("debit")' + peer'.ghost]_vars

\* The books of a peer (balance, originated balance, thresholds) say what was applied, what
\* cheques may pay for and where the peer is cut off, over settlements and reconnects.
LedgerSound == CompensatedLedger /\ PaidOnlyForOriginated /\ LimitFollowsThreshold

\* What is reserved is what open actions hold, and bounds what we may come to owe
\* (PrepareCredit, Apply, Cleanup).
ReservesSound == ReservesExact /\ OverdraftBounded
=============================================================================
