-------------------------------- MODULE Swap --------------------------------
EXTENDS Integers, Sequences, FiniteSets, Functions

(***************************************************************************)
(* Settlement with cheques: pkg/settlement/swap and its packages           *)
(* swapprotocol, chequebook (the chequebook, the store of received         *)
(* cheques, cashing) and priceoracle.                                      *)
(*                                                                         *)
(* One node pays its peers with cheques drawn on its chequebook contract;  *)
(* each peer belongs to a beneficiary, a node that receives cheques,       *)
(* credits them and cashes them on the chain.  A cheque carries the        *)
(* cumulative payout of its beneficiary.  Two peers (overlay addresses)    *)
(* may have one beneficiary: the node behind them changed its overlay.     *)
(* The chain and its contracts are external.                               *)
(***************************************************************************)

CONSTANTS
    Peers,           \* overlay addresses this node pays
    Beneficiaries,   \* the nodes behind them
    Node,            \* this node, as a reader of the price oracle
    Nobody,          \* no peer
    SwapScenarios    \* what happens in a run, and its bounds

\* eth: the beneficiary of a peer; prices: what the oracle may say; amounts,
\* pays: payments asked for; funds: the deposit; events: the number of faults
\* of each kind; withdrawals, cashouts: their number
SwapFaults == {"lost", "ambiguous", "crash", "reset", "revert"}

ASSUME SwapAssumption ==
    /\ Node \notin Beneficiaries /\ Nobody \notin Peers
    /\ \A s \in SwapScenarios :
          /\ s.eth \in [Peers -> Beneficiaries]
          /\ s.prices \subseteq [rate : Nat \ {0}, ded : Nat] /\ s.prices # {}
          /\ s.amounts \subseteq Nat \ {0}
          /\ s.faults \subseteq SwapFaults /\ s.cold \in BOOLEAN
          /\ {s.pays, s.funds, s.repricings, s.withdrawals, s.cashouts, s.nfaults}
                \subseteq Nat

VARIABLES
    chain,     \* the chequebook contract and the oracle: [balance, paidOut, price]
    cashTxs,   \* cashing transactions of every beneficiary: [cum, status]
    withdraw,  \* the withdrawal: [pc, issued, bal, amount]
    rates,     \* what every node knows of the price: [rate, ded, seen, next]
    book,      \* the peer of every beneficiary in our address book
    call,      \* the payment to every peer: see NoCall
    issuedTo,  \* lastIssuedCheque of every beneficiary: its payout
    issued,    \* totalIssued
    reserved,  \* totalIssuedReserved
    lock,      \* the payment that holds the chequebook's lock
    by,        \* deductedBy of every peer
    msgs,      \* cheques on their way
    taken,     \* cheques stored by a handler that has not returned
    rcv,       \* the node of every beneficiary: see NothingReceived
    hist,      \* history of every beneficiary: see NoHistory
    exposed,   \* what happened that a guarantee excludes (history)
    count,     \* events so far, for the bounds
    ssc        \* the scenario

chainVars == <<chain, cashTxs, withdraw>>
issuerVars == <<book, call, issuedTo, issued, reserved, lock, by>>
receiverVars == <<taken, rcv>>
swapVars == <<chainVars, rates, issuerVars, receiverVars, msgs, hist, exposed,
              count, ssc>>

Eth(p) == ssc.eth[p]

TotalPaidOut == SumFunction(chain.paidOut)

NoCall == [pc |-> "idle", amount |-> 0, rate |-> 0, ded |-> 0, sum |-> 0,
           bal |-> 0, cum |-> 0, ok |-> FALSE]

NoWithdrawal == [pc |-> "idle", issued |-> 0, bal |-> 0, amount |-> 0]

Unread == [rate |-> 0, ded |-> 0, seen |-> FALSE, next |-> {}]

\* payout: lastReceivedCheque; ded: deductedFor; book: the chequebook is in the
\* address book; action: the noted cashout, an index in cashTxs; cashing: a
\* cashout is sent and not yet noted
NothingReceived == [payout |-> 0, ded |-> FALSE, book |-> FALSE, action |-> 0,
                    cashing |-> FALSE]

\* paid: worth of the payments reported as sent; worth: of the payments credited
\* by the receiver; handed: highest payout handed out; deducted: cheques
\* accepted with a deduction
NoHistory == [paid |-> 0, worth |-> 0, handed |-> 0, deducted |-> 0]

Counted(e) == [count EXCEPT ![e] = @ + 1]

SwapInit ==
    /\ ssc \in SwapScenarios
    /\ \E price \in ssc.prices :
          /\ chain = [balance |-> ssc.funds, paidOut |-> [b \in Beneficiaries |-> 0],
                      price |-> price]
          /\ rates = [n \in Beneficiaries \cup {Node} |->
                        IF ssc.cold THEN Unread
                        ELSE [Unread EXCEPT !.rate = price.rate, !.ded = price.ded,
                                            !.seen = TRUE]]
    /\ cashTxs = [b \in Beneficiaries |-> << >>]
    /\ withdraw = NoWithdrawal
    /\ book = [b \in Beneficiaries |-> Nobody]
    /\ call = [p \in Peers |-> NoCall]
    /\ issuedTo = [b \in Beneficiaries |-> 0]
    /\ issued = 0 /\ reserved = 0 /\ lock = Nobody
    /\ by = [p \in Peers |-> FALSE]
    /\ msgs = {} /\ taken = {}
    /\ rcv = [b \in Beneficiaries |-> NothingReceived]
    /\ hist = [b \in Beneficiaries |-> NoHistory]
    /\ exposed = {}
    /\ count = [pays |-> 0, repricings |-> 0, withdrawals |-> 0, cashouts |-> 0,
                nfaults |-> 0]

Fault(kind) ==
    /\ kind \in ssc.faults
    /\ count.nfaults < ssc.nfaults
    /\ count' = Counted("nfaults")

-----------------------------------------------------------------------------
(* The price oracle: polled by every node on its own; the two results are   *)
(* assigned one after the other, without a lock.                            *)

Reprice ==
    /\ count.repricings < ssc.repricings
    /\ \E price \in ssc.prices \ {chain.price} : chain' = [chain EXCEPT !.price = price]
    /\ count' = Counted("repricings")
    /\ UNCHANGED <<cashTxs, withdraw, rates, issuerVars, receiverVars, msgs, hist,
                   exposed, ssc>>

Outdated(n) ==
    \/ ~rates[n].seen
    \/ [rate |-> rates[n].rate, ded |-> rates[n].ded] # chain.price

GetPrice(n) ==
    /\ rates[n].next = {} /\ Outdated(n)
    /\ rates' = [rates EXCEPT ![n].rate = chain.price.rate, ![n].next = {chain.price.ded}]
    /\ UNCHANGED <<chainVars, issuerVars, receiverVars, msgs, hist, exposed, count, ssc>>

GetDeduction(n) ==
    /\ \E d \in rates[n].next :
          rates' = [rates EXCEPT ![n].ded = d, ![n].seen = TRUE, ![n].next = {}]
    /\ UNCHANGED <<chainVars, issuerVars, receiverVars, msgs, hist, exposed, count, ssc>>

CurrentRates(n) == rates[n].rate # 0 /\ rates[n].seen

-----------------------------------------------------------------------------
(* Paying a peer.  Handshake is one step here; it is taken apart at the end *)
(* of the module.  A payment that ends before anything is reserved changes nothing: *)
(* accounting is told of the error.                                         *)

Handshake(p) ==
    /\ book[Eth(p)] # p
    /\ book' = [book EXCEPT ![Eth(p)] = p]
    /\ UNCHANGED <<chainVars, rates, call, issuedTo, issued, reserved, lock, by,
                   receiverVars, msgs, hist, exposed, count, ssc>>

\* EmitCheque opens the stream: headler answers with its rate and the deduction
\* it is entitled to
EmitCheque(p, a) ==
    /\ call[p].pc = "idle" /\ book[Eth(p)] = p
    /\ count.pays < ssc.pays
    /\ CurrentRates(Eth(p))
    /\ call' = [call EXCEPT ![p] = [NoCall EXCEPT
                  !.pc = "opened", !.amount = a, !.rate = rates[Eth(p)].rate,
                  !.ded = IF rcv[Eth(p)].ded THEN 0 ELSE rates[Eth(p)].ded]]
    /\ count' = Counted("pays")
    /\ UNCHANGED <<chainVars, rates, book, issuedTo, issued, reserved, lock, by,
                   receiverVars, msgs, hist, exposed, ssc>>

\* seeded fault: a second deduction is not refused
AgreedUnchecked(p) ==
    /\ CurrentRates(Node)
    /\ call[p].rate = rates[Node].rate
    /\ call[p].ded \in {0, rates[Node].ded}

Agreed(p) ==
    /\ CurrentRates(Node)
    /\ by[p] => call[p].ded = 0
    /\ call[p].rate = rates[Node].rate
    /\ call[p].ded \in {0, rates[Node].ded}

NegotiationFails(p) ==
    /\ call[p].pc = "opened" /\ ~Agreed(p)
    /\ call' = [call EXCEPT ![p] = NoCall]
    /\ UNCHANGED <<chainVars, rates, book, issuedTo, issued, reserved, lock, by,
                   receiverVars, msgs, hist, exposed, count, ssc>>

\* reserveTotalIssued takes the lock; AvailableBalance reads totalIssued and the
\* balance first
ReadBalance(p) ==
    /\ call[p].pc = "opened" /\ Agreed(p)
    /\ lock = Nobody
    /\ lock' = p
    /\ call' = [call EXCEPT ![p].pc = "locked", ![p].bal = chain.balance,
                            ![p].sum = call[p].amount * call[p].rate + call[p].ded]
    /\ exposed' = exposed \cup (IF withdraw.pc # "idle" THEN {"withdraw"} ELSE {})
    /\ UNCHANGED <<chainVars, rates, book, issuedTo, issued, reserved, by,
                   receiverVars, msgs, hist, count, ssc>>

\* then what was paid out
Available(p) == call[p].bal + TotalPaidOut - issued

\* seeded fault: other payments under way are not counted
OutOfFundsUnreserved(p) == call[p].sum > Available(p)

OutOfFunds(p) == call[p].sum > Available(p) - reserved

Reserve(p) ==
    /\ call[p].pc = "locked"
    /\ lock' = Nobody
    /\ IF OutOfFunds(p)
       THEN /\ call' = [call EXCEPT ![p] = NoCall]
            /\ UNCHANGED reserved
       ELSE /\ call' = [call EXCEPT ![p].pc = "reserved"]
            /\ reserved' = reserved + call[p].sum
    /\ UNCHANGED <<chainVars, rates, book, issuedTo, issued, by, receiverVars, msgs,
                   hist, exposed, count, ssc>>

\* the cheque is made from the last one and written to the stream
Cheque(p) == [p |-> p, cum |-> issuedTo[Eth(p)] + call[p].sum, rate |-> call[p].rate,
              ded |-> call[p].ded]

HandOut(p) ==
    /\ msgs' = msgs \cup {Cheque(p)}
    /\ hist' = [hist EXCEPT ![Eth(p)].handed =
                  IF Cheque(p).cum > @ THEN Cheque(p).cum ELSE @]

SendCheque(p) ==
    /\ call[p].pc = "reserved"
    /\ HandOut(p)
    /\ call' = [call EXCEPT ![p].pc = "sent", ![p].cum = Cheque(p).cum]
    /\ UNCHANGED <<chainVars, rates, book, issuedTo, issued, reserved, lock, by,
                   receiverVars, exposed, count, ssc>>

\* the write fails, or the context ends first and the write goes on
SendFails(p) ==
    /\ call[p].pc = "reserved"
    /\ call' = [call EXCEPT ![p].pc = "issued"]
    /\ \/ Fault("lost") /\ UNCHANGED <<msgs, hist, exposed>>
       \/ /\ Fault("ambiguous") /\ HandOut(p)
          /\ exposed' = exposed \cup {"ambiguous"}
    /\ UNCHANGED <<chainVars, rates, book, issuedTo, issued, reserved, lock, by,
                   receiverVars, ssc>>

PutLastIssued(p) ==
    /\ call[p].pc = "sent"
    /\ issuedTo' = [issuedTo EXCEPT ![Eth(p)] = call[p].cum]
    /\ call' = [call EXCEPT ![p].pc = "saved"]
    /\ UNCHANGED <<chainVars, rates, book, issued, reserved, lock, by, receiverVars,
                   msgs, hist, exposed, count, ssc>>

\* seeded fault: the amount is added, not the value of the cheque
PutTotalIssuedAmount(p) ==
    /\ call[p].pc = "saved" /\ lock = Nobody
    /\ issued' = issued + call[p].amount
    /\ call' = [call EXCEPT ![p].pc = "issued", ![p].ok = TRUE]
    /\ UNCHANGED <<chainVars, rates, book, issuedTo, reserved, lock, by, receiverVars,
                   msgs, hist, exposed, count, ssc>>

PutTotalIssued(p) ==
    /\ call[p].pc = "saved" /\ lock = Nobody
    /\ issued' = issued + call[p].sum
    /\ call' = [call EXCEPT ![p].pc = "issued", ![p].ok = TRUE]
    /\ UNCHANGED <<chainVars, rates, book, issuedTo, reserved, lock, by, receiverVars,
                   msgs, hist, exposed, count, ssc>>

Unreserve(p) ==
    /\ call[p].pc = "issued" /\ lock = Nobody
    /\ reserved' = reserved - call[p].sum
    /\ call' = [call EXCEPT ![p] = IF @.ok THEN [@ EXCEPT !.pc = "done"] ELSE NoCall]
    /\ UNCHANGED <<chainVars, rates, book, issuedTo, issued, lock, by, receiverVars,
                   msgs, hist, exposed, count, ssc>>

\* AddDeductionByPeer, then NotifyPaymentSent
PaymentSent(p) ==
    /\ call[p].pc = "done"
    /\ by' = [by EXCEPT ![p] = @ \/ call[p].ded # 0]
    /\ hist' = [hist EXCEPT ![Eth(p)].paid = @ + call[p].sum]
    /\ call' = [call EXCEPT ![p] = NoCall]
    /\ UNCHANGED <<chainVars, rates, book, issuedTo, issued, reserved, lock,
                   receiverVars, msgs, exposed, count, ssc>>

\* between handing the cheque out and adding it to totalIssued
Unaccounted == {p \in Peers : call[p].pc \in {"sent", "saved"}}

\* between that and AddDeductionByPeer
Unnoted == {p \in Peers : call[p].pc \in {"issued", "done"}}

Crash ==
    /\ Fault("crash")
    /\ call' = [p \in Peers |-> NoCall]
    /\ reserved' = 0 /\ lock' = Nobody
    /\ rates' = [rates EXCEPT ![Node] = Unread]
    /\ withdraw' = IF withdraw.pc = "sent" THEN withdraw ELSE NoWithdrawal
    /\ exposed' = exposed \cup (IF Unaccounted # {} THEN {"crash"} ELSE {})
                          \cup (IF Unnoted # {} THEN {"unnoted"} ELSE {})
    /\ UNCHANGED <<chain, cashTxs, book, issuedTo, issued, by, receiverVars, msgs,
                   hist, ssc>>

-----------------------------------------------------------------------------
(* Receiving a cheque: the handler of the swap protocol, at the beneficiary *)

Increase(m) == m.cum - rcv[Eth(m.p)].payout

\* seeded fault: the cheque is not compared with the last one
AcceptableFirst(m) ==
    /\ m.cum > 0
    /\ m.cum - m.ded >= m.rate
    /\ chain.balance >= m.cum - chain.paidOut[Eth(m.p)]

\* chequeStore.ReceiveCheque, under its lock
Acceptable(m) ==
    /\ Increase(m) > 0
    /\ Increase(m) - m.ded >= m.rate
    /\ chain.balance >= m.cum - chain.paidOut[Eth(m.p)]

ReceiveCheque(m) ==
    /\ msgs' = msgs \ {m}
    /\ IF Acceptable(m)
       THEN /\ rcv' = [rcv EXCEPT ![Eth(m.p)].payout = m.cum]
            /\ taken' = taken \cup {[b |-> Eth(m.p), rate |-> m.rate, ded |-> m.ded,
                                     amount |-> Increase(m), cum |-> m.cum]}
       ELSE UNCHANGED <<rcv, taken>>
    /\ UNCHANGED <<chainVars, rates, issuerVars, hist, exposed, count, ssc>>

\* what accounting is told the peer paid
Credit(t) == (t.amount - t.ded) \div t.rate

\* AddDeductionFor, PutChequebook, NotifyPaymentReceived
CreditCheque(t) ==
    /\ taken' = taken \ {t}
    /\ rcv' = [rcv EXCEPT ![t.b].book = TRUE, ![t.b].ded = @ \/ t.ded > 0]
    /\ hist' = [hist EXCEPT ![t.b].worth = @ + Credit(t) * t.rate + t.ded,
                            ![t.b].deducted = @ + (IF t.ded > 0 THEN 1 ELSE 0)]
    /\ UNCHANGED <<chainVars, rates, issuerVars, msgs, exposed, count, ssc>>

LoseCheque(m) ==
    /\ Fault("lost")
    /\ msgs' = msgs \ {m}
    /\ UNCHANGED <<chainVars, rates, issuerVars, receiverVars, hist, exposed, ssc>>

\* the node of a beneficiary restarts
Reset(b) ==
    /\ Fault("reset")
    /\ taken' = {t \in taken : t.b # b}
    /\ msgs' = {m \in msgs : Eth(m.p) # b}
    /\ rcv' = [rcv EXCEPT ![b].cashing = FALSE]
    /\ rates' = [rates EXCEPT ![b] = Unread]
    /\ UNCHANGED <<chainVars, issuerVars, hist, exposed, ssc>>

-----------------------------------------------------------------------------
(* Cashing, and the contract                                                *)

\* one cashout at a time (cashOutChequeSem); the transaction is sent, then noted
CashCheque(b) ==
    /\ rcv[b].book /\ ~rcv[b].cashing
    /\ count.cashouts < ssc.cashouts
    /\ count' = Counted("cashouts")
    /\ cashTxs' = [cashTxs EXCEPT ![b] =
                     Append(@, [cum |-> rcv[b].payout, status |-> "pending"])]
    /\ rcv' = [rcv EXCEPT ![b].cashing = TRUE]
    /\ UNCHANGED <<chain, withdraw, rates, issuerVars, taken, msgs, hist, exposed, ssc>>

\* seeded fault: the next transaction is noted
PutCashoutActionNext(b) ==
    /\ rcv[b].cashing
    /\ rcv' = [rcv EXCEPT ![b].cashing = FALSE, ![b].action = Len(cashTxs[b]) + 1]
    /\ UNCHANGED <<chainVars, rates, issuerVars, taken, msgs, hist, exposed, count, ssc>>

PutCashoutAction(b) ==
    /\ rcv[b].cashing
    /\ rcv' = [rcv EXCEPT ![b].cashing = FALSE, ![b].action = Len(cashTxs[b])]
    /\ UNCHANGED <<chainVars, rates, issuerVars, taken, msgs, hist, exposed, count, ssc>>

\* transactions of an account are mined in the order they were sent
FirstPending(b, i) ==
    /\ cashTxs[b][i].status = "pending"
    /\ \A j \in 1..(i - 1) : cashTxs[b][j].status # "pending"

\* cashChequeBeneficiary pays what the contract holds, and says so when it is less
CashMined(b) == \E i \in DOMAIN cashTxs[b] :
    /\ FirstPending(b, i)
    /\ LET due == cashTxs[b][i].cum - chain.paidOut[b]
           pay == IF due > chain.balance THEN chain.balance ELSE due
       IN /\ chain' = [chain EXCEPT !.balance = @ - pay, !.paidOut[b] = @ + pay]
          /\ cashTxs' = [cashTxs EXCEPT ![b][i].status =
                           IF pay < due THEN "bounced" ELSE "cashed"]
    /\ exposed' = exposed \cup (IF lock # Nobody \/ withdraw.pc = "read" THEN {"reads"}
                                ELSE {})
    /\ UNCHANGED <<withdraw, rates, issuerVars, receiverVars, msgs, hist, count, ssc>>

CashReverted(b) == \E i \in DOMAIN cashTxs[b] :
    /\ FirstPending(b, i)
    /\ Fault("revert")
    /\ cashTxs' = [cashTxs EXCEPT ![b][i].status = "reverted"]
    /\ UNCHANGED <<chain, withdraw, rates, issuerVars, receiverVars, msgs, hist,
                   exposed, ssc>>

\* seeded fault: a reverted cashout counts as cashed
UncashedAmountReverted(b) ==
    LET tx == cashTxs[b][rcv[b].action]
    IN IF rcv[b].action = 0 THEN rcv[b].payout
       ELSE rcv[b].payout - tx.cum

\* CashoutStatus
UncashedAmount(b) ==
    LET tx == cashTxs[b][rcv[b].action]
    IN IF rcv[b].action = 0 THEN rcv[b].payout
       ELSE IF tx.status = "reverted" THEN rcv[b].payout - chain.paidOut[b]
       ELSE rcv[b].payout - tx.cum

\* Withdraw: AvailableBalance without the lock, then the transaction
WithdrawRead(a) ==
    /\ withdraw.pc = "idle" /\ count.withdrawals < ssc.withdrawals
    /\ withdraw' = [pc |-> "read", issued |-> issued, bal |-> chain.balance, amount |-> a]
    /\ count' = Counted("withdrawals")
    /\ exposed' = exposed \cup
         (IF \E p \in Peers : call[p].pc \in {"locked", "reserved", "sent", "saved"}
          THEN {"withdraw"} ELSE {})
    /\ UNCHANGED <<chain, cashTxs, rates, issuerVars, receiverVars, msgs, hist, ssc>>

WithdrawAffordable == withdraw.bal + TotalPaidOut - withdraw.issued >= withdraw.amount

WithdrawSend ==
    /\ withdraw.pc = "read"
    /\ withdraw' = IF WithdrawAffordable THEN [withdraw EXCEPT !.pc = "sent"]
                   ELSE NoWithdrawal
    /\ UNCHANGED <<chain, cashTxs, rates, issuerVars, receiverVars, msgs, hist, exposed,
                   count, ssc>>

WithdrawMined ==
    /\ withdraw.pc = "sent"
    /\ withdraw' = NoWithdrawal
    /\ chain' = IF withdraw.amount <= chain.balance
                THEN [chain EXCEPT !.balance = @ - withdraw.amount] ELSE chain
    /\ UNCHANGED <<cashTxs, rates, issuerVars, receiverVars, msgs, hist, exposed, count,
                   ssc>>

-----------------------------------------------------------------------------
Paying(p) ==
    \/ \E a \in ssc.amounts : EmitCheque(p, a)
    \/ NegotiationFails(p) \/ ReadBalance(p) \/ Reserve(p)
    \/ SendCheque(p) \/ SendFails(p)
    \/ PutLastIssued(p) \/ PutTotalIssued(p) \/ Unreserve(p) \/ PaymentSent(p)

Cashing(b) == CashCheque(b) \/ PutCashoutAction(b) \/ CashMined(b) \/ CashReverted(b)

SwapNext ==
    \/ Reprice
    \/ \E n \in Beneficiaries \cup {Node} : GetPrice(n) \/ GetDeduction(n)
    \/ \E p \in Peers : Handshake(p) \/ Paying(p)
    \/ Crash
    \/ \E m \in msgs : ReceiveCheque(m) \/ LoseCheque(m)
    \/ \E t \in taken : CreditCheque(t)
    \/ \E b \in Beneficiaries : Reset(b) \/ Cashing(b)
    \/ \E a \in ssc.amounts : WithdrawRead(a)
    \/ WithdrawSend \/ WithdrawMined

SwapSpec == SwapInit /\ [][SwapNext]_swapVars

-----------------------------------------------------------------------------
\* Types of the state of the swap services and of the contract: amounts are
\* natural numbers (totalIssuedReserved never becomes negative).
SwapTypeOK ==
    /\ chain.balance \in Nat /\ chain.paidOut \in [Beneficiaries -> Nat]
    /\ issuedTo \in [Beneficiaries -> Nat]
    /\ issued \in Nat /\ reserved \in Nat
    /\ lock \in Peers \cup {Nobody}
    /\ by \in [Peers -> BOOLEAN] /\ book \in [Beneficiaries -> Peers \cup {Nobody}]
    /\ \A b \in Beneficiaries :
          /\ rcv[b].payout \in Nat /\ rcv[b].action \in 0..Len(cashTxs[b])
          /\ rcv[b].book \in BOOLEAN /\ rcv[b].cashing \in BOOLEAN

\* No cheque this node handed out is uncovered: what beneficiaries may still
\* cash is in the contract (AvailableBalance, reserveTotalIssued, Issue), unless
\* a write of a cheque failed and the cheque went out, the node crashed before a
\* cheque was added to totalIssued, a withdrawal overlapped a payment, or a
\* cheque was cashed while the balance and the sum paid out were being read.
Solvent ==
    exposed \subseteq {"unnoted"} =>
        SumFunction([b \in Beneficiaries |-> hist[b].handed]) - TotalPaidOut
            <= chain.balance

\* totalIssuedReserved is what the payments in Issue have reserved, whatever way
\* they end (reserveTotalIssued, the deferred unreserveTotalIssued).
ReservedExact ==
    reserved = SumFunction([p \in Peers |->
        IF call[p].pc \in {"reserved", "sent", "saved", "issued"}
        THEN call[p].sum ELSE 0])

\* one overlay only is paid at this address
SolePeer(b) == Cardinality({p \in Peers : Eth(p) = b}) <= 1

\* totalIssued is the sum of the last cheques of all beneficiaries, but for
\* cheques saved and not yet added (Issue), while no crash fell between the two
\* and no two overlays share a beneficiary.
IssuedExact ==
    ("crash" \notin exposed /\ \A b \in Beneficiaries : SolePeer(b)) =>
        issued + SumFunction([p \in Peers |->
                    IF call[p].pc = "saved" THEN call[p].sum ELSE 0])
            = SumFunction(issuedTo)

\* What accounting was told has been paid to a beneficiary is covered by the last
\* cheque saved for it (Issue saves before Pay reports); it holds when the
\* payments of one beneficiary do not overlap.
PaidIsIssued ==
    \A b \in Beneficiaries : SolePeer(b) => hist[b].paid <= issuedTo[b]

\* What a receiver credited, at the agreed rates and with the deductions it
\* kept, never exceeds the last cheque it stored: no cheque is credited twice,
\* whatever arrives late, out of order or around a restart (ReceiveCheque).
CreditBacked == \A b \in Beneficiaries : hist[b].worth <= rcv[b].payout

\* A deduction is taken from a peer once (GetDeductionFor in headler,
\* GetDeductionByPeer in EmitCheque), unless the payer does not know that the
\* cheque went out, or crashed before it noted the deduction.
DeductedOnce ==
    \A b \in Beneficiaries :
        (SolePeer(b) /\ exposed \cap {"ambiguous", "crash", "unnoted"} = {}) => hist[b].deducted <= 1

\* CashoutStatus says what is not cashed: once the noted transaction is the last
\* one, is mined and did not bounce, UncashedAmount is the cheque's payout less
\* what the contract paid out.
UncashedExact ==
    \A b \in Beneficiaries :
        LET n == Len(cashTxs[b]) IN
        (n > 0 /\ rcv[b].action = n /\ cashTxs[b][n].status \in {"cashed", "reverted"})
            => UncashedAmount(b) = rcv[b].payout - chain.paidOut[b]

\* A beneficiary's cheques only grow, at the receiver always and at the issuer
\* while its payments do not overlap (Issue: a payout "higher than the last").
PayoutsGrow ==
    [][\A b \in Beneficiaries :
          /\ rcv'[b].payout >= rcv[b].payout
          /\ SolePeer(b) => issuedTo'[b] >= issuedTo[b]]_swapVars

\* The books of the chequebook agree with each other and with what accounting was told
\* (Issue, Pay), sums and cheques only while no two overlays share a beneficiary.
IssuedBooks == ReservedExact /\ IssuedExact /\ PaidIsIssued

\* What the receiver credits is covered by cheques (ReceiveCheque), and a deduction is taken
\* from a peer once, with the exceptions named above.
CreditSound == CreditBacked /\ DeductedOnce

\* Cheques are covered, the books of who issues and who receives them agree with the chequebook,
\* and what is left to cash is known (Issue, ReceiveCheque, CashoutStatus), with the exceptions
\* named above.
ChequesSound == Solvent /\ IssuedBooks /\ CreditSound /\ UncashedExact

-----------------------------------------------------------------------------
(***************************************************************************)
(* The address book of the swap protocol: Service.Handshake                *)
(* (pkg/settlement/swap/swap.go) and addressbook.go, seen for the overlay  *)
(* addresses of one node behind one Ethereum address.  The book is four    *)
(* maps in the state store (peer to beneficiary and back, peer to          *)
(* chequebook and back); a handshake is a sequence of reads and writes of  *)
(* single keys, which handshakes of other connections, a received cheque   *)
(* and a crash may come between.                                           *)
(***************************************************************************)

CONSTANTS
    Overlays,       \* overlay addresses of the node
    NoOverlay,
    MaxHandshakes,  \* bound on handshakes
    MaxBookCrashes  \* bound on crashes

ASSUME BookAssumption ==
    /\ NoOverlay \notin Overlays
    /\ MaxHandshakes \in Nat /\ MaxBookCrashes \in Nat

VARIABLES
    beneficiary,      \* overlays with a stored beneficiary
    beneficiaryPeer,  \* the overlay stored for the beneficiary
    chequebook,       \* overlays with a stored chequebook
    chequebookPeer,   \* the overlay stored for the chequebook
    hs,               \* the handshake of every overlay: [pc, old, known]
    receiving,        \* overlays whose cheque found no chequebook, before the store
    shakes, bookCrashes,
    overlapped        \* what was under way during a handshake (history)

bookVars == <<beneficiary, beneficiaryPeer, chequebook, chequebookPeer, hs, receiving,
              shakes, bookCrashes, overlapped>>

stored4 == <<beneficiary, beneficiaryPeer, chequebook, chequebookPeer>>

NoShake == [pc |-> "idle", old |-> NoOverlay, known |-> FALSE]

BookInit ==
    /\ beneficiary = {} /\ chequebook = {}
    /\ beneficiaryPeer = NoOverlay /\ chequebookPeer = NoOverlay
    /\ hs = [p \in Overlays |-> NoShake]
    /\ receiving = {}
    /\ shakes = 0 /\ bookCrashes = 0
    /\ overlapped = {}

\* init of the protocol: one handshake per connection; BeneficiaryPeer is read
BeginHandshake(p) ==
    /\ hs[p].pc = "idle" /\ shakes < MaxHandshakes
    /\ shakes' = shakes + 1
    /\ hs' = [hs EXCEPT ![p] =
                IF beneficiaryPeer \notin {NoOverlay, p}
                THEN [NoShake EXCEPT !.pc = "migrate", !.old = beneficiaryPeer]
                ELSE [NoShake EXCEPT !.pc = "initial"]]
    /\ overlapped' = overlapped
         \cup (IF \E q \in Overlays : hs[q].pc # "idle" THEN {"handshake"} ELSE {})
         \cup (IF receiving # {} THEN {"cheque"} ELSE {})
    /\ UNCHANGED <<stored4, receiving, bookCrashes>>

To(p, pc) == hs' = [hs EXCEPT ![p].pc = pc]

\* MigratePeer reads the old peer's entries; without a beneficiary it fails
ReadOld(p) ==
    /\ hs[p].pc = "migrate"
    /\ hs' = [hs EXCEPT ![p] =
                IF hs[p].old \in beneficiary
                THEN [@ EXCEPT !.pc = "put", !.known = hs[p].old \in chequebook]
                ELSE NoShake]
    /\ UNCHANGED <<stored4, receiving, shakes, bookCrashes, overlapped>>

InitialKnown(p) ==
    /\ hs[p].pc = "initial" /\ p \in beneficiary
    /\ hs' = [hs EXCEPT ![p] = NoShake]
    /\ UNCHANGED <<stored4, receiving, shakes, bookCrashes, overlapped>>

\* PutBeneficiary: the peer's entry, then the beneficiary's
PutBeneficiary(p) ==
    /\ hs[p].pc = "put" \/ (hs[p].pc = "initial" /\ p \notin beneficiary)
    /\ beneficiary' = beneficiary \cup {p}
    /\ To(p, "putPeer")
    /\ UNCHANGED <<beneficiaryPeer, chequebook, chequebookPeer, receiving, shakes,
                   bookCrashes, overlapped>>

PutBeneficiaryPeer(p) ==
    /\ hs[p].pc = "putPeer"
    /\ beneficiaryPeer' = p
    /\ hs' = [hs EXCEPT ![p] = IF @.old = NoOverlay THEN NoShake ELSE [@ EXCEPT !.pc = "delete"]]
    /\ UNCHANGED <<beneficiary, chequebook, chequebookPeer, receiving, shakes,
                   bookCrashes, overlapped>>

\* seeded fault: the new entry is deleted
DeleteBeneficiaryNew(p) ==
    /\ hs[p].pc = "delete"
    /\ beneficiary' = beneficiary \ {p}
    /\ hs' = [hs EXCEPT ![p] = IF @.known THEN [@ EXCEPT !.pc = "book"] ELSE NoShake]
    /\ UNCHANGED <<beneficiaryPeer, chequebook, chequebookPeer, receiving, shakes,
                   bookCrashes, overlapped>>

DeleteBeneficiary(p) ==
    /\ hs[p].pc = "delete"
    /\ beneficiary' = beneficiary \ {hs[p].old}
    /\ hs' = [hs EXCEPT ![p] = IF @.known THEN [@ EXCEPT !.pc = "book"] ELSE NoShake]
    /\ UNCHANGED <<beneficiaryPeer, chequebook, chequebookPeer, receiving, shakes,
                   bookCrashes, overlapped>>

PutChequebook(p) ==
    /\ hs[p].pc = "book"
    /\ chequebook' = chequebook \cup {p}
    /\ To(p, "bookPeer")
    /\ UNCHANGED <<beneficiary, beneficiaryPeer, chequebookPeer, receiving, shakes,
                   bookCrashes, overlapped>>

PutChequebookPeer(p) ==
    /\ hs[p].pc = "bookPeer"
    /\ chequebookPeer' = p
    /\ To(p, "deleteBook")
    /\ UNCHANGED <<beneficiary, beneficiaryPeer, chequebook, receiving, shakes,
                   bookCrashes, overlapped>>

DeleteChequebook(p) ==
    /\ hs[p].pc = "deleteBook"
    /\ chequebook' = chequebook \ {hs[p].old}
    /\ hs' = [hs EXCEPT ![p] = NoShake]
    /\ UNCHANGED <<beneficiary, beneficiaryPeer, chequebookPeer, receiving, shakes,
                   bookCrashes, overlapped>>

\* ReceiveCheque of the service: the chequebook is looked up first and stored at
\* the end when it was not known; the peer is connected, its handshake is over
BeginReceive(p) ==
    /\ p \notin receiving /\ p \notin chequebook
    /\ beneficiaryPeer = p /\ hs[p].pc = "idle"
    /\ receiving' = receiving \cup {p}
    /\ overlapped' = overlapped
         \cup (IF \E q \in Overlays : hs[q].pc # "idle" THEN {"cheque"} ELSE {})
    /\ UNCHANGED <<stored4, hs, shakes, bookCrashes>>

StoreChequebook(p) ==
    /\ p \in receiving
    /\ receiving' = receiving \ {p}
    /\ chequebook' = chequebook \cup {p}
    /\ chequebookPeer' = p
    /\ UNCHANGED <<beneficiary, beneficiaryPeer, hs, shakes, bookCrashes, overlapped>>

BookCrash ==
    /\ bookCrashes < MaxBookCrashes
    /\ bookCrashes' = bookCrashes + 1
    /\ hs' = [p \in Overlays |-> NoShake]
    /\ receiving' = {}
    /\ UNCHANGED <<stored4, shakes, overlapped>>

BookNext ==
    \/ \E p \in Overlays :
          \/ BeginHandshake(p) \/ ReadOld(p) \/ InitialKnown(p)
          \/ PutBeneficiary(p) \/ PutBeneficiaryPeer(p) \/ DeleteBeneficiary(p)
          \/ PutChequebook(p) \/ PutChequebookPeer(p) \/ DeleteChequebook(p)
          \/ BeginReceive(p) \/ StoreChequebook(p)
    \/ BookCrash

BookSpec == BookInit /\ [][BookNext]_bookVars

-----------------------------------------------------------------------------
Quiet == \A p \in Overlays : hs[p].pc = "idle"

\* Types of the four maps and of the handshakes.
BookTypeOK ==
    /\ beneficiary \subseteq Overlays /\ chequebook \subseteq Overlays
    /\ {beneficiaryPeer, chequebookPeer} \subseteq Overlays \cup {NoOverlay}
    /\ receiving \subseteq Overlays
    /\ \A p \in Overlays : hs[p].old \in (Overlays \cup {NoOverlay}) \ {p}

\* A handshake leaves the node payable and able to migrate again: the overlay
\* stored for the beneficiary has a beneficiary (Handshake, MigratePeer), after
\* crashes too, as long as handshakes of two overlays of the node do not overlap.
PeerPayable ==
    (Quiet /\ "handshake" \notin overlapped /\ beneficiaryPeer # NoOverlay)
        => beneficiaryPeer \in beneficiary

\* Only one overlay of a node is paid: no beneficiary is left behind at an old
\* overlay (MigratePeer deletes it), unless a crash or a second handshake came in
\* between.
OneOverlayPaid ==
    (Quiet /\ "handshake" \notin overlapped /\ bookCrashes = 0) => beneficiary \subseteq {beneficiaryPeer}

\* A received cheque can be cashed at the overlay it belongs to: the chequebook's
\* overlay has the chequebook (PutChequebook, MigratePeer), after crashes too, as
\* long as nothing overlaps a handshake.
ChequebookFound ==
    (Quiet /\ receiving = {} /\ overlapped = {} /\ chequebookPeer # NoOverlay)
        => chequebookPeer \in chequebook

\* The address book leads from an overlay to what it is paid with and back after Handshake,
\* MigratePeer and PutChequebook, each part with the exceptions named above: overlapping
\* handshakes, and for the old overlay a crash.
AddressbookSound == PeerPayable /\ OneOverlayPaid /\ ChequebookFound
=============================================================================
