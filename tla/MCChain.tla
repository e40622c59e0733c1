------------------------------ MODULE MCChain ------------------------------
(***************************************************************************)
(* Small instances of what a node does about money and with the chain:     *)
(* cheques, time-based settlement and its address book; postage;           *)
(* transactions; the redistribution game.  They share no state here; a     *)
(* behaviour is of one of them, chosen by focus, while the others rest in  *)
(* their initial state.                                                    *)
(***************************************************************************)
EXTENDS Swap, PseudoSettle, Postage, Transactions, Redistribution, TLC

CONSTANTS p1, p2, b1, b2

VARIABLE focus

Ordinary == [eth |-> (p1 :> b1) @@ (p2 :> b2), prices |-> {[rate |-> 1, ded |-> 1]},
             amounts |-> {2}, faults |-> {}, cold |-> FALSE, pays |-> 2, funds |-> 6,
             repricings |-> 0, withdrawals |-> 0, cashouts |-> 1, nfaults |-> 0]

\* payments, withdrawals and cashouts without faults
Steady == [Ordinary EXCEPT !.withdrawals = 1]

\* more payments than the deposit covers
Scarce == [Ordinary EXCEPT !.pays = 3, !.amounts = {1, 2}, !.funds = 5, !.cashouts = 0]

\* one fault of every kind
Faulty == [Ordinary EXCEPT !.faults = SwapFaults, !.nfaults = 1]

\* the price changes, and nodes start without one
Repricing == [Ordinary EXCEPT !.prices = {[rate |-> 1, ded |-> 1], [rate |-> 2, ded |-> 0]},
                              !.repricings = 1, !.cold = TRUE, !.cashouts = 0]

\* both peers are one node
Migrated == [Ordinary EXCEPT !.eth = (p1 :> b1) @@ (p2 :> b1)]

AllSwap == {Steady, Scarce, Faulty, Repricing, Migrated}

Prompt == [rate |-> 2, skew |-> 1, delay |-> 3, end |-> 10, debt |-> 6, pays |-> 3,
           losses |-> 0, crashes |-> 0, reconnects |-> 1]

Lossy == [Prompt EXCEPT !.rate = 1, !.skew = 0, !.debt = 3, !.end = 7, !.losses = 1,
                        !.crashes = 1]

AllPseudo == {Prompt, [Prompt EXCEPT !.skew = 2, !.reconnects = 0], Lossy}

-----------------------------------------------------------------------------
\* Postage: events of the chain by block, the node starting at a block with or without a
\* snapshot of its batches.

CreateEvent(t, i, v, d, a) ==
    [at |-> t, kind |-> "create", id |-> i, value |-> v, depth |-> d, amount |-> a]
TopUpEvent(t, i, v, a) ==
    [at |-> t, kind |-> "topup", id |-> i, value |-> v, depth |-> 0, amount |-> a]
DiluteEvent(t, i, v, d) ==
    [at |-> t, kind |-> "depth", id |-> i, value |-> v, depth |-> d, amount |-> 0]
PriceEvent(t, v) ==
    [at |-> t, kind |-> "price", id |-> 0, value |-> v, depth |-> 0, amount |-> 0]

\* a batch that expires and one of the node that is topped up, a crash and a resync
Resynced ==
    [events |-> <<PriceEvent(1, 1), CreateEvent(2, 1, 4, 1, 3), CreateEvent(2, 2, 9, 2, 8), TopUpEvent(4, 2, 12, 3)>>,
     batches |-> 2, mine |-> {2}, immutable |-> {2}, start |-> 5, head |-> 8, snap |-> 0,
     resyncs |-> 1, faults |-> 0, crashes |-> 1, stops |-> 0, uploads |-> 0, receipts |-> {},
     sound |-> TRUE]

\* from a snapshot, with a failing call
Snapshot == [Resynced EXCEPT !.resyncs = 0, !.snap = 4, !.faults = 1]

\* two uploads stamp while the batch is diluted and the other expires
Stamping ==
    [Resynced EXCEPT !.events = <<PriceEvent(1, 1), CreateEvent(2, 1, 6, 1, 4), DiluteEvent(4, 1, 6, 2),
                                  CreateEvent(4, 2, 4, 1, 1)>>,
                     !.mine = {1}, !.immutable = {1}, !.uploads = 2, !.resyncs = 0, !.crashes = 0,
                     !.stops = 1, !.receipts = {1}, !.start = 6]

\* a top up of a batch that the store has ignored
Ignored ==
    [Resynced EXCEPT !.events = <<PriceEvent(1, 2), CreateEvent(2, 1, 4, 1, 4), TopUpEvent(3, 1, 8, 1)>>,
                     !.mine = {1}, !.resyncs = 0, !.crashes = 0, !.sound = FALSE]

PostageSafe == {Resynced, Snapshot, Stamping, Ignored}
OneBucket == [c \in {"a", "b", "c"} |-> 0]

-----------------------------------------------------------------------------
\* Transactions: sent, cancelled, reorganised, dropped, over failing calls and crashes.

Sending == [sends |-> 1, cancels |-> 1, faults |-> 0, crashes |-> 0, reorgs |-> 0, drops |-> 0]

TransactionsSafe ==
    {[Sending EXCEPT !.reorgs = 1], [Sending EXCEPT !.crashes = 1, !.faults = 1],
     [Sending EXCEPT !.sends = 2, !.cancels = 0, !.drops = 1],
     [Sending EXCEPT !.cancels = 0, !.drops = 1, !.crashes = 1]}

-----------------------------------------------------------------------------
\* Redistribution: rounds of four blocks in which the node may be selected.

Selected == [from |-> 2, blocks |-> 7, selected |-> {1}, frozen |-> {}, unfit |-> {}, lost |-> 0,
             crashes |-> 0, patient |-> FALSE]

RedistributionSafe ==
    {Selected, [Selected EXCEPT !.crashes = 1],
     [Selected EXCEPT !.lost = 1, !.crashes = 1, !.patient = TRUE, !.blocks = 9],
     [Selected EXCEPT !.selected = {1, 2}, !.frozen = {1}, !.unfit = {0}, !.blocks = 10,
                      !.patient = TRUE]}

-----------------------------------------------------------------------------
\* One of the scenarios of the component that is chosen, and one for each that rests.
One(component, scenarios) ==
    IF focus = component THEN scenarios ELSE {CHOOSE s \in scenarios : TRUE}

ChainInit ==
    /\ focus \in {"swap", "pseudosettle", "addressbook", "postage", "transactions",
                  "redistribution"}
    /\ SwapInit /\ ssc \in One("swap", AllSwap)
    /\ PseudoInit /\ psc \in One("pseudosettle", AllPseudo)
    /\ BookInit
    /\ \E s \in One("postage", PostageSafe) : PostageInit(s)
    /\ \E s \in One("transactions", TransactionsSafe) : TransactionsInit(s)
    /\ \E s \in One("redistribution", RedistributionSafe) : RedistributionInit(s)

MoneyVars == <<swapVars, pseudoVars, bookVars>>
ChainVars == <<pvars, tvars, rvars>>

MoneyNext ==
    \/ focus = "swap" /\ SwapNext /\ UNCHANGED <<pseudoVars, bookVars>>
    \/ focus = "pseudosettle" /\ PseudoNext /\ UNCHANGED <<swapVars, bookVars>>
    \/ focus = "addressbook" /\ BookNext /\ UNCHANGED <<swapVars, pseudoVars>>

ChainNext ==
    \/ focus = "postage" /\ PostageNext /\ UNCHANGED <<tvars, rvars>>
    \/ focus = "transactions" /\ TransactionsNext /\ UNCHANGED <<pvars, rvars>>
    \/ focus = "redistribution" /\ RedistributionNext /\ UNCHANGED <<pvars, tvars>>

MCNext ==
    \/ MoneyNext /\ UNCHANGED <<ChainVars, focus>>
    \/ ChainNext /\ UNCHANGED <<MoneyVars, focus>>

MCSpec == ChainInit /\ [][MCNext]_<<MoneyVars, ChainVars, focus>>

-----------------------------------------------------------------------------
\* What two peers agree on for settling outlasts their calls: the time-based allowance
\* (peerAllowance, settle) and the beneficiary and chequebook of an overlay (Handshake).
PeersAgree == RefreshSound /\ AddressbookSound
=============================================================================
