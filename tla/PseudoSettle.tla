---------------------------- MODULE PseudoSettle ----------------------------
(***************************************************************************)
(* Time-based settlement: pkg/settlement/pseudosettle between two nodes,   *)
(* with the parts of pkg/accounting that start a refreshment (settle),     *)
(* answer for the debt (PeerDebt) and take the outcome                     *)
(* (NotifyRefreshmentSent, NotifyRefreshmentReceived).                     *)
(*                                                                         *)
(* The payer runs Pay, the receiver one handler per request.  Time is      *)
(* counted in half seconds; code that works with Unix seconds halves it.   *)
(* The receiver's clock may be ahead.  Requests and answers take up to     *)
(* psc.delay; the receiver's entry of the peer, with its lock, is made     *)
(* anew when the peer reconnects.                                          *)
(***************************************************************************)
EXTENDS Integers, FiniteSets, FiniteSetsExt

CONSTANTS PseudoScenarios

\* rate: the refresh rate; skew: how far the receiver's clock is ahead; delay:
\* the longest a request or an answer takes; end: the last instant; debt: the
\* debt the payer may run up; pays, losses, crashes, reconnects: their number
ASSUME PseudoAssumption ==
    \A s \in PseudoScenarios :
        /\ s.rate \in Nat \ {0}
        /\ {s.pays, s.skew, s.delay, s.end, s.debt, s.losses, s.crashes, s.reconnects} \subseteq Nat

VARIABLES
    now,        \* the instant
    pay,        \* the payer's Pay: see NoPay
    sent,       \* the payer's last payment: [stamp, check, total]
    refreshed,  \* refreshTimestampMilliseconds, in half seconds
    fetched,    \* what the payer was served, by its own account
    settled,    \* what its accounting has subtracted from that
    handlers,   \* the receiver's handlers: [id, pc, gen, amount, stamp, since]
    got,        \* the receiver's last payment: [stamp, total]
    served,     \* what the receiver charged the payer, reserved debits included
    credited,   \* what its accounting has subtracted from that
    gen,        \* the receiver's entry of the peer: its number
    ban,        \* why the payer blocklisted the receiver
    overlap,    \* two handlers of the peer were past its lock (history)
    tries,      \* payments, losses, crashes and reconnects so far
    psc         \* the scenario

payerVars == <<pay, sent, refreshed, fetched, settled, ban>>
payeeVars == <<handlers, got, served, credited, gen, overlap>>
pseudoVars == <<now, payerVars, payeeVars, tries, psc>>

NoPay == [pc |-> "idle", id |-> 0, amount |-> 0, ack |-> 0, stamp |-> 0, since |-> 0]

\* Unix seconds on the payer's and on the receiver's clock
Second(t) == t \div 2

PeerSecond == (now + psc.skew) \div 2

PseudoInit ==
    /\ psc \in PseudoScenarios
    /\ now = 2
    /\ pay = NoPay
    /\ sent = [stamp |-> 0, check |-> 0, total |-> 0]
    /\ refreshed = 0
    /\ fetched = 0 /\ settled = 0 /\ served = 0 /\ credited = 0
    /\ handlers = {}
    /\ got = [stamp |-> 0, total |-> 0]
    /\ gen = 1
    /\ ban = "none"
    /\ overlap = FALSE
    /\ tries = [pays |-> 0, losses |-> 0, crashes |-> 0, reconnects |-> 0]

Tried(e) == [tries EXCEPT ![e] = @ + 1]

\* a request or an answer arrives within psc.delay
Late == \/ pay.pc = "acked" /\ now - pay.since >= psc.delay
        \/ \E h \in handlers : now - h.since >= psc.delay

Tick ==
    /\ now < psc.end /\ ~Late
    /\ now' = now + 1
    /\ UNCHANGED <<payerVars, payeeVars, tries, psc>>

\* the receiver reserves the price of what it serves before the payer gets it
Serve ==
    /\ served < psc.debt
    /\ served' = served + 1
    /\ UNCHANGED <<now, payerVars, handlers, got, credited, gen, overlap, tries, psc>>

Fetch ==
    /\ fetched < served
    /\ fetched' = fetched + 1
    /\ UNCHANGED <<now, pay, sent, refreshed, settled, ban, payeeVars, tries, psc>>

Debt == fetched - settled

PeerDebt == IF served - credited < 0 THEN 0 ELSE served - credited

-----------------------------------------------------------------------------
(* The payer                                                                *)

\* settle: at least one refresh rate of debt, the last refreshment finished at
\* least 1000 milliseconds ago, none going on
Due ==
    /\ Debt >= psc.rate
    /\ now - refreshed >= 2
    /\ pay.pc = "idle"

\* Pay reads its last payment, which nothing else changes, and sends the request
Pay ==
    /\ Due /\ ban = "none"
    /\ tries.pays < psc.pays
    /\ tries' = Tried("pays")
    /\ pay' = [NoPay EXCEPT !.pc = "asked", !.id = tries.pays + 1, !.amount = Debt]
    /\ handlers' = handlers \cup {[id |-> tries.pays + 1, pc |-> "waiting", gen |-> gen,
                                   amount |-> Debt, stamp |-> 0, since |-> now]}
    /\ UNCHANGED <<now, sent, refreshed, fetched, settled, ban, got, served, credited,
                   gen, overlap, psc>>

\* NotifyRefreshmentSent with an error: the peer is blocklisted
Failed(why) ==
    /\ pay' = NoPay
    /\ refreshed' = 0
    /\ ban' = why

\* five seconds pass, the connection breaks, or the receiver resets the stream
PayFails ==
    /\ pay.pc \in {"asked", "acked"}
    /\ tries.losses < psc.losses
    /\ tries' = Tried("losses")
    /\ Failed("lost")
    /\ UNCHANGED <<now, sent, fetched, settled, payeeVars, psc>>

Refused ==
    /\ pay.pc = "refused"
    /\ Failed("refused")
    /\ UNCHANGED <<now, sent, fetched, settled, payeeVars, tries, psc>>

AllegedInterval == pay.stamp - sent.stamp

OutOfSync ==
    \/ pay.ack > pay.amount
    \/ AllegedInterval < 0
    \/ pay.stamp - Second(now) \notin -2..2
    \/ (Second(now) - sent.check) - AllegedInterval \notin -3..3

PayOutOfSync ==
    /\ pay.pc = "acked" /\ OutOfSync
    /\ Failed("out of sync")
    /\ UNCHANGED <<now, sent, fetched, settled, payeeVars, tries, psc>>

\* the allowance accounting expects of the receiver
Expected == Min({AllegedInterval * psc.rate, pay.amount})

\* the payment is stored, then NotifyRefreshmentSent checks the allowance
PayAccepted ==
    /\ pay.pc = "acked" /\ ~OutOfSync
    /\ sent' = [stamp |-> pay.stamp, check |-> Second(now), total |-> sent.total + pay.ack]
    /\ pay' = NoPay
    /\ refreshed' = now
    /\ IF Expected > pay.ack
       THEN ban' = "below" /\ UNCHANGED settled
       ELSE settled' = settled + pay.ack /\ UNCHANGED ban
    /\ UNCHANGED <<now, fetched, payeeVars, tries, psc>>

\* the blocklisting ends and the peers connect again
Unban ==
    /\ ban # "none" /\ tries.reconnects < psc.reconnects
    /\ tries' = Tried("reconnects")
    /\ ban' = "none"
    /\ gen' = gen + 1
    /\ UNCHANGED <<now, pay, sent, refreshed, fetched, settled, handlers, got, served,
                   credited, overlap, psc>>

-----------------------------------------------------------------------------
(* The receiver                                                             *)

\* an entry in the peers map has a lock of its own
Locked(g) == \E h \in handlers : h.gen = g /\ h.pc # "waiting"

\* terminate and init: a new entry, with a new lock (a payment waiting for its
\* answer is PayFails, then Unban)
Reconnect ==
    /\ pay.pc # "asked"
    /\ tries.reconnects < psc.reconnects
    /\ tries' = Tried("reconnects")
    /\ gen' = gen + 1
    /\ UNCHANGED <<now, payerVars, handlers, got, served, credited, overlap, psc>>

\* the payer waits for the answer of this handler
Awaited(h) == pay.pc = "asked" /\ pay.id = h.id

\* ErrSettlementTooSoon
TooSoon(h) ==
    /\ h.pc = "waiting" /\ ~Locked(h.gen)
    /\ PeerSecond = got.stamp
    /\ handlers' = handlers \ {h}
    /\ pay' = IF Awaited(h) THEN [pay EXCEPT !.pc = "refused"] ELSE pay
    /\ UNCHANGED <<now, sent, refreshed, fetched, settled, ban, got, served, credited,
                   gen, overlap, tries, psc>>

\* seeded fault: time does not limit the allowance
AllowanceOfDebt == PeerDebt

\* peerAllowance: the time since the last payment or the debt, whichever is less
Allowance == Min({(PeerSecond - got.stamp) * psc.rate, PeerDebt})

Granted(h) == Max({0, Min({h.amount, Allowance})})

\* the answer is written; it may fail when nobody waits for it
Acknowledge(h) ==
    /\ h.pc = "waiting" /\ ~Locked(h.gen)
    /\ PeerSecond # got.stamp
    /\ \/ /\ handlers' = (handlers \ {h}) \cup
                {[h EXCEPT !.pc = "acked", !.amount = Granted(h), !.stamp = PeerSecond,
                           !.since = now]}
          /\ overlap' = (overlap \/ \E g \in handlers : g.pc # "waiting")
          /\ pay' = IF Awaited(h)
                    THEN [pay EXCEPT !.pc = "acked", !.ack = Granted(h),
                                     !.stamp = PeerSecond, !.since = now]
                    ELSE pay
       \/ /\ ~Awaited(h)
          /\ handlers' = handlers \ {h}
          /\ UNCHANGED <<pay, overlap>>
    /\ UNCHANGED <<now, sent, refreshed, fetched, settled, ban, got, served, credited,
                   gen, tries, psc>>

Store(h) ==
    /\ h.pc = "acked"
    /\ got' = [stamp |-> h.stamp, total |-> got.total + h.amount]
    /\ handlers' = (handlers \ {h}) \cup {[h EXCEPT !.pc = "stored"]}
    /\ UNCHANGED <<now, payerVars, served, credited, gen, overlap, tries, psc>>

NotifyReceived(h) ==
    /\ h.pc = "stored"
    /\ credited' = credited + h.amount
    /\ handlers' = handlers \ {h}
    /\ UNCHANGED <<now, payerVars, got, served, gen, overlap, tries, psc>>

\* the receiver restarts
PeerCrash ==
    /\ tries.crashes < psc.crashes
    /\ tries' = Tried("crashes")
    /\ handlers' = {}
    /\ pay' = IF pay.pc = "asked" THEN [pay EXCEPT !.pc = "refused"] ELSE pay
    /\ gen' = gen + 1
    /\ UNCHANGED <<now, sent, refreshed, fetched, settled, ban, got, served, credited,
                   overlap, psc>>

Handling(h) == TooSoon(h) \/ Acknowledge(h) \/ Store(h) \/ NotifyReceived(h)

PseudoNext ==
    \/ Tick \/ Serve \/ Fetch
    \/ Pay \/ PayFails \/ Refused \/ PayOutOfSync \/ PayAccepted \/ Unban
    \/ Reconnect \/ PeerCrash
    \/ \E h \in handlers : Handling(h)

PseudoSpec == PseudoInit /\ [][PseudoNext]_pseudoVars

-----------------------------------------------------------------------------
\* Types of the payer's and the receiver's records.
PseudoTypeOK ==
    /\ pay.pc \in {"idle", "asked", "acked", "refused"}
    /\ ban \in {"none", "lost", "refused", "out of sync", "below"}
    /\ sent.total \in Nat /\ got.total \in Nat /\ settled \in Nat /\ credited \in Nat
    /\ gen \in Nat \ {0}
    /\ \A h \in handlers : h.pc \in {"waiting", "acked", "stored"} /\ h.amount \in Nat

\* The receiver never forgives more than its rate times the time up to the last
\* payment (peerAllowance, the lock of pseudoSettlePeer), unless a reconnect let
\* two handlers of one peer run at the same time.
RateLimited == overlap \/ got.total <= got.stamp * psc.rate

\* The receiver never forgives more than the payer owes (peerAllowance takes the
\* smaller of the two), with the same exception.
NotOverpaid == overlap \/ credited <= served

\* An honest receiver is blocklisted only when an answer was lost or it crashed
\* before: not for answering too soon (settle waits a second), not for its clock,
\* not for an allowance below what the payer expects (NotifyRefreshmentSent).
HonestKept ==
    ban \in {"refused", "out of sync", "below"} => tries.losses + tries.crashes > 0

\* What the payer has settled the receiver has granted: stored, or about to be
\* (the answer is written before the payment is stored), unless it crashed.
SettledGranted ==
    tries.crashes > 0 \/
        sent.total <= got.total +
            MapThenSumSet(LAMBDA h : h.amount, {g \in handlers : g.pc = "acked"})

\* The receiver grants no more than time and debt allow, and the payer is credited what was
\* granted and is not cut off for paying on time (peerAllowance, settle), each with the
\* exceptions named above: overlapping handlers, lost answers, crashes.
RefreshSound == RateLimited /\ NotOverpaid /\ HonestKept /\ SettledGranted
=============================================================================
