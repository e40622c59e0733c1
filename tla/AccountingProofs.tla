-------------------------- MODULE AccountingProofs --------------------------
(* Machine-checked proofs about Accounting, for every value of its constants. *)
EXTENDS Accounting, SequenceTheorems, TLAPS

LEMMA DivNat ==
    ASSUME NEW a \in Nat, NEW b \in Nat \ {0}
    PROVE  a \div b \in Nat
  BY SMT

LEMMA MulNat ==
    ASSUME NEW a \in Nat, NEW b \in Nat
    PROVE  a * b \in Nat
  BY SMT

LEMMA PercentNat ==
    ASSUME NEW a \in Nat, NEW b \in Nat
    PROVE  PercentOf(a, b) \in Nat
  BY MulNat, DivNat DEF PercentOf

LEMMA DerivedConstants ==
    /\ MinimumPayment \in Nat
    /\ \A node \in {"full", "light"} :
         /\ RateFor(node) \in Nat
         /\ ThresholdFor(node) \in Nat
         /\ GrowStepFor(node) \in Nat
         /\ GrowChangeFor(node) \in Nat
    /\ \A t \in Nat : DisconnectLimitFor(t) \in Nat /\ PercentOf(100 - EarlyPayment, t) \in Nat
  <1>1. /\ MinimumPayment \in Nat /\ LightRefreshRate \in Nat
        /\ LightPaymentThreshold \in Nat
    BY RatesAssumption, DivNat DEF MinimumPayment, LightRefreshRate, LightPaymentThreshold
  <1>2. \A node \in {"full", "light"} : RateFor(node) \in Nat /\ ThresholdFor(node) \in Nat
    BY <1>1, RatesAssumption DEF RateFor, ThresholdFor
  <1>3. \A node \in {"full", "light"} : GrowStepFor(node) \in Nat /\ GrowChangeFor(node) \in Nat
    BY <1>2, MulNat, RatesAssumption DEF GrowStepFor, GrowChangeFor
  <1>4. 100 + PaymentTolerance \in Nat /\ 100 - EarlyPayment \in Nat
    BY RatesAssumption
  <1>5. \A t \in Nat : DisconnectLimitFor(t) \in Nat /\ PercentOf(100 - EarlyPayment, t) \in Nat
    BY <1>4, PercentNat DEF DisconnectLimitFor
  <1> QED BY <1>1, <1>2, <1>3, <1>5

\* The ongoing flags of p match the settlements running.
Flags(p, refs, pays) ==
    /\ Len(refs) = (IF p.refreshOngoing THEN 1 ELSE 0)
    /\ Len(pays) = (IF p.paymentOngoing THEN 1 ELSE 0)

LEMMA DebtTypes ==
    ASSUME NEW p \in AccountingPeer, NEW st \in Store, now \in Nat
    PROVE  /\ ShadowBalance(p, st) \in Int
           /\ PaymentAmount(p, st) \in Int
           /\ PaymentAmount(p, st) <= -st.originated
           /\ BlocklistUntil(p, st) \in Nat
           /\ StartsRefresh(p, st) \in BOOLEAN
           /\ StartsPayment(p, st) \in BOOLEAN
  <1>1. ShadowBalance(p, st) \in Int
    BY DEF ShadowBalance, AccountingPeer, Store
  <1>2. now - p.refreshTs \in Int /\ RefreshRate \in Int
    BY RatesAssumption DEF AccountingPeer
  <1>3. (now - p.refreshTs) * RefreshRate \in Int
    BY <1>2
  <1>4. PaymentAmount(p, st) \in Int /\ PaymentAmount(p, st) <= -st.originated
    BY <1>3 DEF PaymentAmount, Lesser, AccountingPeer, Store
  <1>5. Greater(PeerLatentDebt(p, st), RefreshRate) + PaymentThreshold \in Nat
    BY RatesAssumption DEF PeerLatentDebt, Greater, AccountingPeer, Store
  <1>6. BlocklistUntil(p, st) \in Nat
    BY <1>5, DivNat, RatesAssumption DEF BlocklistUntil
  <1>7. StartsRefresh(p, st) \in BOOLEAN /\ StartsPayment(p, st) \in BOOLEAN
    BY DEF StartsRefresh, StartsPayment
  <1> QED BY <1>1, <1>4, <1>6, <1>7

LEMMA BanType ==
    ASSUME NEW p \in AccountingPeer, NEW st \in Store, now \in Nat,
           NEW reason \in {"overdraw", "ghost", "refresh", "allowance", "disconnect"}
    PROVE  Blocklist(p, st, reason) \in Ban
  BY DebtTypes DEF Blocklist, Ban

\* What a step that settles (or does not) leaves, when it starts from the peer
\* record p and the store st: well-typed records, exact flags, the limits
\* untouched, and no payment above the originated debt.
Outcome(r, p, st) ==
    /\ r.peer \in AccountingPeer
    /\ r.refreshes \in Seq(Nat)
    /\ r.payments \in Seq(Nat)
    /\ Flags(r.peer, r.refreshes, r.payments)
    /\ r.peer.disconnectLimit = p.disconnectLimit
    /\ r.peer.thresholdForPeer = p.thresholdForPeer
    /\ \A bound \in Int :
         (/\ -st.originated <= bound
          /\ p.paymentOngoing => payments[1] <= bound)
         => (r.peer.paymentOngoing => r.payments[1] <= bound)

LEMMA NoSettleLemma ==
    ASSUME NEW p \in AccountingPeer, NEW st \in Store,
           refreshes \in Seq(Nat), payments \in Seq(Nat), Flags(p, refreshes, payments)
    PROVE  Outcome(NoSettle(p), p, st)
  BY DEF Outcome, NoSettle

LEMMA SettleLemma ==
    ASSUME NEW p \in AccountingPeer, NEW st \in Store, now \in Nat,
           refreshes \in Seq(Nat), payments \in Seq(Nat), Flags(p, refreshes, payments)
    PROVE  Outcome(Settle(p, st), p, st)
  <1> DEFINE sr == StartsRefresh(p, st)
  <1> DEFINE sp == StartsPayment(p, st)
  <1> DEFINE sb == ShadowBalance(p, st)
  <1> DEFINE pa == PaymentAmount(p, st)
  <1> DEFINE q == Settle(p, st).peer
  <1> DEFINE rs == Settle(p, st).refreshes
  <1> DEFINE ps == Settle(p, st).payments
  <1>1. /\ sb \in Int /\ pa \in Int /\ pa <= -st.originated
        /\ sr \in BOOLEAN /\ sp \in BOOLEAN
    BY DebtTypes
  <1>2. sr => sb \in Nat /\ ~p.refreshOngoing
    BY <1>1, RatesAssumption DEF StartsRefresh
  <1>3. sp => pa \in Nat /\ ~p.paymentOngoing
    BY <1>1, DerivedConstants DEF StartsPayment
  <1>4. q = [p EXCEPT !.refreshOngoing = p.refreshOngoing \/ sr,
                      !.paymentOngoing = p.paymentOngoing \/ sp,
                      !.shadow = IF sp THEN p.shadow + pa ELSE p.shadow,
                      !.refreshReserved = IF sp /\ (p.refreshOngoing \/ sr)
                                          THEN p.refreshReserved + pa
                                          ELSE p.refreshReserved]
    BY DEF Settle, AccountingPeer
  <1>5. /\ rs = IF sr THEN Append(refreshes, sb) ELSE refreshes
        /\ ps = IF sp THEN Append(payments, pa) ELSE payments
    BY DEF Settle
  <1> HIDE DEF q, sr, sp, sb, pa, rs, ps
  <1>6. q \in AccountingPeer
    <2>1. /\ (p.refreshOngoing \/ sr) \in BOOLEAN
          /\ (p.paymentOngoing \/ sp) \in BOOLEAN
      OBVIOUS
    <2>2. /\ (IF sp THEN p.shadow + pa ELSE p.shadow) \in Int
          /\ (IF sp /\ (p.refreshOngoing \/ sr) THEN p.refreshReserved + pa
              ELSE p.refreshReserved) \in Int
      BY <1>1, SMTT(20) DEF AccountingPeer
    <2> QED BY <2>1, <2>2, <1>4, ZenonT(60) DEF AccountingPeer
  <1>7. rs \in Seq(Nat) /\ ps \in Seq(Nat)
    BY <1>1, <1>2, <1>3, <1>5
  <1>8. /\ q.refreshOngoing <=> (p.refreshOngoing \/ sr)
        /\ q.paymentOngoing <=> (p.paymentOngoing \/ sp)
        /\ q.disconnectLimit = p.disconnectLimit
        /\ q.thresholdForPeer = p.thresholdForPeer
    BY <1>1, <1>4 DEF AccountingPeer
  <1>9. /\ Len(rs) = IF sr THEN Len(refreshes) + 1 ELSE Len(refreshes)
        /\ Len(ps) = IF sp THEN Len(payments) + 1 ELSE Len(payments)
    BY <1>1, <1>2, <1>3, <1>5
  <1>10. Flags(q, rs, ps)
    <2>1. Len(rs) = (IF q.refreshOngoing THEN 1 ELSE 0)
      <3>1. CASE sr
        BY <3>1, <1>2, <1>8, <1>9 DEF Flags
      <3>2. CASE ~sr
        BY <3>2, <1>8, <1>9 DEF Flags
      <3> QED BY <3>1, <3>2
    <2>2. Len(ps) = (IF q.paymentOngoing THEN 1 ELSE 0)
      <3>1. CASE sp
        BY <3>1, <1>3, <1>8, <1>9 DEF Flags
      <3>2. CASE ~sp
        BY <3>2, <1>8, <1>9 DEF Flags
      <3> QED BY <3>1, <3>2
    <2> QED BY <2>1, <2>2 DEF Flags
  <1>11. ASSUME NEW bound \in Int, -st.originated <= bound,
                p.paymentOngoing => payments[1] <= bound, q.paymentOngoing
         PROVE  ps[1] <= bound
    <2>1. CASE sp
      <3>1. ps = Append(payments, pa) /\ Len(payments) = 0
        BY <2>1, <1>3, <1>5 DEF Flags
      <3>2. ps[1] = pa
        BY <3>1, <1>1
      <3> QED BY <3>2, <1>1, <1>11 DEF Store
    <2>2. CASE ~sp
      BY <2>2, <1>5, <1>8, <1>11
    <2> QED BY <2>1, <2>2
  <1>12. /\ Settle(p, st).peer = q
         /\ Settle(p, st).refreshes = rs
         /\ Settle(p, st).payments = ps
    BY DEF q, rs, ps
  <1> QED BY <1>6, <1>7, <1>8, <1>10, <1>11, <1>12 DEF Outcome

LEMMA WithoutLemma ==
    ASSUME NEW seq \in Seq(Nat), NEW i \in 1..Len(seq)
    PROVE  /\ Without(seq, i) \in Seq(Nat)
           /\ Len(Without(seq, i)) = Len(seq) - 1
           /\ seq[i] \in Nat
  <1>1. Len(seq) \in Nat /\ \A j \in 1..Len(seq) : seq[j] \in Nat
    BY LenProperties, ElementOfSeq
  <1>2. /\ SubSeq(seq, 1, i - 1) \in Seq(Nat)
        /\ Len(SubSeq(seq, 1, i - 1)) = i - 1
    <2>1. 1 \in Int /\ i - 1 \in Int /\ \A j \in 1..(i - 1) : seq[j] \in Nat
      BY <1>1
    <2> QED BY <2>1, SubSeqProperties
  <1>3. /\ SubSeq(seq, i + 1, Len(seq)) \in Seq(Nat)
        /\ Len(SubSeq(seq, i + 1, Len(seq))) = Len(seq) - i
    <2>1. i + 1 \in Int /\ Len(seq) \in Int /\ \A j \in (i + 1)..Len(seq) : seq[j] \in Nat
      BY <1>1
    <2> QED BY <2>1, SubSeqProperties
  <1>4. ASSUME NEW a \in Seq(Nat), NEW b \in Seq(Nat)
        PROVE  a \o b \in Seq(Nat) /\ Len(a \o b) = Len(a) + Len(b)
    BY ConcatProperties
  <1>5. /\ Without(seq, i) \in Seq(Nat)
        /\ Len(Without(seq, i)) =
             Len(SubSeq(seq, 1, i - 1)) + Len(SubSeq(seq, i + 1, Len(seq)))
    BY <1>2, <1>3, <1>4, Zenon DEF Without
  <1>6. Len(Without(seq, i)) = (i - 1) + (Len(seq) - i)
    BY <1>2, <1>3, <1>5, Zenon
  <1>7. Without(seq, i) \in Seq(Nat)
    BY <1>5
  <1> QED BY <1>1, <1>6, <1>7

LEMMA RepaidLemma ==
    ASSUME NEW p \in AccountingPeer, NEW amount \in Nat,
           p.disconnectLimit = DisconnectLimitFor(p.thresholdForPeer)
    PROVE  LET q == Repaid(p, amount) IN
           /\ q \in AccountingPeer
           /\ q.disconnectLimit = DisconnectLimitFor(q.thresholdForPeer)
           /\ q.refreshOngoing = p.refreshOngoing
           /\ q.paymentOngoing = p.paymentOngoing
  <1> DEFINE r == [p EXCEPT !.totalDebtRepay = p.totalDebtRepay + amount]
  <1> DEFINE t == r.thresholdForPeer + RateFor(r.node)
  <1> DEFINE g == IF r.growAt >= GrowChangeFor(r.node) THEN r.growAt * 2
                  ELSE r.growAt + GrowStepFor(r.node)
  <1>1. /\ r \in AccountingPeer
        /\ r.disconnectLimit = DisconnectLimitFor(r.thresholdForPeer)
        /\ r.refreshOngoing = p.refreshOngoing
        /\ r.paymentOngoing = p.paymentOngoing
    BY DEF AccountingPeer
  <1>2. t \in Nat /\ g \in Nat /\ DisconnectLimitFor(t) \in Nat
    BY <1>1, DerivedConstants DEF AccountingPeer
  <1>3. Repaid(p, amount) =
          IF r.totalDebtRepay > r.growAt
          THEN [r EXCEPT !.growAt = g, !.thresholdForPeer = t,
                         !.disconnectLimit = DisconnectLimitFor(t)]
          ELSE r
    BY <1>1 DEF Repaid, Upgraded, AccountingPeer
  <1> HIDE DEF r, t, g
  <1>4. CASE r.totalDebtRepay > r.growAt
    <2> DEFINE q == Repaid(p, amount)
    <2>1. q = [r EXCEPT !.growAt = g, !.thresholdForPeer = t,
                        !.disconnectLimit = DisconnectLimitFor(t)]
      BY <1>3, <1>4
    <2> HIDE DEF q
    <2>2. /\ q \in AccountingPeer
          /\ q.disconnectLimit = DisconnectLimitFor(t) /\ q.thresholdForPeer = t
          /\ q.refreshOngoing = r.refreshOngoing
          /\ q.paymentOngoing = r.paymentOngoing
      BY <2>1, <1>1, <1>2 DEF AccountingPeer
    <2> QED BY <2>2, <1>1 DEF q
  <1>5. CASE ~(r.totalDebtRepay > r.growAt)
    BY <1>1, <1>3, <1>5
  <1> QED BY <1>4, <1>5

\* The part of the inductive invariant that PaidOnlyForOriginated needs: the
\* originated balance has kept every originated credit that was not yet paid,
\* and the payment in flight fits into what is unpaid.
OriginatedKept ==
    h.faults = 0 =>
        /\ h.paid <= h.originated
        /\ store.originated >= h.paid - h.originated
        /\ peer.paymentOngoing => payments[1] <= h.originated - h.paid

IInv ==
    /\ TypeOK
    /\ OneSettlement
    /\ CompensatedLedger
    /\ LimitFollowsThreshold
    /\ OriginatedKept

LEMMA NewPeerType == NewPeer \in AccountingPeer
  <1>1. /\ PercentOf(100 - EarlyPayment, PaymentThreshold) \in Nat
        /\ DisconnectLimitFor(PaymentThreshold) \in Nat
        /\ GrowStepFor("full") \in Nat
        /\ PaymentThreshold \in Nat
    BY DerivedConstants, RatesAssumption
  <1> QED BY <1>1 DEF NewPeer, AccountingPeer

LEMMA InitIInv == Init => IInv
  <1> SUFFICES ASSUME Init PROVE IInv
    OBVIOUS
  <1> USE DEF Init
  <1>2. TypeOK
    BY NewPeerType, RatesAssumption DEF TypeOK, Store, Action, NoAction, Ban, NoBan, History
  <1>3. OneSettlement /\ LimitFollowsThreshold
    BY DEF OneSettlement, LimitFollowsThreshold, NewPeer
  <1>4. CompensatedLedger /\ OriginatedKept
    BY DEF CompensatedLedger, OriginatedKept, NewPeer
  <1> QED BY <1>2, <1>3, <1>4 DEF IInv

\* Facts about a state that every action below starts from.
LEMMA Start_ ==
    ASSUME IInv
    PROVE  /\ peer \in AccountingPeer /\ store \in Store /\ now \in Nat
           /\ actions \in [Slots -> Action] /\ ban \in Ban /\ h \in History
           /\ refreshes \in Seq(Nat) /\ payments \in Seq(Nat)
           /\ Flags(peer, refreshes, payments)
           /\ CompensatedLedger /\ OriginatedKept
           /\ peer.disconnectLimit = DisconnectLimitFor(peer.thresholdForPeer)
  BY DEF IInv, TypeOK, OneSettlement, Flags, LimitFollowsThreshold

\* How an action may change a state without leaving IInv.
LEMMA Preserve ==
    ASSUME TypeOK', Flags(peer', refreshes', payments'),
           peer'.disconnectLimit = DisconnectLimitFor(peer'.thresholdForPeer),
           CompensatedLedger', OriginatedKept'
    PROVE  IInv'
  BY DEF IInv, OneSettlement, Flags, LimitFollowsThreshold

\* OriginatedKept survives a step that settles: r is what settle left, p and
\* st what it started from, paid and orig the history after the step.
LEMMA OutcomeKept ==
    ASSUME NEW r, NEW p \in AccountingPeer, NEW st \in Store, Outcome(r, p, st),
           NEW paid \in Nat, NEW orig \in Nat,
           st.originated >= paid - orig,
           p.paymentOngoing => payments[1] <= orig - paid
    PROVE  r.peer.paymentOngoing => r.payments[1] <= orig - paid
  <1>1. orig - paid \in Int /\ -st.originated <= orig - paid
    BY DEF Store
  <1> QED BY <1>1 DEF Outcome

LEMMA PrepareCreditIInv ==
    ASSUME IInv, NEW s \in Slots, NEW a \in Credits, PrepareCredit(s, a)
    PROVE  IInv'
  <1> DEFINE r == EarlySettle(a.price)
  <1>0. a.price \in Nat /\ a \in Action
    BY InputsAssumption DEF Credits, Action
  <1>1. peer' = [r.peer EXCEPT !.reserved = r.peer.reserved + a.price]
    BY DEF PrepareCredit
  <1>2. /\ refreshes' = r.refreshes /\ payments' = r.payments
        /\ store' = store /\ now' = now /\ ban' = ban
    BY DEF PrepareCredit
  <1>3. actions' = [actions EXCEPT ![s] = a]
    BY DEF PrepareCredit
  <1>h. h' = [h EXCEPT !.prepared = h.prepared + 1]
    BY DEF PrepareCredit
  <1>4. Outcome(r, peer, store)
    BY Start_, SettleLemma, NoSettleLemma DEF EarlySettle
  <1> HIDE DEF r
  <1>5. r.peer \in AccountingPeer
    BY <1>4 DEF Outcome
  <1>6. /\ peer' \in AccountingPeer
        /\ peer'.refreshOngoing = r.peer.refreshOngoing
        /\ peer'.paymentOngoing = r.peer.paymentOngoing
        /\ peer'.disconnectLimit = r.peer.disconnectLimit
        /\ peer'.thresholdForPeer = r.peer.thresholdForPeer
    BY <1>0, <1>1, <1>5 DEF AccountingPeer
  <1>7. h' \in History /\ h'.faults = h.faults /\ h'.ledger = h.ledger
        /\ h'.paid = h.paid /\ h'.originated = h.originated
    <2>1. h \in History
      BY Start_
    <2> QED BY <2>1, <1>h DEF History
  <1>8. actions' \in [Slots -> Action]
    BY <1>0, <1>3, Start_
  <1>9. TypeOK'
    BY <1>2, <1>4, <1>6, <1>7, <1>8, Start_ DEF TypeOK, Outcome
  <1>10. /\ Flags(peer', refreshes', payments')
         /\ peer'.disconnectLimit = DisconnectLimitFor(peer'.thresholdForPeer)
    BY <1>2, <1>4, <1>6, Start_ DEF Flags, Outcome
  <1>11. CompensatedLedger'
    BY <1>2, <1>7, Start_ DEF CompensatedLedger
  <1>12. OriginatedKept'
    <2> SUFFICES ASSUME h.faults = 0
                 PROVE  /\ store'.originated >= h'.paid - h'.originated
                        /\ peer'.paymentOngoing => payments'[1] <= h'.originated - h'.paid
      BY <1>7, Start_ DEF OriginatedKept
    <2>1. /\ store.originated >= h.paid - h.originated
          /\ peer.paymentOngoing => payments[1] <= h.originated - h.paid
          /\ h.paid \in Nat /\ h.originated \in Nat
      BY Start_ DEF OriginatedKept, History
    <2>2. r.peer.paymentOngoing => r.payments[1] <= h.originated - h.paid
      BY <2>1, <1>4, Start_, OutcomeKept
    <2> QED BY <2>1, <2>2, <1>2, <1>6, <1>7
  <1> QED BY <1>9, <1>10, <1>11, <1>12, Preserve

\* The payment that is being sent, while no write has failed.
LEMMA PaymentInFlight ==
    ASSUME IInv, h.faults = 0, peer.paymentOngoing
    PROVE  payments[1] <= h.originated - h.paid /\ payments[1] \in Nat
  <1>1. Len(payments) = 1 /\ payments \in Seq(Nat)
    BY Start_ DEF Flags
  <1>2. 1 \in 1..Len(payments)
    BY <1>1
  <1>3. payments[1] \in Nat
    BY <1>1, <1>2, ElementOfSeq
  <1> QED BY <1>3, Start_ DEF OriginatedKept

\* A step that starts and ends no settlement keeps IInv if it keeps the types,
\* the flags and the limit and, unless a write failed, balances the books.
LEMMA QuietStep ==
    ASSUME IInv, TypeOK', refreshes' = refreshes, payments' = payments,
           peer'.refreshOngoing = peer.refreshOngoing,
           peer'.paymentOngoing = peer.paymentOngoing,
           peer'.disconnectLimit = DisconnectLimitFor(peer'.thresholdForPeer),
           h'.faults = 0 =>
             /\ h.faults = 0
             /\ store'.balance - store'.surplus = h'.ledger
             /\ store'.originated >= h'.paid - h'.originated
             /\ h.originated - h.paid <= h'.originated - h'.paid
    PROVE  IInv'
  <1>1. Flags(peer', refreshes', payments')
    BY Start_ DEF Flags
  <1>2. CompensatedLedger'
    BY DEF CompensatedLedger
  <1>3. OriginatedKept'
    <2> SUFFICES ASSUME h'.faults = 0
                 PROVE  /\ h'.paid <= h'.originated
                        /\ peer'.paymentOngoing => payments'[1] <= h'.originated - h'.paid
      BY DEF OriginatedKept
    <2>1. peer'.paymentOngoing =>
            payments[1] <= h.originated - h.paid /\ payments[1] \in Nat
      BY PaymentInFlight
    <2>2. h.paid <= h.originated
      BY Start_ DEF OriginatedKept
    <2>3. /\ h.originated \in Nat /\ h.paid \in Nat
          /\ h'.originated \in Nat /\ h'.paid \in Nat
      <3>1. h \in History /\ h' \in History
        BY Start_ DEF TypeOK
      <3> QED BY <3>1 DEF History
    <2>4. h'.paid <= h'.originated
      BY <2>2, <2>3
    <2>5. peer'.paymentOngoing => payments'[1] <= h'.originated - h'.paid
      BY <2>1, <2>3
    <2> QED BY <2>4, <2>5
  <1> QED BY <1>1, <1>2, <1>3, Preserve

\* What the books say before a step, when no write has failed.
LEMMA Books ==
    ASSUME IInv
    PROVE  /\ h.faults \in Nat /\ h.ledger \in Int /\ h.paid \in Nat
           /\ h.originated \in Nat /\ h.received \in Nat
           /\ store.balance \in Int /\ store.surplus \in Nat /\ store.originated \in Int
           /\ h.faults = 0 =>
                /\ store.balance - store.surplus = h.ledger
                /\ store.originated >= h.paid - h.originated
                /\ h.paid <= h.originated
  <1>1. h \in History /\ store \in Store
    BY Start_
  <1>2. /\ h.faults \in Nat /\ h.ledger \in Int /\ h.paid \in Nat
        /\ h.originated \in Nat /\ h.received \in Nat
    BY <1>1 DEF History
  <1>3. store.balance \in Int /\ store.surplus \in Nat /\ store.originated \in Int
    BY <1>1 DEF Store
  <1> QED BY <1>2, <1>3, Start_ DEF CompensatedLedger, OriginatedKept

LEMMA FaultedLemma ==
    ASSUME NEW hist \in History, NEW k \in Nat
    PROVE  LET g == Faulted(hist, k) IN
           /\ g \in History
           /\ g.ledger = hist.ledger /\ g.paid = hist.paid
           /\ g.originated = hist.originated
           /\ g.faults = 0 => k = 0 /\ hist.faults = 0
  BY DEF Faulted, History

LEMMA PrepareCreditRefusedIInv ==
    ASSUME IInv, NEW price \in Prices, PrepareCreditRefused(price)
    PROVE  IInv'
  <1> DEFINE r == EarlySettle(price)
  <1>1. /\ peer' = r.peer /\ refreshes' = r.refreshes /\ payments' = r.payments
        /\ store' = store /\ now' = now /\ ban' = ban /\ actions' = actions /\ h' = h
    BY DEF PrepareCreditRefused
  <1>2. Outcome(r, peer, store)
    BY Start_, SettleLemma, NoSettleLemma DEF EarlySettle
  <1> HIDE DEF r
  <1>3. TypeOK'
    BY <1>1, <1>2, Start_ DEF TypeOK, Outcome
  <1>4. /\ Flags(peer', refreshes', payments')
        /\ peer'.disconnectLimit = DisconnectLimitFor(peer'.thresholdForPeer)
    BY <1>1, <1>2, Start_ DEF Outcome
  <1>5. CompensatedLedger'
    BY <1>1, Start_ DEF CompensatedLedger
  <1>6. OriginatedKept'
    <2> SUFFICES ASSUME h.faults = 0
                 PROVE  /\ store.originated >= h.paid - h.originated
                        /\ peer'.paymentOngoing => payments'[1] <= h.originated - h.paid
      BY <1>1, Start_ DEF OriginatedKept
    <2>1. peer.paymentOngoing => payments[1] <= h.originated - h.paid
      BY Start_ DEF OriginatedKept
    <2>2. r.peer.paymentOngoing => r.payments[1] <= h.originated - h.paid
      BY <2>1, <1>2, Start_, Books, OutcomeKept
    <2> QED BY <2>2, <1>1, Books
  <1> QED BY <1>3, <1>4, <1>5, <1>6, Preserve

LEMMA CreditApplyIInv ==
    ASSUME IInv, NEW s \in Slots, NEW fault \in {0, 2}, CreditApply(s, fault)
    PROVE  IInv'
  <1> DEFINE a == actions[s]
  <1> DEFINE p == [peer EXCEPT !.reserved = Released(peer.reserved, a.price)]
  <1> DEFINE st == CreditedStore(a, fault)
  <1> DEFINE g == [h EXCEPT !.ledger = h.ledger - a.price,
                            !.originated = IF a.originated THEN h.originated + a.price
                                           ELSE h.originated]
  <1> DEFINE r == IF fault = 0 /\ IncreasedExpectedDebt(peer, store, a.price) - peer.shadow
                                    > peer.earlyPayment
                  THEN Settle(p, st) ELSE NoSettle(p)
  <1>1. /\ peer' = r.peer /\ refreshes' = r.refreshes /\ payments' = r.payments
        /\ store' = st /\ now' = now /\ ban' = ban
    BY DEF CreditApply
  <1>2. h' = Faulted(g, fault)
    BY DEF CreditApply
  <1>3. actions' = [actions EXCEPT ![s] = NoAction]
    BY DEF CreditApply
  <1>4. a \in Action /\ a.price \in Nat /\ a.originated \in BOOLEAN
    BY Start_ DEF Action
  <1>5. peer \in AccountingPeer /\ h \in History /\ store \in Store
    BY Start_
  <1> DEFINE so == IF a.originated /\ fault # 2
                   THEN Greater(store.originated - a.price, Lesser(store.balance - a.price, 0))
                   ELSE store.originated
  <1>6. st = [store EXCEPT !.balance = store.balance - a.price, !.originated = so]
    BY <1>5 DEF CreditedStore, Store
  <1>so. so \in Int /\ (fault = 0 => so >= (IF a.originated THEN store.originated - a.price
                                            ELSE store.originated))
    BY <1>4, <1>5 DEF Greater, Lesser, Store
  <1> HIDE DEF a, st, r, p, g, so
  <1>7. /\ st \in Store
        /\ st.balance = store.balance - a.price /\ st.surplus = store.surplus
        /\ fault = 0 => st.originated >=
                          (IF a.originated THEN store.originated - a.price
                           ELSE store.originated)
    <2>1. so \in Int /\ store.balance - a.price \in Int
      BY <1>4, <1>5, <1>so DEF Store
    <2>2. /\ st \in Store /\ st.balance = store.balance - a.price
          /\ st.surplus = store.surplus /\ st.originated = so
      BY <2>1, <1>5, <1>6 DEF Store
    <2> QED BY <2>2, <1>so
  <1>8. /\ p \in AccountingPeer
        /\ p.refreshOngoing = peer.refreshOngoing /\ p.paymentOngoing = peer.paymentOngoing
        /\ p.disconnectLimit = peer.disconnectLimit
        /\ p.thresholdForPeer = peer.thresholdForPeer
    <2>1. peer.reserved \in Nat
      BY <1>5 DEF AccountingPeer
    <2>2. Released(peer.reserved, a.price) \in Nat
      BY <2>1, <1>4 DEF Released
    <2> QED BY <2>2, <1>5 DEF AccountingPeer, p
  <1>9. Flags(p, refreshes, payments)
    BY <1>8, Start_ DEF Flags
  <1>10. Outcome(r, p, st)
    BY <1>7, <1>8, <1>9, Start_, SettleLemma, NoSettleLemma DEF r
  <1>11. /\ g \in History /\ g.ledger = h.ledger - a.price /\ g.paid = h.paid
         /\ g.faults = h.faults
         /\ g.originated = IF a.originated THEN h.originated + a.price ELSE h.originated
    <2> DEFINE go == IF a.originated THEN h.originated + a.price ELSE h.originated
    <2>1. go \in Nat /\ h.ledger - a.price \in Int
      BY <1>4, <1>5 DEF History
    <2>2. g = [h EXCEPT !.ledger = h.ledger - a.price, !.originated = go]
      BY DEF g
    <2> HIDE DEF go
    <2>3. /\ g \in History /\ g.ledger = h.ledger - a.price /\ g.paid = h.paid
          /\ g.faults = h.faults /\ g.originated = go
      BY <2>1, <2>2, <1>5 DEF History
    <2> QED BY <2>3 DEF go
  <1>12. /\ h' \in History /\ h'.ledger = g.ledger /\ h'.paid = g.paid
         /\ h'.originated = g.originated
         /\ h'.faults = 0 => fault = 0 /\ g.faults = 0
    BY <1>2, <1>11, FaultedLemma
  <1>13. actions' \in [Slots -> Action]
    BY <1>3, Start_ DEF Action, NoAction
  <1>14. TypeOK'
    BY <1>1, <1>7, <1>10, <1>12, <1>13, Start_ DEF TypeOK, Outcome
  <1>15. /\ Flags(peer', refreshes', payments')
         /\ peer'.disconnectLimit = DisconnectLimitFor(peer'.thresholdForPeer)
    BY <1>1, <1>8, <1>10, Start_ DEF Outcome
  <1>16. CompensatedLedger'
    BY <1>1, <1>4, <1>7, <1>11, <1>12, Books DEF CompensatedLedger
  <1>17. OriginatedKept'
    <2> SUFFICES ASSUME h'.faults = 0
                 PROVE  /\ h'.paid <= h'.originated
                        /\ store'.originated >= h'.paid - h'.originated
                        /\ peer'.paymentOngoing => payments'[1] <= h'.originated - h'.paid
      BY DEF OriginatedKept
    <2>1. /\ h.faults = 0 /\ fault = 0 /\ h'.paid = h.paid
          /\ h'.originated \in Nat /\ h'.paid \in Nat
          /\ h'.originated = IF a.originated THEN h.originated + a.price ELSE h.originated
      BY <1>11, <1>12 DEF History
    <2>2. st.originated >= h'.paid - h'.originated
      <3>1. CASE a.originated
        BY <3>1, <2>1, <1>4, <1>7, Books DEF Store
      <3>2. CASE ~a.originated
        BY <3>2, <2>1, <1>4, <1>7, Books DEF Store
      <3> QED BY <3>1, <3>2
    <2>3. p.paymentOngoing => payments[1] <= h'.originated - h'.paid
      <3> SUFFICES ASSUME peer.paymentOngoing PROVE payments[1] <= h'.originated - h'.paid
        BY <1>8
      <3>1. payments[1] <= h.originated - h.paid /\ payments[1] \in Nat
        BY <2>1, PaymentInFlight
      <3>2. h.originated <= h'.originated
        BY <2>1, <1>4, Books
      <3> QED BY <3>1, <3>2, <2>1, Books
    <2>4. r.peer.paymentOngoing => r.payments[1] <= h'.originated - h'.paid
      BY <2>1, <2>2, <2>3, <1>7, <1>8, <1>10, OutcomeKept
    <2>5. h'.paid <= h'.originated
      <3>1. h.originated <= h'.originated
        BY <2>1, <1>4, Books
      <3>2. h.paid <= h.originated
        BY <2>1, Books
      <3> QED BY <3>1, <3>2, <2>1, Books
    <2> QED BY <2>2, <2>4, <2>5, <1>1
  <1> QED BY <1>14, <1>15, <1>16, <1>17, Preserve

LEMMA CreditApplyFailsIInv ==
    ASSUME IInv, NEW s \in Slots, CreditApplyFails(s)
    PROVE  IInv'
  <1>1. /\ peer' = peer /\ store' = store /\ now' = now /\ ban' = ban
        /\ refreshes' = refreshes /\ payments' = payments
    BY DEF CreditApplyFails
  <1>2. actions' = [actions EXCEPT ![s].failed = TRUE] /\ h' = Faulted(h, 1)
    BY DEF CreditApplyFails
  <1>3. actions' \in [Slots -> Action]
    BY <1>2, Start_ DEF Action
  <1>4. h' \in History /\ h'.faults # 0
    BY <1>2, Start_, FaultedLemma
  <1>5. TypeOK'
    BY <1>1, <1>3, <1>4, Start_ DEF TypeOK
  <1> QED BY <1>1, <1>4, <1>5, Start_, QuietStep

LEMMA CreditCleanupIInv ==
    ASSUME IInv, NEW s \in Slots, CreditCleanup(s)
    PROVE  IInv'
  <1> DEFINE n == Released(peer.reserved, actions[s].price)
  <1>1. /\ store' = store /\ now' = now /\ ban' = ban /\ h' = h
        /\ refreshes' = refreshes /\ payments' = payments
        /\ actions' = [actions EXCEPT ![s] = NoAction]
    BY DEF CreditCleanup
  <1>2. peer' = [peer EXCEPT !.reserved = n]
    BY DEF CreditCleanup
  <1>3. peer \in AccountingPeer /\ n \in Nat
    BY Start_, SMTT(20) DEF Released, AccountingPeer, Action
  <1> HIDE DEF n
  <1>4. /\ peer' \in AccountingPeer
        /\ peer'.refreshOngoing = peer.refreshOngoing
        /\ peer'.paymentOngoing = peer.paymentOngoing
        /\ peer'.disconnectLimit = peer.disconnectLimit
        /\ peer'.thresholdForPeer = peer.thresholdForPeer
    BY <1>2, <1>3 DEF AccountingPeer
  <1>5. actions' \in [Slots -> Action]
    BY <1>1, Start_ DEF Action, NoAction
  <1>6. TypeOK'
    BY <1>1, <1>4, <1>5, Start_ DEF TypeOK
  <1> QED BY <1>1, <1>4, <1>6, Start_, Books, QuietStep

LEMMA PrepareDebitIInv ==
    ASSUME IInv, NEW s \in Slots, NEW a \in Debits, PrepareDebit(s, a)
    PROVE  IInv'
  <1> DEFINE n == IF peer.refreshOngoing THEN peer.refreshReserved + a.price
                  ELSE peer.refreshReserved
  <1>1. /\ store' = store /\ now' = now /\ ban' = ban
        /\ refreshes' = refreshes /\ payments' = payments
    BY DEF PrepareDebit
  <1>2. actions' = [actions EXCEPT ![s] = a]
    BY DEF PrepareDebit
  <1>3. peer' = [peer EXCEPT !.shadow = peer.shadow + a.price, !.refreshReserved = n]
    BY DEF PrepareDebit
  <1>4. h' = [h EXCEPT !.prepared = h.prepared + 1]
    BY DEF PrepareDebit
  <1>5. a \in Action /\ a.price \in Nat
    BY InputsAssumption DEF Debits, Action
  <1>6. peer \in AccountingPeer /\ h \in History
    BY Start_
  <1>7. n \in Int /\ peer.shadow + a.price \in Int
    BY <1>5, <1>6 DEF AccountingPeer
  <1> HIDE DEF n
  <1>8. /\ peer' \in AccountingPeer
        /\ peer'.refreshOngoing = peer.refreshOngoing
        /\ peer'.paymentOngoing = peer.paymentOngoing
        /\ peer'.disconnectLimit = peer.disconnectLimit
        /\ peer'.thresholdForPeer = peer.thresholdForPeer
    BY <1>3, <1>6, <1>7 DEF AccountingPeer
  <1>9. /\ h' \in History /\ h'.faults = h.faults /\ h'.ledger = h.ledger
        /\ h'.paid = h.paid /\ h'.originated = h.originated
    BY <1>4, <1>6 DEF History
  <1>10. actions' \in [Slots -> Action]
    BY <1>2, <1>5, Start_
  <1>11. TypeOK'
    BY <1>1, <1>8, <1>9, <1>10, Start_ DEF TypeOK
  <1> QED BY <1>1, <1>8, <1>9, <1>11, Start_, Books, QuietStep

\* increaseBalance keeps the types and, without a failing write, takes the
\* price from the surplus first and never lowers the originated balance.
LEMMA IncreasedBalanceLemma ==
    ASSUME store \in Store, NEW price \in Nat, NEW fault \in Nat
    PROVE  LET st == IncreasedBalance(price, fault) IN
           /\ st \in Store
           /\ st.balance - st.surplus = store.balance - store.surplus + price
           /\ st.originated >= store.originated
  <1> DEFINE balance == store.balance + price - store.surplus
  <1> DEFINE so == IF fault = 3 THEN store.originated
                   ELSE DecreasedTo(store.originated, balance)
  <1> DEFINE st == IncreasedBalance(price, fault)
  <1>1. store.balance \in Int /\ store.surplus \in Nat /\ store.originated \in Int
    BY DEF Store
  <1>2. so \in Int /\ so >= store.originated
    BY <1>1 DEF DecreasedTo, Greater, Lesser
  <1>3. CASE store.surplus > 0 /\ store.surplus >= price
    <2>1. st = [store EXCEPT !.surplus = store.surplus - price]
      BY <1>3 DEF IncreasedBalance
    <2>2. store.surplus - price \in Nat
      BY <1>1, <1>3
    <2> HIDE DEF st
    <2>3. /\ st \in Store /\ st.balance = store.balance
          /\ st.surplus = store.surplus - price /\ st.originated = store.originated
      BY <2>1, <2>2 DEF Store
    <2> QED BY <2>3, <1>1 DEF st
  <1>4. CASE ~(store.surplus > 0 /\ store.surplus >= price)
    <2>1. st = [balance |-> balance, surplus |-> 0, originated |-> so]
      BY <1>4 DEF IncreasedBalance
    <2> HIDE DEF st, so
    <2>2. /\ st \in Store /\ st.balance = balance /\ st.surplus = 0 /\ st.originated = so
      BY <2>1, <1>1, <1>2 DEF Store
    <2> QED BY <2>2, <1>1, <1>2 DEF st
  <1> QED BY <1>3, <1>4

LEMMA DebitApplyIInv ==
    ASSUME IInv, NEW s \in Slots, NEW fault \in {0, 3}, DebitApply(s, fault)
    PROVE  IInv'
  <1> DEFINE a == actions[s]
  <1> DEFINE st == IncreasedBalance(a.price, fault)
  <1> DEFINE g == [h EXCEPT !.ledger = h.ledger + a.price]
  <1>1. /\ store' = st /\ now' = now
        /\ refreshes' = refreshes /\ payments' = payments
    BY DEF DebitApply
  <1>2. peer' = [peer EXCEPT !.shadow = peer.shadow - a.price]
    BY DEF DebitApply
  <1>3. h' = Faulted(g, fault)
    BY DEF DebitApply
  <1>4. actions' = [actions EXCEPT ![s] = NoAction]
    BY DEF DebitApply
  <1>5. ban' = ban \/ ban' = Blocklist(peer', st, "overdraw")
    BY <1>2 DEF DebitApply
  <1>6. a.price \in Nat /\ fault \in Nat
    BY Start_ DEF Action
  <1>7. peer \in AccountingPeer /\ h \in History /\ store \in Store /\ ban \in Ban /\ now \in Nat
    BY Start_
  <1>8. /\ st \in Store /\ st.originated >= store.originated
        /\ st.balance - st.surplus = store.balance - store.surplus + a.price
    BY <1>6, <1>7, IncreasedBalanceLemma
  <1> HIDE DEF a, st, g
  <1>9. /\ peer' \in AccountingPeer
        /\ peer'.refreshOngoing = peer.refreshOngoing
        /\ peer'.paymentOngoing = peer.paymentOngoing
        /\ peer'.disconnectLimit = peer.disconnectLimit
        /\ peer'.thresholdForPeer = peer.thresholdForPeer
    BY <1>2, <1>6, <1>7 DEF AccountingPeer
  <1>10. /\ g \in History /\ g.ledger = h.ledger + a.price /\ g.paid = h.paid
         /\ g.originated = h.originated /\ g.faults = h.faults
    BY <1>6, <1>7 DEF g, History
  <1>11. /\ h' \in History /\ h'.ledger = h.ledger + a.price /\ h'.paid = h.paid
         /\ h'.originated = h.originated
         /\ h'.faults = 0 => h.faults = 0
    BY <1>3, <1>6, <1>10, FaultedLemma
  <1>12. ban' \in Ban
    BY <1>5, <1>7, <1>8, <1>9, BanType
  <1>13. actions' \in [Slots -> Action]
    BY <1>4, Start_ DEF Action, NoAction
  <1>14. TypeOK'
    BY <1>1, <1>8, <1>9, <1>11, <1>12, <1>13, Start_ DEF TypeOK
  <1>15. h'.faults = 0 =>
           /\ h.faults = 0
           /\ store'.balance - store'.surplus = h'.ledger
           /\ store'.originated >= h'.paid - h'.originated
           /\ h.originated - h.paid <= h'.originated - h'.paid
    BY <1>1, <1>6, <1>8, <1>11, Books DEF Store
  <1> QED BY <1>1, <1>9, <1>14, <1>15, Start_, QuietStep

LEMMA DebitApplyFailsIInv ==
    ASSUME IInv, NEW s \in Slots, NEW fault \in {1, 2}, DebitApplyFails(s, fault)
    PROVE  IInv'
  <1>1. /\ peer' = peer /\ now' = now /\ ban' = ban
        /\ refreshes' = refreshes /\ payments' = payments
    BY DEF DebitApplyFails
  <1>2. store' = [store EXCEPT !.surplus = IF fault = 2 THEN 0 ELSE store.surplus]
    BY DEF DebitApplyFails
  <1>3. actions' = [actions EXCEPT ![s].failed = TRUE]
    BY DEF DebitApplyFails
  <1>4. h' = Faulted(h, fault)
    BY DEF DebitApplyFails
  <1>5. h' \in History /\ h'.faults # 0
    <2>1. h \in History /\ fault \in Nat /\ fault > 0
      BY Start_
    <2> QED BY <1>4, <2>1, FaultedLemma
  <1>6. store' \in Store
    <2>1. store \in Store
      BY Start_
    <2> QED BY <1>2, <2>1 DEF Store
  <1>7. actions' \in [Slots -> Action]
    BY <1>3, Start_ DEF Action
  <1>8. TypeOK'
    BY <1>1, <1>5, <1>6, <1>7, Start_ DEF TypeOK
  <1> QED BY <1>1, <1>5, <1>8, Start_, QuietStep

LEMMA DebitCleanupIInv ==
    ASSUME IInv, NEW s \in Slots, DebitCleanup(s)
    PROVE  IInv'
  <1> DEFINE price == actions[s].price
  <1>1. /\ store' = store /\ now' = now /\ h' = h
        /\ refreshes' = refreshes /\ payments' = payments
    BY DEF DebitCleanup
  <1>2. peer' = [peer EXCEPT !.shadow = peer.shadow - price, !.ghost = peer.ghost + price]
    BY DEF DebitCleanup
  <1>3. actions' = [actions EXCEPT ![s] = NoAction]
    BY DEF DebitCleanup
  <1>4. ban' = ban \/ ban' = Blocklist(peer', store, "ghost")
    BY <1>2 DEF DebitCleanup
  <1>5. price \in Nat
    BY Start_ DEF Action
  <1>6. peer \in AccountingPeer /\ store \in Store /\ ban \in Ban /\ now \in Nat
    BY Start_
  <1> HIDE DEF price
  <1>7. /\ peer' \in AccountingPeer
        /\ peer'.refreshOngoing = peer.refreshOngoing
        /\ peer'.paymentOngoing = peer.paymentOngoing
        /\ peer'.disconnectLimit = peer.disconnectLimit
        /\ peer'.thresholdForPeer = peer.thresholdForPeer
    <2>1. peer.shadow - price \in Int /\ peer.ghost + price \in Nat
      BY <1>5, <1>6 DEF AccountingPeer
    <2> QED BY <1>2, <2>1, <1>6 DEF AccountingPeer
  <1>8. ban' \in Ban
    BY <1>4, <1>6, <1>7, BanType
  <1>9. actions' \in [Slots -> Action]
    BY <1>3, Start_ DEF Action, NoAction
  <1>10. TypeOK'
    BY <1>1, <1>7, <1>8, <1>9, Start_ DEF TypeOK
  <1> QED BY <1>1, <1>7, <1>10, Start_, Books, QuietStep

\* The settlement a Notify handler ends is the only one of its kind.
LEMMA LastSettlement ==
    ASSUME IInv
    PROVE  /\ \A i \in 1..Len(payments) :
                /\ i = 1 /\ peer.paymentOngoing /\ payments[i] \in Nat
                /\ Without(payments, i) \in Seq(Nat) /\ Len(Without(payments, i)) = 0
           /\ \A i \in 1..Len(refreshes) :
                /\ Without(refreshes, i) \in Seq(Nat) /\ Len(Without(refreshes, i)) = 0
  <1>1. /\ payments \in Seq(Nat) /\ refreshes \in Seq(Nat)
        /\ Len(payments) = (IF peer.paymentOngoing THEN 1 ELSE 0)
        /\ Len(refreshes) = (IF peer.refreshOngoing THEN 1 ELSE 0)
    BY Start_ DEF Flags
  <1>2. ASSUME NEW i \in 1..Len(payments)
        PROVE  /\ i = 1 /\ peer.paymentOngoing /\ payments[i] \in Nat
               /\ Without(payments, i) \in Seq(Nat) /\ Len(Without(payments, i)) = 0
    <2>1. i = 1 /\ peer.paymentOngoing /\ Len(payments) = 1
      BY <1>1
    <2>2. /\ Without(payments, i) \in Seq(Nat) /\ payments[i] \in Nat
          /\ Len(Without(payments, i)) = Len(payments) - 1
      BY <1>1, WithoutLemma
    <2> QED BY <2>1, <2>2
  <1>3. ASSUME NEW i \in 1..Len(refreshes)
        PROVE  /\ Without(refreshes, i) \in Seq(Nat) /\ Len(Without(refreshes, i)) = 0
    <2>1. Len(refreshes) = 1
      BY <1>1
    <2>2. /\ Without(refreshes, i) \in Seq(Nat)
          /\ Len(Without(refreshes, i)) = Len(refreshes) - 1
      BY <1>1, WithoutLemma
    <2> QED BY <2>1, <2>2
  <1> QED BY <1>2, <1>3

LEMMA PaymentFailedIInv ==
    ASSUME IInv, NEW i \in 1..Len(payments), PaymentFailed(i)
    PROVE  IInv'
  <1> DEFINE amount == payments[i]
  <1>1. /\ store' = store /\ now' = now /\ actions' = actions /\ refreshes' = refreshes
        /\ ban' = ban /\ h' = h /\ payments' = Without(payments, i)
    BY DEF PaymentFailed
  <1>2. peer' = [peer EXCEPT !.paymentOngoing = FALSE, !.shadow = peer.shadow - amount,
                             !.lastFailure = now]
    BY DEF PaymentFailed
  <1>3. amount \in Nat /\ payments' \in Seq(Nat) /\ Len(payments') = 0
    BY <1>1, LastSettlement
  <1> HIDE DEF amount
  <1>4. /\ peer' \in AccountingPeer
        /\ peer'.refreshOngoing = peer.refreshOngoing
        /\ ~peer'.paymentOngoing
        /\ peer'.disconnectLimit = peer.disconnectLimit
        /\ peer'.thresholdForPeer = peer.thresholdForPeer
    <2>1. peer \in AccountingPeer /\ now \in Nat
      BY Start_
    <2>2. peer.shadow - amount \in Int
      BY <1>3, <2>1, SMTT(20) DEF AccountingPeer
    <2> QED BY <1>2, <2>1, <2>2, ZenonT(60) DEF AccountingPeer
  <1>5. TypeOK'
    BY <1>1, <1>3, <1>4, Start_ DEF TypeOK
  <1>6. Flags(peer', refreshes', payments')
    BY <1>1, <1>3, <1>4, Start_ DEF Flags
  <1>7. CompensatedLedger' /\ OriginatedKept'
    BY <1>1, <1>4, Books DEF CompensatedLedger, OriginatedKept
  <1> QED BY <1>4, <1>5, <1>6, <1>7, Start_, Preserve

LEMMA NotifyPaymentSentIInv ==
    ASSUME IInv, NEW i \in 1..Len(payments), NEW fault \in 0..2, NotifyPaymentSent(i, fault)
    PROVE  IInv'
  <1> DEFINE amount == payments[i]
  <1> DEFINE g == [h EXCEPT !.ledger = h.ledger + amount, !.paid = h.paid + amount]
  <1>1. /\ now' = now /\ actions' = actions /\ refreshes' = refreshes
        /\ ban' = ban /\ payments' = Without(payments, i)
    BY DEF NotifyPaymentSent
  <1>2. peer' = [peer EXCEPT !.paymentOngoing = FALSE, !.shadow = peer.shadow - amount]
    BY DEF NotifyPaymentSent
  <1>3. amount \in Nat /\ payments' \in Seq(Nat) /\ Len(payments') = 0
        /\ i = 1 /\ peer.paymentOngoing
    BY <1>1, LastSettlement
  <1>4. h' = Faulted(g, fault)
    BY DEF NotifyPaymentSent
  <1>5. store' = [store EXCEPT
                    !.balance = IF fault = 1 THEN store.balance ELSE store.balance + amount,
                    !.originated = IF fault # 0 THEN store.originated
                                   ELSE store.originated + amount]
    BY DEF NotifyPaymentSent
  <1>6. h.faults = 0 => amount <= h.originated - h.paid
    BY <1>3, PaymentInFlight
  <1> HIDE DEF amount, g
  <1>7. /\ peer' \in AccountingPeer
        /\ peer'.refreshOngoing = peer.refreshOngoing
        /\ ~peer'.paymentOngoing
        /\ peer'.disconnectLimit = peer.disconnectLimit
        /\ peer'.thresholdForPeer = peer.thresholdForPeer
    <2>1. peer \in AccountingPeer
      BY Start_
    <2>2. peer.shadow - amount \in Int
      BY <1>3, <2>1, SMTT(20) DEF AccountingPeer
    <2> QED BY <1>2, <2>1, <2>2 DEF AccountingPeer
  <1>8. /\ g \in History /\ g.ledger = h.ledger + amount /\ g.paid = h.paid + amount
        /\ g.originated = h.originated /\ g.faults = h.faults
    <2>1. h \in History
      BY Start_
    <2>2. h.ledger + amount \in Int /\ h.paid + amount \in Nat
      BY <1>3, <2>1 DEF History
    <2> QED BY <2>1, <2>2 DEF g, History
  <1>9. /\ h' \in History /\ h'.ledger = h.ledger + amount /\ h'.paid = h.paid + amount
        /\ h'.originated = h.originated
        /\ h'.faults = 0 => h.faults = 0 /\ fault = 0
    <2>1. fault \in Nat
      OBVIOUS
    <2> QED BY <1>4, <1>8, <2>1, FaultedLemma
  <1>10. /\ store' \in Store /\ store'.surplus = store.surplus
         /\ fault = 0 => /\ store'.balance = store.balance + amount
                         /\ store'.originated = store.originated + amount
    <2> DEFINE b == IF fault = 1 THEN store.balance ELSE store.balance + amount
    <2> DEFINE o == IF fault # 0 THEN store.originated ELSE store.originated + amount
    <2>1. store \in Store
      BY Start_
    <2>2. /\ b \in Int /\ o \in Int
          /\ fault = 0 => b = store.balance + amount /\ o = store.originated + amount
      BY <1>3, Books
    <2>3. store' = [store EXCEPT !.balance = b, !.originated = o]
      BY <1>5
    <2> HIDE DEF b, o
    <2>4. /\ store' \in Store /\ store'.surplus = store.surplus
          /\ store'.balance = b /\ store'.originated = o
      BY <2>1, <2>2, <2>3 DEF Store
    <2> QED BY <2>2, <2>4
  <1>11. TypeOK'
    BY <1>1, <1>3, <1>7, <1>9, <1>10, Start_ DEF TypeOK
  <1>12. Flags(peer', refreshes', payments')
    BY <1>1, <1>3, <1>7, Start_ DEF Flags
  <1>13. CompensatedLedger' /\ OriginatedKept'
    <2> SUFFICES ASSUME h'.faults = 0
                 PROVE  /\ store'.balance - store'.surplus = h'.ledger
                        /\ h'.paid <= h'.originated
                        /\ store'.originated >= h'.paid - h'.originated
      BY <1>7 DEF CompensatedLedger, OriginatedKept
    <2>1. h.faults = 0 /\ fault = 0
      BY <1>9
    <2>2. /\ store.balance - store.surplus = h.ledger
          /\ store.originated >= h.paid - h.originated
          /\ store.balance \in Int /\ store.surplus \in Nat /\ store.originated \in Int
          /\ h.ledger \in Int /\ h.paid \in Nat /\ h.originated \in Nat /\ amount \in Nat
      BY <2>1, <1>3, Books
    <2>3. /\ store'.balance = store.balance + amount /\ store'.surplus = store.surplus
          /\ store'.originated = store.originated + amount
          /\ h'.ledger = h.ledger + amount /\ h'.paid = h.paid + amount
          /\ h'.originated = h.originated
      BY <2>1, <1>9, <1>10
    <2>4. /\ (store.balance + amount) - store.surplus = h.ledger + amount
          /\ store.originated + amount >= (h.paid + amount) - h.originated
      <3>1. (store.balance + amount) - store.surplus = h.ledger + amount
        BY <2>2, SMTT(20)
      <3>2. store.originated + amount >= (h.paid + amount) - h.originated
        BY <2>2, SMTT(20)
      <3> QED BY <3>1, <3>2
    <2>5. h.paid + amount <= h.originated
      BY <2>1, <2>2, <1>6
    <2> QED BY <2>3, <2>4, <2>5, Zenon
  <1> QED BY <1>7, <1>11, <1>12, <1>13, Start_, Preserve

LEMMA RefreshmentFailedIInv ==
    ASSUME IInv, NEW i \in 1..Len(refreshes), NEW err, RefreshmentFailed(i, err)
    PROVE  IInv'
  <1>1. /\ store' = store /\ now' = now /\ actions' = actions /\ payments' = payments
        /\ h' = h /\ refreshes' = Without(refreshes, i)
    BY DEF RefreshmentFailed
  <1>2. peer' = [peer EXCEPT !.refreshOngoing = FALSE, !.refreshTs = 0]
    BY DEF RefreshmentFailed
  <1>3. ban' = ban \/ ban' = Blocklist(peer', store, "refresh")
    BY <1>2 DEF RefreshmentFailed
  <1>4. refreshes' \in Seq(Nat) /\ Len(refreshes') = 0
    BY <1>1, LastSettlement
  <1>5. /\ peer' \in AccountingPeer
        /\ peer'.paymentOngoing = peer.paymentOngoing
        /\ ~peer'.refreshOngoing
        /\ peer'.disconnectLimit = peer.disconnectLimit
        /\ peer'.thresholdForPeer = peer.thresholdForPeer
    <2>1. peer \in AccountingPeer
      BY Start_
    <2> QED BY <1>2, <2>1 DEF AccountingPeer
  <1>6. ban' \in Ban
    BY <1>3, <1>5, Start_, BanType
  <1>7. TypeOK'
    BY <1>1, <1>4, <1>5, <1>6, Start_ DEF TypeOK
  <1>8. Flags(peer', refreshes', payments')
    BY <1>1, <1>4, <1>5, Start_ DEF Flags
  <1>9. CompensatedLedger' /\ OriginatedKept'
    BY <1>1, <1>5, Start_ DEF CompensatedLedger, OriginatedKept
  <1> QED BY <1>5, <1>7, <1>8, <1>9, Start_, Preserve

LEMMA NotifyRefreshmentSentIInv ==
    ASSUME IInv, NEW i \in 1..Len(refreshes), NEW amount \in Accepted,
           NEW interval \in Intervals, NEW fault \in 0..2,
           NotifyRefreshmentSent(i, amount, interval, fault)
    PROVE  IInv'
  <1> DEFINE met == amount >= ExpectedAllowance(peer, refreshes[i], interval)
  <1> DEFINE balance == store.balance + amount
  <1> DEFINE so == IF fault = 2 THEN store.originated ELSE DecreasedTo(store.originated, balance)
  <1> DEFINE credited == [store EXCEPT !.balance = balance, !.originated = so]
  <1> DEFINE hl == IF met THEN h.ledger + amount ELSE h.ledger
  <1> DEFINE g == [h EXCEPT !.ledger = hl]
  <1>1. /\ now' = now /\ actions' = actions /\ payments' = payments
        /\ refreshes' = Without(refreshes, i)
    BY DEF NotifyRefreshmentSent
  <1>2. peer' = [peer EXCEPT !.refreshOngoing = FALSE, !.refreshTs = now,
                             !.refreshReserved = 0]
    BY DEF NotifyRefreshmentSent
  <1>3. store' = IF met /\ fault # 1 THEN credited ELSE store
    BY DEF NotifyRefreshmentSent
  <1>4. ban' = ban \/ ban' = Blocklist(peer', store, "allowance")
    BY <1>2 DEF NotifyRefreshmentSent
  <1>5. h' = Faulted(g, fault)
    BY DEF NotifyRefreshmentSent
  <1>6. amount \in Nat /\ fault \in Nat
    BY InputsAssumption
  <1>7. /\ balance \in Int /\ so \in Int /\ so >= store.originated /\ hl \in Int
    <2>1. balance \in Int /\ h.ledger + amount \in Int /\ h.ledger \in Int
      BY <1>6, Books
    <2>2. hl \in Int
      BY <2>1
    <2> HIDE DEF balance
    <2>3. so \in Int /\ so >= store.originated
      BY <2>1, Books DEF DecreasedTo, Greater, Lesser
    <2> QED BY <2>1, <2>2, <2>3
  <1>8. refreshes' \in Seq(Nat) /\ Len(refreshes') = 0
    BY <1>1, LastSettlement
  <1>9. met => hl = h.ledger + amount
    OBVIOUS
  <1>10. ~met => hl = h.ledger
    OBVIOUS
  <1>11. balance = store.balance + amount
    OBVIOUS
  <1> HIDE DEF met, balance, so, hl
  <1>12. /\ peer' \in AccountingPeer
         /\ peer'.paymentOngoing = peer.paymentOngoing
         /\ ~peer'.refreshOngoing
         /\ peer'.disconnectLimit = peer.disconnectLimit
         /\ peer'.thresholdForPeer = peer.thresholdForPeer
    <2> DEFINE q == [peer EXCEPT !.refreshOngoing = FALSE, !.refreshReserved = 0]
    <2>1. peer \in AccountingPeer /\ now \in Nat /\ 0 \in Int
      BY Start_
    <2>2. peer' = [q EXCEPT !.refreshTs = now]
      BY <1>2, <2>1 DEF AccountingPeer
    <2>3. /\ q \in AccountingPeer
          /\ q.paymentOngoing = peer.paymentOngoing
          /\ ~q.refreshOngoing
          /\ q.disconnectLimit = peer.disconnectLimit
          /\ q.thresholdForPeer = peer.thresholdForPeer
      BY <2>1 DEF AccountingPeer
    <2> HIDE DEF q
    <2> QED BY <2>1, <2>2, <2>3 DEF AccountingPeer
  <1>13. /\ credited \in Store /\ credited.balance = balance
         /\ credited.originated = so /\ credited.surplus = store.surplus
    <2>1. store \in Store
      BY Start_
    <2> QED BY <1>7, <2>1 DEF Store
  <1>14. /\ g \in History /\ g.ledger = hl /\ g.paid = h.paid
         /\ g.originated = h.originated /\ g.faults = h.faults
    <2>1. h \in History
      BY Start_
    <2> QED BY <1>7, <2>1 DEF History
  <1> HIDE DEF credited, g
  <1>15. /\ h' \in History /\ h'.ledger = hl /\ h'.paid = h.paid
         /\ h'.originated = h.originated
         /\ h'.faults = 0 => h.faults = 0 /\ fault = 0
    BY <1>5, <1>6, <1>14, FaultedLemma
  <1>16. ban' \in Ban
    BY <1>4, <1>12, Start_, BanType
  <1>17. store' \in Store
    BY <1>3, <1>13, Start_
  <1>18. TypeOK'
    BY <1>1, <1>8, <1>12, <1>15, <1>16, <1>17, Start_ DEF TypeOK
  <1>19. Flags(peer', refreshes', payments')
    BY <1>1, <1>8, <1>12, Start_ DEF Flags
  <1>20. CompensatedLedger' /\ OriginatedKept'
    <2>1. CASE h'.faults # 0
      BY <2>1 DEF CompensatedLedger, OriginatedKept
    <2>2. CASE h'.faults = 0 /\ met
      <3>1. store' = credited /\ h.faults = 0
        BY <2>2, <1>3, <1>15
      <3>2. CompensatedLedger'
        BY <2>2, <3>1, <1>6, <1>9, <1>11, <1>13, <1>15, Books DEF CompensatedLedger
      <3>3. store'.originated >= h'.paid - h'.originated
        BY <3>1, <1>7, <1>13, <1>15, Books
      <3> QED BY <3>1, <3>2, <3>3, <1>1, <1>12, <1>15, Start_ DEF OriginatedKept
    <2>3. CASE h'.faults = 0 /\ ~met
      <3>1. store' = store /\ h.faults = 0 /\ h'.ledger = h.ledger
        BY <2>3, <1>3, <1>10, <1>15
      <3> QED BY <3>1, <1>1, <1>12, <1>15, Start_ DEF CompensatedLedger, OriginatedKept
    <2> QED BY <2>1, <2>2, <2>3
  <1> QED BY <1>12, <1>18, <1>19, <1>20, Start_, Preserve

LEMMA NotifyPaymentReceivedIInv ==
    ASSUME IInv, NEW amount \in Amounts, NEW fault \in 0..2,
           NotifyPaymentReceived(amount, fault)
    PROVE  IInv'
  <1> DEFINE balance == IF store.balance <= 0 THEN store.balance
                        ELSE Greater(store.balance - amount, 0)
  <1> DEFINE growth == amount - (store.balance - balance)
  <1> DEFINE b == IF fault = 1 THEN store.balance ELSE balance
  <1> DEFINE sp == IF fault > 0 THEN store.surplus ELSE store.surplus + growth
  <1> DEFINE g == [h EXCEPT !.ledger = h.ledger - amount, !.received = h.received + amount]
  <1>1. /\ now' = now /\ actions' = actions /\ refreshes' = refreshes
        /\ payments' = payments /\ ban' = ban
    BY DEF NotifyPaymentReceived
  <1>2. peer' = Repaid(peer, amount)
    BY DEF NotifyPaymentReceived
  <1>3. store' = [store EXCEPT !.balance = b, !.surplus = sp]
    BY DEF NotifyPaymentReceived
  <1>4. h' = Faulted(g, fault)
    BY DEF NotifyPaymentReceived
  <1>5. amount \in Nat /\ fault \in Nat
    BY InputsAssumption
  <1>6. balance \in Int /\ growth \in Nat
    BY <1>5, Books DEF Greater
  <1>7. growth = amount - (store.balance - balance)
    OBVIOUS
  <1> HIDE DEF balance, growth
  <1>8. /\ b \in Int /\ sp \in Nat
        /\ fault = 0 => b = balance /\ sp = store.surplus + growth
    BY <1>5, <1>6, Books
  <1> HIDE DEF b, sp
  <1>9. /\ store' \in Store /\ store'.balance = b /\ store'.surplus = sp
        /\ store'.originated = store.originated
    <2>1. store \in Store
      BY Start_
    <2> QED BY <2>1, <1>3, <1>8 DEF Store
  <1>10. /\ g \in History /\ g.ledger = h.ledger - amount /\ g.paid = h.paid
         /\ g.originated = h.originated /\ g.faults = h.faults
    <2>1. h \in History
      BY Start_
    <2>2. h.ledger - amount \in Int /\ h.received + amount \in Nat
      BY <1>5, <2>1 DEF History
    <2> QED BY <2>1, <2>2 DEF History
  <1> HIDE DEF g
  <1>11. /\ h' \in History /\ h'.ledger = h.ledger - amount /\ h'.paid = h.paid
         /\ h'.originated = h.originated
         /\ h'.faults = 0 => h.faults = 0 /\ fault = 0
    BY <1>4, <1>5, <1>10, FaultedLemma
  <1>12. /\ peer' \in AccountingPeer
         /\ peer'.disconnectLimit = DisconnectLimitFor(peer'.thresholdForPeer)
         /\ peer'.refreshOngoing = peer.refreshOngoing
         /\ peer'.paymentOngoing = peer.paymentOngoing
    BY <1>2, <1>5, Start_, RepaidLemma
  <1>13. TypeOK'
    BY <1>1, <1>9, <1>11, <1>12, Start_ DEF TypeOK
  <1>14. ASSUME h'.faults = 0
         PROVE  /\ h.faults = 0
                /\ store'.balance - store'.surplus = h'.ledger
                /\ store'.originated >= h'.paid - h'.originated
                /\ h.originated - h.paid <= h'.originated - h'.paid
    <2>1. h.faults = 0 /\ fault = 0
      BY <1>11, <1>14
    <2>2. balance - (store.surplus + growth) = h.ledger - amount
      BY <2>1, <1>5, <1>6, <1>7, Books
    <2>3. store'.balance - store'.surplus = h'.ledger
      BY <2>1, <2>2, <1>8, <1>9, <1>11, Zenon
    <2>4. /\ store.originated >= h.paid - h.originated
          /\ h.originated - h.paid <= h.originated - h.paid
      BY <2>1, Books
    <2> QED BY <2>1, <2>3, <2>4, <1>9, <1>11, Zenon
  <1> QED BY <1>1, <1>12, <1>13, <1>14, QuietStep

LEMMA NotifyRefreshmentReceivedIInv ==
    ASSUME IInv, NEW amount \in Amounts, NEW fault \in 0..1,
           NotifyRefreshmentReceived(amount, fault)
    PROVE  IInv'
  <1> DEFINE q == Repaid(peer, amount)
  <1> DEFINE stamped == [q EXCEPT !.refreshReceivedTs = now]
  <1> DEFINE debited == [store EXCEPT !.balance = store.balance - amount]
  <1> DEFINE g == [h EXCEPT !.ledger = h.ledger - amount, !.received = h.received + amount]
  <1>1. /\ now' = now /\ actions' = actions /\ refreshes' = refreshes
        /\ payments' = payments /\ ban' = ban
    BY DEF NotifyRefreshmentReceived
  <1>2. peer' = IF fault > 0 THEN q ELSE stamped
    BY DEF NotifyRefreshmentReceived
  <1>3. store' = IF fault > 0 THEN store ELSE debited
    BY DEF NotifyRefreshmentReceived
  <1>4. h' = Faulted(g, fault)
    BY DEF NotifyRefreshmentReceived
  <1>5. amount \in Nat /\ fault \in Nat
    BY InputsAssumption
  <1>6. /\ q \in AccountingPeer
        /\ q.disconnectLimit = DisconnectLimitFor(q.thresholdForPeer)
        /\ q.refreshOngoing = peer.refreshOngoing
        /\ q.paymentOngoing = peer.paymentOngoing
    BY <1>5, Start_, RepaidLemma
  <1> HIDE DEF q
  <1>7. /\ stamped \in AccountingPeer
        /\ stamped.disconnectLimit = DisconnectLimitFor(stamped.thresholdForPeer)
        /\ stamped.refreshOngoing = peer.refreshOngoing
        /\ stamped.paymentOngoing = peer.paymentOngoing
    <2>1. now \in Nat
      BY Start_
    <2> QED BY <2>1, <1>6 DEF AccountingPeer
  <1>8. /\ debited \in Store /\ debited.balance = store.balance - amount
        /\ debited.surplus = store.surplus /\ debited.originated = store.originated
    <2>1. store \in Store
      BY Start_
    <2>2. store.balance - amount \in Int
      BY <1>5, <2>1 DEF Store
    <2> QED BY <2>1, <2>2 DEF Store
  <1>10. /\ g \in History /\ g.ledger = h.ledger - amount /\ g.paid = h.paid
         /\ g.originated = h.originated /\ g.faults = h.faults
    <2>1. h \in History
      BY Start_
    <2>2. h.ledger - amount \in Int /\ h.received + amount \in Nat
      BY <1>5, <2>1 DEF History
    <2> QED BY <2>1, <2>2 DEF History
  <1> HIDE DEF g, stamped, debited
  <1>11. /\ h' \in History /\ h'.ledger = h.ledger - amount /\ h'.paid = h.paid
         /\ h'.originated = h.originated
         /\ h'.faults = 0 => h.faults = 0 /\ fault = 0
    BY <1>4, <1>5, <1>10, FaultedLemma
  <1>12. /\ peer' \in AccountingPeer
         /\ peer'.disconnectLimit = DisconnectLimitFor(peer'.thresholdForPeer)
         /\ peer'.refreshOngoing = peer.refreshOngoing
         /\ peer'.paymentOngoing = peer.paymentOngoing
    BY <1>2, <1>6, <1>7
  <1>13. TypeOK'
    BY <1>1, <1>3, <1>8, <1>11, <1>12, Start_ DEF TypeOK
  <1>14. ASSUME h'.faults = 0
         PROVE  /\ h.faults = 0
                /\ store'.balance - store'.surplus = h'.ledger
                /\ store'.originated >= h'.paid - h'.originated
                /\ h.originated - h.paid <= h'.originated - h'.paid
    <2>1. h.faults = 0 /\ fault = 0
      BY <1>11, <1>14
    <2>2. store' = debited
      BY <2>1, <1>3
    <2>3. (store.balance - amount) - store.surplus = h.ledger - amount
      BY <2>1, <1>5, Books
    <2>4. store'.balance - store'.surplus = h'.ledger
      BY <2>2, <2>3, <1>8, <1>11, Zenon
    <2>5. /\ store.originated >= h.paid - h.originated
          /\ h.originated - h.paid <= h.originated - h.paid
      BY <2>1, Books
    <2> QED BY <2>1, <2>2, <2>4, <2>5, <1>8, <1>11, Zenon
  <1> QED BY <1>1, <1>12, <1>13, <1>14, QuietStep

LEMMA NotifyPaymentThresholdIInv ==
    ASSUME IInv, NEW threshold \in Thresholds, NotifyPaymentThreshold(threshold)
    PROVE  IInv'
  <1> DEFINE early == PercentOf(100 - EarlyPayment, threshold)
  <1>1. /\ now' = now /\ actions' = actions /\ refreshes' = refreshes
        /\ payments' = payments /\ ban' = ban /\ store' = store /\ h' = h
    BY DEF NotifyPaymentThreshold
  <1>2. peer' = [peer EXCEPT !.paymentThreshold = threshold, !.earlyPayment = early]
    BY DEF NotifyPaymentThreshold
  <1>3. threshold \in Nat /\ early \in Nat
    BY InputsAssumption, DerivedConstants
  <1> HIDE DEF early
  <1>4. /\ peer' \in AccountingPeer
        /\ peer'.refreshOngoing = peer.refreshOngoing
        /\ peer'.paymentOngoing = peer.paymentOngoing
        /\ peer'.disconnectLimit = peer.disconnectLimit
        /\ peer'.thresholdForPeer = peer.thresholdForPeer
    <2>1. peer \in AccountingPeer
      BY Start_
    <2> QED BY <2>1, <1>2, <1>3 DEF AccountingPeer
  <1>5. TypeOK'
    BY <1>1, <1>4, Start_ DEF TypeOK
  <1> QED BY <1>1, <1>4, <1>5, Start_, Books, QuietStep

LEMMA ConnectIInv ==
    ASSUME IInv, NEW node \in NodeTypes, NEW failing \in SUBSET {"balance", "surplus"},
           Connect(node, failing)
    PROVE  IInv'
  <1> DEFINE zero == 0
  <1> DEFINE t == ThresholdFor(node)
  <1> DEFINE step == GrowStepFor(node)
  <1> DEFINE limit == DisconnectLimitFor(t)
  <1> DEFINE b == IF "balance" \in failing THEN store.balance ELSE 0
  <1> DEFINE sp == IF "surplus" \in failing THEN store.surplus ELSE 0
  <1> DEFINE clean == ~InFlight /\ payments = <<>> /\ failing = {}
  <1> DEFINE g == [h EXCEPT !.connects = h.connects + 1, !.ledger = zero, !.received = zero,
                            !.clean = clean]
  <1> DEFINE k == IF failing = {} THEN 0 ELSE 1
  <1>0. zero = 0 /\ zero \in Nat /\ zero \in Int
    OBVIOUS
  <1>1. /\ now' = now /\ actions' = actions /\ refreshes' = refreshes
        /\ payments' = payments /\ ban' = NoBan
    BY DEF Connect
  <1>2. peer' = [peer EXCEPT
                   !.connected = TRUE, !.node = node,
                   !.shadow = zero, !.ghost = zero, !.reserved = zero, !.refreshReserved = zero,
                   !.thresholdForPeer = t, !.growAt = step, !.disconnectLimit = limit]
    BY DEF Connect
  <1>3. store' = [store EXCEPT !.balance = b, !.surplus = sp]
    BY DEF Connect
  <1>4. h' = Faulted(g, k)
    BY DEF Connect
  <1>5. node \in {"full", "light"}
    BY InputsAssumption
  <1>6. t \in Nat /\ step \in Nat /\ limit \in Nat
    BY <1>5, DerivedConstants
  <1>7. limit = DisconnectLimitFor(t)
    OBVIOUS
  <1>8. b \in Int /\ sp \in Nat /\ k \in Nat /\ clean \in BOOLEAN
    BY Books
  <1>9. k = 0 => b = 0 /\ sp = 0
    OBVIOUS
  <1> HIDE DEF zero, t, step, limit, b, sp, k, clean
  <1>10. /\ peer' \in AccountingPeer
         /\ peer'.refreshOngoing = peer.refreshOngoing
         /\ peer'.paymentOngoing = peer.paymentOngoing
         /\ peer'.disconnectLimit = limit
         /\ peer'.thresholdForPeer = t
    <2> DEFINE p == [peer EXCEPT !.connected = TRUE, !.node = node]
    <2> DEFINE q == [p EXCEPT !.shadow = zero, !.ghost = zero, !.reserved = zero,
                              !.refreshReserved = zero]
    <2>1. peer \in AccountingPeer
      BY Start_
    <2>2. peer' = [q EXCEPT !.thresholdForPeer = t, !.growAt = step,
                            !.disconnectLimit = limit]
      BY <1>2, Zenon
    <2>3. /\ p \in AccountingPeer
          /\ p.refreshOngoing = peer.refreshOngoing
          /\ p.paymentOngoing = peer.paymentOngoing
      BY <2>1, <1>5 DEF AccountingPeer
    <2> HIDE DEF p
    <2>4. /\ q \in AccountingPeer
          /\ q.refreshOngoing = p.refreshOngoing
          /\ q.paymentOngoing = p.paymentOngoing
      BY <2>3, <1>0 DEF AccountingPeer
    <2> HIDE DEF q
    <2>5. /\ peer' \in AccountingPeer
          /\ peer'.refreshOngoing = q.refreshOngoing
          /\ peer'.paymentOngoing = q.paymentOngoing
          /\ peer'.disconnectLimit = limit
          /\ peer'.thresholdForPeer = t
      BY <2>2, <2>4, <1>6 DEF AccountingPeer
    <2> QED BY <2>3, <2>4, <2>5
  <1>11. /\ store' \in Store /\ store'.balance = b /\ store'.surplus = sp
         /\ store'.originated = store.originated
    <2>1. store \in Store
      BY Start_
    <2> QED BY <2>1, <1>3, <1>8 DEF Store
  <1>12. /\ g \in History /\ g.ledger = zero /\ g.paid = h.paid
         /\ g.originated = h.originated /\ g.faults = h.faults
    <2> DEFINE f == [h EXCEPT !.connects = h.connects + 1, !.ledger = zero, !.received = zero]
    <2>1. h \in History
      BY Start_
    <2>2. g = [f EXCEPT !.clean = clean]
      BY Zenon
    <2>3. /\ f \in History /\ f.ledger = zero /\ f.paid = h.paid
          /\ f.originated = h.originated /\ f.faults = h.faults
      <3>1. h.connects + 1 \in Nat
        BY <2>1 DEF History
      <3> QED BY <2>1, <3>1, <1>0 DEF History
    <2> HIDE DEF f, g
    <2>4. /\ g \in History /\ g.ledger = f.ledger /\ g.paid = f.paid
          /\ g.originated = f.originated /\ g.faults = f.faults
      BY <2>2, <2>3, <1>8 DEF History
    <2> QED BY <2>3, <2>4
  <1> HIDE DEF g
  <1>13. /\ h' \in History /\ h'.ledger = 0 /\ h'.paid = h.paid
         /\ h'.originated = h.originated
         /\ h'.faults = 0 => h.faults = 0 /\ k = 0
    BY <1>0, <1>4, <1>8, <1>12, FaultedLemma
  <1>14. NoBan \in Ban
    BY DEF NoBan, Ban
  <1>15. TypeOK'
    BY <1>1, <1>10, <1>11, <1>13, <1>14, Start_ DEF TypeOK
  <1>16. ASSUME h'.faults = 0
         PROVE  /\ h.faults = 0
                /\ store'.balance - store'.surplus = h'.ledger
                /\ store'.originated >= h'.paid - h'.originated
                /\ h.originated - h.paid <= h'.originated - h'.paid
    <2>1. h.faults = 0 /\ k = 0
      BY <1>13, <1>16
    <2>2. store'.balance - store'.surplus = h'.ledger
      BY <2>1, <1>9, <1>11, <1>13
    <2>3. /\ store.originated >= h.paid - h.originated
          /\ h.originated - h.paid <= h.originated - h.paid
      BY <2>1, Books
    <2> QED BY <2>1, <2>2, <2>3, <1>11, <1>13, Zenon
  <1> QED BY <1>1, <1>7, <1>10, <1>15, <1>16, QuietStep

LEMMA DisconnectIInv ==
    ASSUME IInv, Disconnect
    PROVE  IInv'
  <1>1. /\ now' = now /\ actions' = actions /\ refreshes' = refreshes
        /\ payments' = payments /\ store' = store /\ h' = h
        /\ ban' = Blocklist(peer, store, "disconnect")
    BY DEF Disconnect
  <1>2. peer' = [peer EXCEPT !.connected = FALSE]
    BY DEF Disconnect
  <1>3. /\ peer' \in AccountingPeer
        /\ peer'.refreshOngoing = peer.refreshOngoing
        /\ peer'.paymentOngoing = peer.paymentOngoing
        /\ peer'.disconnectLimit = peer.disconnectLimit
        /\ peer'.thresholdForPeer = peer.thresholdForPeer
    <2>1. peer \in AccountingPeer
      BY Start_
    <2> QED BY <2>1, <1>2 DEF AccountingPeer
  <1>4. ban' \in Ban
    BY <1>1, Start_, BanType
  <1>5. TypeOK'
    BY <1>1, <1>3, <1>4, Start_ DEF TypeOK
  <1> QED BY <1>1, <1>3, <1>5, Start_, Books, QuietStep

LEMMA TickIInv ==
    ASSUME IInv, Tick
    PROVE  IInv'
  <1>1. /\ now' = now + 1 /\ actions' = actions /\ refreshes' = refreshes /\ peer' = peer
        /\ payments' = payments /\ store' = store /\ h' = h /\ ban' = ban
    BY DEF Tick
  <1>2. TypeOK'
    BY <1>1, Start_ DEF TypeOK
  <1> QED BY <1>1, <1>2, Start_, Books, QuietStep

LEMMA StutterIInv == IInv /\ UNCHANGED vars => IInv'
  BY DEF vars, IInv, TypeOK, OneSettlement, CompensatedLedger, LimitFollowsThreshold,
         OriginatedKept

\* Every handler, whatever it interleaves with and whichever of its store
\* writes fails, preserves the inductive invariant.
LEMMA NextIInv == IInv /\ [Next]_vars => IInv'
  <1> SUFFICES ASSUME IInv, Next PROVE IInv'
    BY StutterIInv
  <1>1. CASE \E s \in Slots, a \in Credits : PrepareCredit(s, a)
    BY <1>1, PrepareCreditIInv
  <1>2. CASE \E price \in Prices : PrepareCreditRefused(price)
    BY <1>2, PrepareCreditRefusedIInv
  <1>3. CASE \E s \in Slots, fault \in {0, 2} : CreditApply(s, fault)
    BY <1>3, CreditApplyIInv
  <1>4. CASE \E s \in Slots : CreditApplyFails(s)
    BY <1>4, CreditApplyFailsIInv
  <1>5. CASE \E s \in Slots : CreditCleanup(s)
    BY <1>5, CreditCleanupIInv
  <1>6. CASE \E s \in Slots, a \in Debits : PrepareDebit(s, a)
    BY <1>6, PrepareDebitIInv
  <1>7. CASE \E s \in Slots, fault \in {0, 3} : DebitApply(s, fault)
    BY <1>7, DebitApplyIInv
  <1>8. CASE \E s \in Slots, fault \in {1, 2} : DebitApplyFails(s, fault)
    BY <1>8, DebitApplyFailsIInv
  <1>9. CASE \E s \in Slots : DebitCleanup(s)
    BY <1>9, DebitCleanupIInv
  <1>10. CASE \E i \in 1..Len(payments) : PaymentFailed(i)
    BY <1>10, PaymentFailedIInv
  <1>11. CASE \E i \in 1..Len(payments), fault \in 0..2 : NotifyPaymentSent(i, fault)
    BY <1>11, NotifyPaymentSentIInv
  <1>12. CASE \E i \in 1..Len(refreshes), err \in {"ErrPeerNotFound", "other"} :
                RefreshmentFailed(i, err)
    BY <1>12, RefreshmentFailedIInv
  <1>13. CASE \E i \in 1..Len(refreshes), amount \in Accepted, interval \in Intervals,
                 fault \in 0..2 : NotifyRefreshmentSent(i, amount, interval, fault)
    BY <1>13, NotifyRefreshmentSentIInv
  <1>14. CASE \E amount \in Amounts, fault \in 0..2 : NotifyPaymentReceived(amount, fault)
    BY <1>14, NotifyPaymentReceivedIInv
  <1>15. CASE \E amount \in Amounts, fault \in 0..1 : NotifyRefreshmentReceived(amount, fault)
    BY <1>15, NotifyRefreshmentReceivedIInv
  <1>16. CASE \E threshold \in Thresholds : NotifyPaymentThreshold(threshold)
    BY <1>16, NotifyPaymentThresholdIInv
  <1>17. CASE \E node \in NodeTypes, failing \in SUBSET {"balance", "surplus"} :
                Connect(node, failing)
    BY <1>17, ConnectIInv
  <1>18. CASE Disconnect
    BY <1>18, DisconnectIInv
  <1>19. CASE Tick
    BY <1>19, TickIInv
  <1> QED
    BY <1>1, <1>2, <1>3, <1>4, <1>5, <1>6, <1>7, <1>8, <1>9, <1>10, <1>11, <1>12, <1>13,
       <1>14, <1>15, <1>16, <1>17, <1>18, <1>19 DEF Next

----------------------------------------------------------------------------
\* IInv holds in every reachable state of the accounting, for all rates,
\* thresholds, prices and any number of actions in flight.
THEOREM Inductive == Spec => []IInv
  BY InitIInv, NextIInv, PTL DEF Spec

\* Every reachable peer record, store and history is well typed: the reserve,
\* the ghost balance and the surplus never go below zero.
THEOREM TypeCorrect == Spec => []TypeOK
  <1>1. IInv => TypeOK
    BY DEF IInv
  <1> QED BY <1>1, Inductive, PTL

\* At most one refreshment and one payment run towards a peer, and the ongoing
\* flags say exactly which, across failures, timeouts and reconnects.
THEOREM SettlementExclusive == Spec => []OneSettlement
  <1>1. IInv => OneSettlement
    BY DEF IInv
  <1> QED BY <1>1, Inductive, PTL

\* While no store write fails, balance less surplus is the sum of everything
\* applied since Connect: no handler loses or doubles an amount.
THEOREM LedgerExact == Spec => []CompensatedLedger
  <1>1. IInv => CompensatedLedger
    BY DEF IInv
  <1> QED BY <1>1, Inductive, PTL

\* The disconnect limit is the one of the peer's current threshold.
THEOREM LimitCurrent == Spec => []LimitFollowsThreshold
  <1>1. IInv => LimitFollowsThreshold
    BY DEF IInv
  <1> QED BY <1>1, Inductive, PTL

\* While no store write fails, cheques sent and in flight never exceed the
\* originated credits applied, over any number of connections.
THEOREM PaysOnlyOriginated == Spec => []PaidOnlyForOriginated
  <1>1. ASSUME IInv PROVE PaidOnlyForOriginated
    <2> SUFFICES ASSUME h.faults = 0
                 PROVE  h.paid + (IF peer.paymentOngoing THEN payments[1] ELSE 0)
                          <= h.originated
      BY DEF PaidOnlyForOriginated
    <2>1. h.paid \in Nat /\ h.originated \in Nat
      BY <1>1, Books
    <2>2. CASE peer.paymentOngoing
      <3>1. payments[1] <= h.originated - h.paid /\ payments[1] \in Nat
        BY <1>1, <2>2, PaymentInFlight
      <3> QED BY <2>1, <2>2, <3>1
    <2>3. CASE ~peer.paymentOngoing
      <3>1. h.paid <= h.originated
        BY <1>1, <2>1, Books
      <3> QED BY <2>1, <2>3, <3>1
    <2> QED BY <2>2, <2>3
  <1>2. IInv => PaidOnlyForOriginated
    BY <1>1
  <1> QED BY <1>2, Inductive, PTL

\* The books of a peer are sound: the three facts above together.
THEOREM LedgerKept == Spec => []LedgerSound
  <1>1. CompensatedLedger /\ PaidOnlyForOriginated /\ LimitFollowsThreshold <=> LedgerSound
    BY DEF LedgerSound
  <1> QED BY <1>1, LedgerExact, PaysOnlyOriginated, LimitCurrent, PTL
=============================================================================
