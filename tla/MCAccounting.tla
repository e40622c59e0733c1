---------------------------- MODULE MCAccounting ----------------------------
(* Small instances of Accounting: the symmetry of the action slots, and the *)
(* three ways in which an instance may grow.                               *)
EXTENDS Accounting, TLC

SlotSymmetry == Permutations(Slots)

Full == peer.connected => peer.node = "full"

\* Three actions of a full node at our first threshold; or two actions with
\* a second connection within the first second; or with a failing store write.
Scope ==
    \/ h.connects <= 1 /\ h.faults = 0 /\ Full
          /\ peer.paymentThreshold = PaymentThreshold
    \/ h.prepared <= 2 /\ h.faults = 0 /\ now = Start
          /\ (peer.paymentThreshold # PaymentThreshold => h.received = 0)
    \/ h.prepared <= 2 /\ h.connects <= 1 /\ Full /\ now = Start
          /\ peer.paymentThreshold = PaymentThreshold
=============================================================================
