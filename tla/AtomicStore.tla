---------------------------- MODULE AtomicStore ----------------------------
(***************************************************************************)
(* What a store with transactions promises: a state, and the writes each   *)
(* transaction has staged.  Commit moves them into the state at once, abort *)
(* forgets them.                                                           *)
(***************************************************************************)
EXTENDS Integers

CONSTANTS Keys, Vals, Txs, None

VARIABLES
    state,    \* what survives
    staged    \* transaction -> the keys it wrote and their values

Nothing == [k \in {} |-> None]

Init ==
    /\ state = [k \in Keys |-> None]
    /\ staged = [t \in Txs |-> Nothing]

\* transaction t writes some keys
Stage(t) ==
    /\ \E ks \in SUBSET Keys :
          /\ DOMAIN staged[t] \subseteq ks
          /\ \E w \in [ks -> Vals \cup {None}] :
                staged' = [staged EXCEPT ![t] = w]
    /\ UNCHANGED state

Commit(t) ==
    /\ state' = [k \in Keys |-> IF k \in DOMAIN staged[t] THEN staged[t][k]
                                                          ELSE state[k]]
    /\ staged' = [staged EXCEPT ![t] = Nothing]

\* some transactions end and leave nothing behind
Abort ==
    /\ \E ts \in SUBSET Txs :
          staged' = [t \in Txs |-> IF t \in ts THEN Nothing ELSE staged[t]]
    /\ UNCHANGED state

Next == Abort \/ \E t \in Txs : Stage(t) \/ Commit(t)

Spec == Init /\ [][Next]_<<state, staged>>
=============================================================================
