------------------------------ MODULE TxStore ------------------------------
(***************************************************************************)
(* The transactional index store: pkg/storage/leveldbstore (transaction.go *)
(* and recovery.go) on pkg/storage/transaction.go, as storer.Execute uses  *)
(* it.                                                                     *)
(*                                                                         *)
(* A transaction writes straight into the shared database.  For every      *)
(* write it appends the operation that undoes it to a record of its own,   *)
(* kept in the same database; Commit deletes the record, Rollback and the  *)
(* recovery after a crash replay it.  A Put or Delete is a batch of one:   *)
(* the value to restore is read, the write is done, the record is updated, *)
(* in three steps other transactions and a crash may come between.         *)
(***************************************************************************)
EXTENDS Integers, Sequences, FiniteSets, SequencesExt

CONSTANTS
    Keys,         \* keys of the database
    Vals,         \* values
    None,         \* no value: the key is absent; no transaction
    Txs,          \* transactions, each used once
    Scenarios     \* what callers may do, where crashes fall, and the bounds

\* once: callers write a key at most once in a transaction; exclusive: they
\* leave alone a key an unfinished transaction wrote; crashAt: "record" when a
\* crash may fall between a write and its record
ASSUME TxAssumption ==
    /\ None \notin Vals /\ None \notin Txs
    /\ \A s \in Scenarios :
          /\ s.keys \subseteq Keys /\ s.txs \in Nat
          /\ s.ops \in Nat /\ s.crashes \in Nat
          /\ s.once \in BOOLEAN /\ s.exclusive \in BOOLEAN
          /\ s.crashAt \subseteq {"record", "put", "commit"}

VARIABLES
    db,       \* the value of every key
    rec,      \* the record of every transaction: sequence of [key, val]
    tx,       \* every transaction: [pc, todo, ops, cancelled]
    writer,   \* the transaction that wrote a key last (history)
    up,       \* the process runs
    crashes,  \* crashes so far
    sc        \* the scenario

vars == <<db, rec, tx, writer, up, crashes, sc>>

\* "stuck": Commit failed, and storer.Execute does not roll back then.
\* "lost": a crash ended it.
Unfinished == {"active", "wrote", "stuck", "lost"}

Started == [pc |-> "active", todo |-> << >>, ops |-> 0, cancelled |-> FALSE]

NotStarted == [Started EXCEPT !.pc = "idle"]

Init ==
    /\ db = [k \in Keys |-> None]
    /\ rec = [t \in Txs |-> << >>]
    /\ tx = [t \in Txs |-> NotStarted]
    /\ writer = [k \in Keys |-> None]
    /\ up = TRUE
    /\ crashes = 0
    /\ sc \in Scenarios

-----------------------------------------------------------------------------
\* The writes of a batch in order; the undo operations of a batch in order.  A
\* Delete of a key that is absent has nothing to undo.
Applied(d, todo) ==
    FoldLeft(LAMBDA acc, w : [acc EXCEPT ![w.key] = w.new], d, todo)

\* seeded fault: the value written is recorded as the one to restore
UndoesNew(todo) ==
    [i \in DOMAIN todo |-> [key |-> todo[i].key, val |-> todo[i].new]]

Undoes(todo) ==
    LET real == SelectSeq(todo, LAMBDA w : w.old # None \/ w.new # None)
    IN  [i \in DOMAIN real |-> [key |-> real[i].key, val |-> real[i].old]]

\* A record is replayed as a batch, in the order it was appended in.
Replayed(d, ops) ==
    FoldLeft(LAMBDA acc, op : [acc EXCEPT ![op.key] = op.val], d, ops)

\* The undo operations of t, those of a write not recorded yet included.
UndoOf(t) == rec[t] \o (IF tx[t].pc = "wrote" THEN Undoes(tx[t].todo) ELSE << >>)

Touched(t) == {UndoOf(t)[i].key : i \in DOMAIN UndoOf(t)}

\* What callers may write in this scenario.
MayWrite(t, k) ==
    /\ k \in sc.keys /\ tx[t].ops < sc.ops
    /\ sc.once => k \notin Touched(t)
    /\ sc.exclusive => \A u \in Txs \ {t} :
          tx[u].pc \in Unfinished =>
              /\ k \notin Touched(u)
              /\ \A i \in DOMAIN tx[u].todo : tx[u].todo[i].key # k

-----------------------------------------------------------------------------
NewTx(t) ==
    /\ up
    /\ tx[t].pc = "idle"
    /\ Cardinality({u \in Txs : tx[u].pc # "idle"}) < sc.txs
    /\ tx' = [tx EXCEPT ![t] = Started]
    /\ UNCHANGED <<db, rec, writer, up, crashes, sc>>

\* Put or Delete (new = None), of the store or of a batch: the value to
\* restore is read from the store.
Put(t, k, new) ==
    /\ up
    /\ tx[t].pc = "active" /\ ~tx[t].cancelled
    /\ MayWrite(t, k)
    /\ tx' = [tx EXCEPT ![t].todo = Append(@, [key |-> k, old |-> db[k],
                                               new |-> new]),
                        ![t].ops = @ + 1]
    /\ UNCHANGED <<db, rec, writer, up, crashes, sc>>

\* the write itself
Write(t) ==
    /\ up
    /\ tx[t].pc = "active" /\ tx[t].todo # << >>
    /\ ~tx[t].cancelled
    /\ db' = Applied(db, tx[t].todo)
    /\ writer' = [k \in Keys |->
                    IF \E i \in DOMAIN tx[t].todo : tx[t].todo[i].key = k
                    THEN t ELSE writer[k]]
    /\ tx' = [tx EXCEPT ![t].pc = "wrote"]
    /\ UNCHANGED <<rec, up, crashes, sc>>

\* the context is cancelled: what is staged is not written
WriteFails(t) ==
    /\ up
    /\ tx[t].pc = "active" /\ tx[t].todo # << >>
    /\ tx[t].cancelled
    /\ tx' = [tx EXCEPT ![t].todo = << >>]
    /\ UNCHANGED <<db, rec, writer, up, crashes, sc>>

\* txRevertOpStore.Append
AppendRevertOps(t) ==
    /\ up
    /\ tx[t].pc = "wrote"
    /\ rec' = [rec EXCEPT ![t] = @ \o Undoes(tx[t].todo)]
    /\ tx' = [tx EXCEPT ![t].pc = "active", ![t].todo = << >>]
    /\ UNCHANGED <<db, writer, up, crashes, sc>>

Cancel(t) ==
    /\ up
    /\ tx[t].pc \in {"active", "wrote"} /\ ~tx[t].cancelled
    /\ tx' = [tx EXCEPT ![t].cancelled = TRUE]
    /\ UNCHANGED <<db, rec, writer, up, crashes, sc>>

\* seeded fault: the record survives the commit
CommitKeepingRecord(t) ==
    /\ up
    /\ tx[t].pc = "active" /\ tx[t].todo = << >>
    /\ ~tx[t].cancelled
    /\ tx' = [tx EXCEPT ![t].pc = "committed"]
    /\ UNCHANGED <<db, rec, writer, up, crashes, sc>>

\* Commit: TxState.Done, then Clean
Commit(t) ==
    /\ up
    /\ tx[t].pc = "active" /\ tx[t].todo = << >>
    /\ ~tx[t].cancelled
    /\ rec' = [rec EXCEPT ![t] = << >>]
    /\ tx' = [tx EXCEPT ![t].pc = "committed"]
    /\ UNCHANGED <<db, writer, up, crashes, sc>>

\* Commit after the context was cancelled: TxState.Done fails; nothing is
\* undone, the record stays, and nobody will call Rollback
CommitFails(t) ==
    /\ up
    /\ tx[t].pc = "active" /\ tx[t].todo = << >>
    /\ tx[t].cancelled
    /\ tx' = [tx EXCEPT ![t].pc = "stuck"]
    /\ UNCHANGED <<db, rec, writer, up, crashes, sc>>

\* Rollback, of a transaction whose body failed.  A batch that was not
\* committed is dropped.
Rollback(t) ==
    /\ up
    /\ tx[t].pc = "active"
    /\ db' = Replayed(db, rec[t])
    /\ rec' = [rec EXCEPT ![t] = << >>]
    /\ tx' = [tx EXCEPT ![t].pc = "rolledback", ![t].todo = << >>]
    /\ UNCHANGED <<writer, up, crashes, sc>>

\* The process dies.  Records are in the database.
Crash ==
    /\ up
    /\ crashes < sc.crashes
    /\ "record" \in sc.crashAt \/ \A t \in Txs : tx[t].pc # "wrote"
    /\ up' = FALSE
    /\ crashes' = crashes + 1
    /\ tx' = [t \in Txs |->
                IF tx[t].pc \in {"active", "wrote"}
                THEN [tx[t] EXCEPT !.pc = "lost", !.todo = << >>]
                ELSE tx[t]]
    /\ UNCHANGED <<db, rec, writer, sc>>

\* Recover: one batch that replays every record, in the order of their random
\* names, and deletes them
Pending == {t \in Txs : rec[t] # << >>}

\* seeded fault: the records are deleted and not replayed
RecoverForgetting(order) ==
    /\ ~up
    /\ rec' = [t \in Txs |-> << >>]
    /\ tx' = [t \in Txs |->
                IF tx[t].pc \in Unfinished
                THEN [tx[t] EXCEPT !.pc = "rolledback"] ELSE tx[t]]
    /\ up' = TRUE
    /\ UNCHANGED <<db, writer, crashes, sc>>

Recover(order) ==
    /\ ~up
    /\ db' = Replayed(db, FlattenSeq([i \in DOMAIN order |-> rec[order[i]]]))
    /\ rec' = [t \in Txs |-> << >>]
    /\ tx' = [t \in Txs |->
                IF tx[t].pc \in Unfinished
                THEN [tx[t] EXCEPT !.pc = "rolledback"] ELSE tx[t]]
    /\ up' = TRUE
    /\ UNCHANGED <<writer, crashes, sc>>

Next ==
    \/ \E t \in Txs :
          \/ NewTx(t) \/ Write(t) \/ WriteFails(t) \/ AppendRevertOps(t)
          \/ Cancel(t) \/ Commit(t) \/ CommitFails(t) \/ Rollback(t)
          \/ \E k \in Keys, v \in Vals \cup {None} : Put(t, k, v)
    \/ Crash
    \/ \E order \in SetToSeqs(Pending) : Recover(order)

Spec == Init /\ [][Next]_vars

-----------------------------------------------------------------------------
(* Properties                                                              *)

\* The state is well formed; a transaction that ended has no record left for
\* a later recovery to replay.
TypeOK ==
    /\ db \in [Keys -> Vals \cup {None}]
    /\ \A t \in Txs :
          /\ tx[t].pc \in {"idle", "committed", "rolledback"} \cup Unfinished
          /\ tx[t].pc \notin Unfinished => rec[t] = << >>
          /\ tx[t].pc = "wrote" => up

\* The value a key had before the unfinished transaction t wrote it first.
Origin(t, k) ==
    LET u == UndoOf(t)
        first == CHOOSE i \in DOMAIN u :
                    /\ u[i].key = k
                    /\ \A j \in 1..(i - 1) : u[j].key # k
    IN  u[first].val

\* What the database would be if every unfinished transaction were undone.
Durable ==
    [k \in Keys |->
        LET open == {t \in Txs : tx[t].pc \in Unfinished /\ k \in Touched(t)}
        IN  IF open = {} THEN db[k]
            ELSE Origin(CHOOSE t \in open : TRUE, k)]

\* What the unfinished transaction t has written.
Staged(t) ==
    [k \in IF tx[t].pc \in Unfinished THEN Touched(t) ELSE {} |-> db[k]]

\* The store implements atomic transactions: only a commit changes what
\* survives, and it brings in all the writes of its transaction at once; a
\* rollback, a crash or a recovery changes nothing that survives.
Atomic == INSTANCE AtomicStore WITH
    state <- Durable, staged <- [t \in Txs |-> Staged(t)]
AtomicSpec == Atomic!Spec

\* Rollback undoes the operations of a transaction in reverse order, as
\* TxRevertOpStore.Revert promises: every key it wrote has the value again that
\* it had before.
RevertsInReverse ==
    [][\A t \in Txs :
          (tx[t].pc = "active" /\ tx'[t].pc = "rolledback") =>
              \A k \in Touched(t) : db'[k] = Origin(t, k)]_vars

\* Rollback and recovery revert uncommitted transactions: they leave alone a
\* value that a committed transaction was the last to write.
CommittedKept ==
    [][(rec # rec' /\ writer = writer') =>
          \A k \in Keys :
              (writer[k] # None /\ tx[writer[k]].pc = "committed")
                  => db'[k] = db[k]]_vars
=============================================================================
