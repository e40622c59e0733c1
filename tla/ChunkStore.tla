----------------------------- MODULE ChunkStore -----------------------------
(***************************************************************************)
(* The transactional chunk store, pkg/storer/internal/chunkstore: the      *)
(* retrieval index (TxStore, one entry [loc, ref] for an address) together *)
(* with the slots of the blob store the entries point to, the record of    *)
(* locations a transaction has written, and the start of the storer after  *)
(* a crash (storer.initDiskRepository).                                    *)
(*                                                                         *)
(* Sharky is modelled by its free slots and the slots popped ahead of the  *)
(* next writes (one offered by slots.process, one held by shard.process).  *)
(* The address stands for the chunk's data, which determines it.           *)
(***************************************************************************)
EXTENDS TxStore, FiniteSets, FiniteSetsExt

CONSTANTS
    MaxSlots    \* bound: slots of the shard

\* aborts: transaction bodies may fail; cancels: contexts may be cancelled;
\* deletes: chunks may be deleted; crashAt: "put" when a crash may fall while
\* locations are recorded, "commit" when inside Commit or Rollback
ASSUME ChunkAssumption ==
    /\ MaxSlots \in Nat
    /\ \A s \in Scenarios : {s.aborts, s.cancels, s.deletes} \subseteq BOOLEAN

VARIABLES
    free,      \* free slots
    ahead,     \* slots popped and not written yet, in order
    blob,      \* what each slot holds
    pending,   \* transaction -> locations in its stored record
    written,   \* transaction -> txSharky.writtenLocs
    toRelease, \* transaction -> txSharky.toReleaseLocs, as <<chunk, slot>>
    op,        \* transaction -> the operation it is in
    boot,      \* "up", "down", or how far the start has come
    net,       \* history: transaction -> address -> puts less deletes
    refs       \* history: address -> references of committed transactions

slotVars  == <<free, ahead, blob>>
sharkyTx  == <<pending, written, toRelease>>
history   == <<net, refs>>
chunkVars == <<slotVars, sharkyTx, op, boot, history>>
allVars   == <<vars, chunkVars>>

Slots == 0..(MaxSlots - 1)
NoOp  == [kind |-> "none", addr |-> None, loc |-> 0, delta |-> 0]

Indexed == {a \in Keys : db[a] # None}
Located == {db[a].loc : a \in Indexed}

ChunkInit ==
    /\ Init
    /\ free = Slots
    /\ ahead = << >>
    /\ blob = [s \in Slots |-> None]
    /\ pending = [t \in Txs |-> {}]
    /\ written = [t \in Txs |-> {}]
    /\ toRelease = [t \in Txs |-> {}]
    /\ op = [t \in Txs |-> NoOp]
    /\ boot = "up"
    /\ net = [t \in Txs |-> [a \in Keys |-> 0]]
    /\ refs = [a \in Keys |-> 0]

-----------------------------------------------------------------------------
(* Sharky                                                                  *)

\* slots.pop, up to two slots ahead of the writes
PopAhead ==
    /\ boot # "down"
    /\ Len(ahead) < 2 /\ free # {}
    /\ ahead' = Append(ahead, Min(free))
    /\ free' = free \ {Min(free)}
    /\ UNCHANGED <<vars, blob, sharkyTx, op, boot, history>>

-----------------------------------------------------------------------------
(* ChunkStoreWrapper.Put and Delete on a transaction.  The repository locks *)
(* the address for the length of the operation.                            *)

Begin(t, a) ==
    /\ boot = "up"
    /\ tx[t].pc = "active"
    /\ op[t] = NoOp
    /\ \A u \in Txs : op[u].addr # a

Entry(loc, ref) == [loc |-> loc, ref |-> ref]

Doing(kind, a, loc, delta) ==
    [kind |-> kind, addr |-> a, loc |-> loc, delta |-> delta]

\* seeded fault: the reference is not counted
PutKnownUncounted(t, a) ==
    /\ Begin(t, a)
    /\ db[a] # None
    /\ Put(t, a, db[a])
    /\ op' = [op EXCEPT ![t] = Doing("index", a, db[a].loc, 1)]
    /\ UNCHANGED <<slotVars, sharkyTx, boot, history>>

\* Put of a chunk the index knows: one more reference
PutKnown(t, a) ==
    /\ Begin(t, a)
    /\ db[a] # None
    /\ Put(t, a, Entry(db[a].loc, db[a].ref + 1))
    /\ op' = [op EXCEPT ![t] = Doing("index", a, db[a].loc, 1)]
    /\ UNCHANGED <<slotVars, sharkyTx, boot, history>>

\* seeded fault: the location used again is still released by Commit
PutDeletedReleasing(t, a) ==
    /\ Begin(t, a)
    /\ db[a] = None
    /\ \E l \in toRelease[t] :
          /\ l[1] = a
          /\ Put(t, a, Entry(l[2], 1))
          /\ op' = [op EXCEPT ![t] = Doing("index", a, l[2], 1)]
    /\ UNCHANGED <<slotVars, sharkyTx, boot, history>>

\* Put of a chunk this transaction has deleted: its location is used again
PutDeleted(t, a) ==
    /\ Begin(t, a)
    /\ db[a] = None
    /\ \E l \in toRelease[t] :
          /\ l[1] = a
          /\ toRelease' = [toRelease EXCEPT ![t] = @ \ {l}]
          /\ Put(t, a, Entry(l[2], 1))
          /\ op' = [op EXCEPT ![t] = Doing("index", a, l[2], 1)]
    /\ UNCHANGED <<slotVars, pending, written, boot, history>>

\* Put of a new chunk: txSharky.Write ...
PutNew(t, a) ==
    /\ Begin(t, a)
    /\ ~tx[t].cancelled
    /\ MayWrite(t, a)
    /\ db[a] = None
    /\ \A l \in toRelease[t] : l[1] # a
    /\ ahead # << >>
    /\ blob' = [blob EXCEPT ![Head(ahead)] = a]
    /\ written' = [written EXCEPT ![t] = @ \cup {Head(ahead)}]
    /\ ahead' = Tail(ahead)
    /\ op' = [op EXCEPT ![t] = Doing("record", a, Head(ahead), 1)]
    /\ UNCHANGED <<vars, free, pending, toRelease, boot, history>>

\* ... which stores the locations it has written; then the index entry
Record(t) ==
    /\ boot = "up"
    /\ op[t].kind = "record"
    /\ pending' = [pending EXCEPT ![t] = written[t]]
    /\ IF tx[t].cancelled
       THEN /\ toRelease' = [toRelease EXCEPT ![t] =
                                @ \cup {<<op[t].addr, op[t].loc>>}]
            /\ op' = [op EXCEPT ![t] = NoOp]
            /\ UNCHANGED vars
       ELSE /\ Put(t, op[t].addr, Entry(op[t].loc, 1))
            /\ op' = [op EXCEPT ![t].kind = "index"]
            /\ UNCHANGED toRelease
    /\ UNCHANGED <<slotVars, written, boot, history>>

\* Delete of one of several references
DeleteShared(t, a) ==
    /\ sc.deletes
    /\ Begin(t, a)
    /\ db[a] # None /\ db[a].ref > 1
    /\ Put(t, a, Entry(db[a].loc, db[a].ref - 1))
    /\ op' = [op EXCEPT ![t] = Doing("index", a, db[a].loc, -1)]
    /\ UNCHANGED <<slotVars, sharkyTx, boot, history>>

\* seeded fault: the slot is released at once
DeleteLastReleasing(t, a) ==
    /\ sc.deletes
    /\ Begin(t, a)
    /\ db[a] # None /\ db[a].ref = 1
    /\ free' = free \cup {db[a].loc}
    /\ Put(t, a, None)
    /\ op' = [op EXCEPT ![t] = Doing("index", a, db[a].loc, -1)]
    /\ UNCHANGED <<ahead, blob, sharkyTx, boot, history>>

\* Delete of the last reference: the release waits for Commit
DeleteLast(t, a) ==
    /\ sc.deletes
    /\ Begin(t, a)
    /\ db[a] # None /\ db[a].ref = 1
    /\ toRelease' = [toRelease EXCEPT ![t] =
                        @ \cup {<<blob[db[a].loc], db[a].loc>>}]
    /\ Put(t, a, None)
    /\ op' = [op EXCEPT ![t] = Doing("index", a, db[a].loc, -1)]
    /\ UNCHANGED <<slotVars, pending, written, boot, history>>

\* the index entry is written
IndexWrite(t) ==
    /\ boot = "up"
    /\ Write(t)
    /\ UNCHANGED chunkVars

\* the index entry is not written: Put gives up the slot it has just written;
\* an entry it found it leaves, and reports no error
IndexFails(t) ==
    /\ boot = "up"
    /\ WriteFails(t)
    /\ toRelease' = [toRelease EXCEPT ![t] =
                        @ \cup (IF db[op[t].addr] = None
                                THEN {<<op[t].addr, op[t].loc>>} ELSE {})]
    /\ op' = [op EXCEPT ![t] = NoOp]
    /\ UNCHANGED <<slotVars, pending, written, boot, history>>

IndexRecorded(t) ==
    /\ boot = "up"
    /\ AppendRevertOps(t)
    /\ net' = [net EXCEPT ![t][op[t].addr] = @ + op[t].delta]
    /\ op' = [op EXCEPT ![t] = NoOp]
    /\ UNCHANGED <<slotVars, sharkyTx, boot, refs>>

-----------------------------------------------------------------------------
(* TxChunkStoreWrapper.Commit and Rollback                                 *)

Ready(t) == boot = "up" /\ op[t] = NoOp

\* Commit of the index ...
CommitIndex(t) ==
    /\ Ready(t)
    /\ Commit(t)
    /\ op' = [op EXCEPT ![t].kind = "releasing"]
    /\ refs' = [a \in Keys |-> refs[a] + net[t][a]]
    /\ UNCHANGED <<slotVars, sharkyTx, boot, net>>

\* ... which may fail because of the context; the rest is done all the same
CommitIndexFails(t) ==
    /\ Ready(t)
    /\ CommitFails(t)
    /\ op' = [op EXCEPT ![t].kind = "releasing"]
    /\ UNCHANGED <<slotVars, sharkyTx, boot, history>>

\* the commit of the other index transaction of the repository has failed:
\* this one is neither committed nor rolled back
CommitSkipped(t) ==
    /\ Ready(t)
    /\ CommitFails(t)
    /\ UNCHANGED chunkVars

\* seeded fault: what was deleted is forgotten
ReleaseDeletedNot(t) ==
    /\ boot = "up"
    /\ op[t].kind = "releasing"
    /\ toRelease' = [toRelease EXCEPT ![t] = {}]
    /\ UNCHANGED <<vars, slotVars, pending, written, op, boot, history>>

\* ... release what was deleted, one by one ...
ReleaseDeleted(t) ==
    /\ boot = "up"
    /\ op[t].kind = "releasing"
    /\ \E l \in toRelease[t] :
          /\ free' = free \cup {l[2]}
          /\ toRelease' = [toRelease EXCEPT ![t] = @ \ {l}]
    /\ UNCHANGED <<vars, ahead, blob, pending, written, op, boot, history>>

\* Rollback of the index ...
RollbackIndex(t) ==
    /\ sc.aborts \/ tx[t].cancelled
    /\ Ready(t)
    /\ Rollback(t)
    /\ op' = [op EXCEPT ![t].kind = "unwriting"]
    /\ UNCHANGED <<slotVars, sharkyTx, boot, history>>

\* seeded fault: what was written is forgotten
ReleaseWrittenNot(t) ==
    /\ boot = "up"
    /\ op[t].kind = "unwriting"
    /\ written' = [written EXCEPT ![t] = {}]
    /\ UNCHANGED <<vars, slotVars, pending, toRelease, op, boot, history>>

\* ... release what was written
ReleaseWritten(t) ==
    /\ boot = "up"
    /\ op[t].kind = "unwriting"
    /\ \E l \in written[t] :
          /\ free' = free \cup {l}
          /\ written' = [written EXCEPT ![t] = @ \ {l}]
    /\ UNCHANGED <<vars, ahead, blob, pending, toRelease, op, boot, history>>

\* ... and delete the record of locations
EndTx(t) ==
    /\ boot = "up"
    /\ \/ op[t].kind = "releasing" /\ toRelease[t] = {}
       \/ op[t].kind = "unwriting" /\ written[t] = {}
    /\ pending' = [pending EXCEPT ![t] = {}]
    /\ written' = [written EXCEPT ![t] = {}]
    /\ toRelease' = [toRelease EXCEPT ![t] = {}]
    /\ op' = [op EXCEPT ![t] = NoOp]
    /\ UNCHANGED <<vars, slotVars, boot, history>>

-----------------------------------------------------------------------------
(* Crash and start                                                         *)

ChunkCrash ==
    /\ boot = "up"
    /\ \/ "commit" \in sc.crashAt
       \/ \A t \in Txs : op[t].kind \notin {"releasing", "unwriting"}
    /\ "put" \in sc.crashAt \/ \A t \in Txs : pending[t] = {}
    /\ Crash
    /\ boot' = "down"
    /\ ahead' = << >>
    /\ written' = [t \in Txs |-> {}]
    /\ toRelease' = [t \in Txs |-> {}]
    /\ op' = [t \in Txs |-> NoOp]
    /\ UNCHANGED <<free, blob, pending, history>>

\* seeded fault: no location is marked as used
RecoverSlotsFree ==
    /\ boot = "down"
    /\ free' = Slots
    /\ boot' = "slots"
    /\ UNCHANGED <<vars, ahead, blob, sharkyTx, op, history>>

\* sharkyRecovery rebuilds the free slots from the index as the crash left it;
\* sharky.New
RecoverSlots ==
    /\ boot = "down"
    /\ free' = Slots \ Located
    /\ boot' = "slots"
    /\ UNCHANGED <<vars, ahead, blob, sharkyTx, op, history>>

\* leveldbstore's Recover
RecoverIndex ==
    /\ boot = "slots"
    /\ \E order \in SetToSeqs(Pending) : Recover(order)
    /\ boot' = "index"
    /\ UNCHANGED <<slotVars, sharkyTx, op, history>>

\* the chunk store's Recover: release the locations of every record
RecoverChunks ==
    /\ boot = "index"
    /\ free' = free \cup UNION {pending[t] : t \in Txs}
    /\ pending' = [t \in Txs |-> {}]
    /\ boot' = "up"
    /\ UNCHANGED <<vars, ahead, blob, written, toRelease, op, history>>

-----------------------------------------------------------------------------
StartTx(t) == boot = "up" /\ NewTx(t) /\ UNCHANGED chunkVars

CancelTx(t) == sc.cancels /\ boot = "up" /\ Cancel(t) /\ UNCHANGED chunkVars

ChunkNext ==
    \/ PopAhead
    \/ \E t \in Txs :
          \/ StartTx(t) \/ CancelTx(t)
          \/ Record(t) \/ IndexWrite(t) \/ IndexFails(t) \/ IndexRecorded(t)
          \/ CommitIndex(t) \/ CommitIndexFails(t) \/ CommitSkipped(t)
          \/ ReleaseDeleted(t) \/ RollbackIndex(t) \/ ReleaseWritten(t)
          \/ EndTx(t)
          \/ \E a \in Keys :
                \/ PutKnown(t, a) \/ PutDeleted(t, a) \/ PutNew(t, a)
                \/ DeleteShared(t, a) \/ DeleteLast(t, a)
    \/ ChunkCrash \/ RecoverSlots \/ RecoverIndex \/ RecoverChunks

ChunkSpec == ChunkInit /\ [][ChunkNext]_allVars

-----------------------------------------------------------------------------
(* Properties                                                              *)

\* The state is well formed.
ChunkTypeOK ==
    /\ TypeOK
    /\ free \subseteq Slots /\ Range(ahead) \subseteq Slots
    /\ Located \subseteq Slots
    /\ \A t \in Txs : pending[t] \subseteq Slots

\* Every chunk in the index can be read: its slot holds it, and is neither
\* free nor about to be written.
IndexedIntact ==
    boot = "up" =>
        \A a \in Indexed :
            /\ blob[db[a].loc] = a
            /\ db[a].loc \notin free \cup Range(ahead)

\* A slot is free once: what was popped is not free, and is popped once.
SlotOnce ==
    /\ Range(ahead) \cap free = {}
    /\ IsInjective(ahead)

Quiet == \A t \in Txs :
            tx[t].pc \in {"idle", "committed", "rolledback"} /\ op[t] = NoOp

\* When no transaction is open no slot is missing: each is free, popped ahead,
\* or the location of a chunk (Commit and Rollback release all they must).  A
\* context cancelled between the two commits of a transaction does lose slots.
NoSlotLost ==
    boot = "up" /\ Quiet /\ (\A t \in Txs : ~tx[t].cancelled)
        => free \cup Range(ahead) \cup Located = Slots

\* When no transaction is open the reference count of a chunk is the number of
\* puts less deletes of the committed transactions.
RefCountExact ==
    boot = "up" /\ Quiet =>
        \A a \in Keys : refs[a] = IF db[a] = None THEN 0 ELSE db[a].ref

\* Slots are neither handed out twice nor, without a cancelled context, lost (slots.pop, Commit,
\* Rollback).
SlotsExact == SlotOnce /\ NoSlotLost
=============================================================================
