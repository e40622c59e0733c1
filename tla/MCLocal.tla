------------------------------ MODULE MCLocal ------------------------------
(***************************************************************************)
(* Small instances of the local storage: the transactional key-value store *)
(* by itself, the chunk store on top of it, and sharky, the blob store     *)
(* under the chunk store.  A behaviour is of one of them, chosen by focus  *)
(* from Focus, while the others rest in their initial state.               *)
(***************************************************************************)
EXTENDS ChunkStore, Sharky

CONSTANTS t1, t2, a1, a2, c1, c2, k1, k2, none, MaxRef, Focus

VARIABLES focus,
    tdb, trec, ttx, twriter, tup, tcrashes, tsc   \* the store by itself

-----------------------------------------------------------------------------
(* The chunk store. *)

Entries == [loc : Slots, ref : 1..MaxRef]

\* transactions that fail, each writing a chunk once and none writing a chunk
\* of another that is open
Aborting ==
    [keys |-> Keys, txs |-> 2, ops |-> 2, crashes |-> 0, once |-> TRUE,
     exclusive |-> TRUE, crashAt |-> {}, aborts |-> TRUE, cancels |-> FALSE,
     deletes |-> TRUE]

\* transactions that all commit, and write what they like
Committing ==
    [Aborting EXCEPT !.txs = 2, !.ops = 3, !.once = FALSE,
                     !.exclusive = FALSE, !.aborts = FALSE]

\* one chunk, cancelled contexts, and a crash where no location is recorded
Restarting ==
    [Aborting EXCEPT !.keys = {a1}, !.txs = 2, !.crashes = 1, !.cancels = TRUE,
                     !.deletes = FALSE]

Regular == {Aborting, Committing, Restarting}

\* one transaction of one write, and a crash while it commits
CommitCrash ==
    {[Aborting EXCEPT !.keys = {a1}, !.txs = 1, !.ops = 1, !.crashes = 1,
                      !.aborts = FALSE, !.deletes = FALSE,
                      !.crashAt = {"put", "commit"}]}

\* a transaction that puts a chunk twice, and may fail
Repeating ==
    {[Aborting EXCEPT !.keys = {a1}, !.txs = 1, !.once = FALSE]}

-----------------------------------------------------------------------------
(* Sharky: a handful of callers, bytes of two slots. *)

\* Three writes, one of which may fail, until the first shutdown or crash, or
\* two writes over several starts.
Scope ==
    \/ starts = 1 /\ status = "open"
    \/ writes <= 2 /\ \A s \in DOMAIN file : file[s] # Torn

-----------------------------------------------------------------------------
(* The key-value store by itself. *)

Careful ==
    [keys |-> {k1, k2}, txs |-> 2, ops |-> 2, crashes |-> 1, once |-> TRUE,
     exclusive |-> TRUE, crashAt |-> {}]

Tx == INSTANCE TxStore WITH
    Keys <- {k1, k2}, Vals <- {1, 2}, Scenarios <- {Careful}, db <- tdb, rec <- trec,
    tx <- ttx, writer <- twriter, up <- tup, crashes <- tcrashes, sc <- tsc

txVars == <<tdb, trec, ttx, twriter, tup, tcrashes, tsc>>

-----------------------------------------------------------------------------
LocalSymmetry == Permutations(Txs) \cup Permutations(Clients)

LocalInit ==
    /\ focus \in Focus
    /\ ChunkInit /\ (focus # "chunkstore" => sc = Aborting)
    /\ SharkyInit /\ Tx!Init

LocalNext ==
    \/ focus = "txstore" /\ Tx!Next /\ UNCHANGED <<allVars, sharkyVars, focus>>
    \/ focus = "chunkstore" /\ ChunkNext /\ UNCHANGED <<sharkyVars, txVars, focus>>
    \/ focus = "sharky" /\ SharkyNext /\ UNCHANGED <<allVars, txVars, focus>>

LocalSpec == LocalInit /\ [][LocalNext]_<<allVars, sharkyVars, txVars, focus>>

-----------------------------------------------------------------------------
\* The key-value store implements atomic transactions (TxStore's AtomicSpec): only a commit
\* changes what survives, and brings in all the writes of its transaction at once, whatever
\* fails and wherever the process ends (leveldbstore.TxStore, Recover).
TxAtomic == Tx!AtomicSpec

\* What the index of the chunk store names is there: its chunks are intact, its slots exact and
\* its reference counts those of the committed calls (TxChunkStoreWrapper, Recover).
ChunkStoreSound == ChunkTypeOK /\ IndexedIntact /\ SlotsExact /\ RefCountExact
=============================================================================
