-------------------------------- MODULE Bmt --------------------------------
(***************************************************************************)
(* The binary Merkle tree hasher (pkg/bmt), the pool its trees come from   *)
(* (pkg/bmtpool) and the proofs made of it (storageincentives/proof.go).   *)
(* A chunk is written section by section; every full section is hashed by  *)
(* a goroutine of its own that climbs the tree.  At each node the first of *)
(* the two sisters stops and the second hashes both; the goroutine of the  *)
(* last section fills in the subtrees that were never written.  The tree   *)
(* goes back to the pool with whatever the goroutines left in it.          *)
(*                                                                         *)
(* A segment is one symbol and a section two.  Hashes are free terms: two  *)
(* are equal exactly when they were made of the same data.                 *)
(***************************************************************************)
EXTENDS Integers, Sequences

CONSTANTS
    BmtDepth,        \* levels of the tree: 2^BmtDepth segments
    BmtCapacity,     \* trees in the pool
    BmtClients       \* callers that hash concurrently

VARIABLES
    jobs,      \* the chunks each client hashes, in turn
    trees,     \* buffer, nodes and toggles of every tree
    pool,      \* trees that can be taken, in the order they were put back
    threads,   \* goroutines started by processSection that have not returned
    hasher,    \* the Hasher each client works with
    sums       \* what Hash and Verify returned

bmtvars == <<jobs, trees, pool, threads, hasher, sums>>

maxSize == 2 ^ BmtDepth
Sections == maxSize \div 2

Zero == <<0>>
Nil == <<>>

doHash(l, r) == <<l, r>>

\* the hash of a subtree of zeros, by level
zerohashes[k \in 0 .. BmtDepth] ==
    IF k = 0 THEN Zero ELSE doHash(zerohashes[k - 1], zerohashes[k - 1])

\* newTree: nodes numbered from the root, which has no parent (0)
Inner == 1 .. (Sections - 1)
LeafNode(i) == Sections + i
ParentNode(n) == n \div 2
IsLeftNode(n) == n = 1 \/ n % 2 = 0

newTree(counter) ==
    [buffer |-> [p \in 1 .. maxSize |-> Zero],
     left |-> [n \in Inner |-> Nil], right |-> [n \in Inner |-> Nil],
     state |-> [n \in Inner |-> counter]]

-----------------------------------------------------------------------------
(* The toggle of a node is an int32 that only grows, read modulo two with  *)
(* the sign of the dividend.                                               *)

MaxInt32 == 2147483647
AddInt32(x) == IF x = MaxInt32 THEN -MaxInt32 - 1 ELSE x + 1
GoMod2(x) == IF x >= 0 THEN x % 2 ELSE -(x % 2)

\* whether the goroutine is the first of two to arrive
WaitingTree(x) == GoMod2(AddInt32(x)) = 1

-----------------------------------------------------------------------------
(* A client's chunk: size symbols written step at a time, and the segments *)
(* to prove (none for a plain hash).                                       *)

Job(c) == jobs[c][hasher[c].job]
Datum(c, j, p) == <<1 + 100 * j + 10 * (IF c = 1 THEN 1 ELSE 2) + p>>

Resting == [pc |-> "idle", job |-> 1, tree |-> 0, size |-> 0, pos |-> 0, proofs |-> {}]

BmtInit(work, counter) ==
    /\ jobs = work
    /\ trees = [t \in 1 .. BmtCapacity |-> newTree(counter)]
    /\ pool = [t \in 1 .. BmtCapacity |-> t]
    /\ threads = {}
    /\ hasher = [c \in BmtClients |-> Resting]
    /\ sums = {}

\* Pool.Get, and SetHeader with the span of the chunk
GetTree(c) ==
    /\ hasher[c].pc = "idle"
    /\ hasher[c].job <= Len(jobs[c])
    /\ pool # <<>>
    /\ hasher' = [hasher EXCEPT ![c] = [Resting EXCEPT !.pc = "write", !.job = hasher[c].job,
                                                      !.tree = Head(pool)]]
    /\ pool' = Tail(pool)
    /\ UNCHANGED <<jobs, trees, threads, sums>>

\* go processSection(i, final)
Thread(c, i, final) ==
    [client |-> c, job |-> hasher[c].job, tree |-> hasher[c].tree, sec |-> i, final |-> final,
     pc |-> "section", node |-> 0, left |-> TRUE, s |-> Nil, level |-> 1]

\* Hasher.Write: the full sections are hashed at once, except the one that fills the buffer
Written(c, data) ==
    LET h == hasher[c]
        l == IF Len(data) > maxSize - h.size THEN maxSize - h.size ELSE Len(data)
        size == h.size + l
        to == IF l = maxSize - h.size THEN (size \div 2) - 1 ELSE size \div 2
    IN  /\ trees' = [trees EXCEPT ![h.tree].buffer =
                         [p \in 1 .. maxSize |->
                             IF p > h.size /\ p <= h.size + l THEN data[p - h.size] ELSE @[p]]]
        /\ threads' = threads \cup {Thread(c, i, FALSE) : i \in (h.size \div 2) .. (to - 1)}
        /\ hasher' = [hasher EXCEPT ![c].size = size, ![c].pos = to]

\* the next part of the chunk, as the caller gives it
Write(c) ==
    LET h == hasher[c]
        n == IF Job(c).size - h.size < Job(c).step THEN Job(c).size - h.size ELSE Job(c).step
    IN  /\ h.pc = "write"
        /\ h.size < Job(c).size /\ h.size < maxSize
        /\ Written(c, [p \in 1 .. n |-> Datum(c, h.job, h.size + p)])
        /\ UNCHANGED <<jobs, pool, sums>>

\* Prover.Hash: sections of zeros up to the end of the buffer
PadWrite(c) ==
    LET h == hasher[c]
    IN  /\ h.pc = "write" /\ Job(c).prove # {}
        /\ h.size >= Job(c).size /\ h.size < maxSize
        /\ Written(c, <<Zero, Zero>>)
        /\ UNCHANGED <<jobs, pool, sums>>

AllWritten(c) ==
    LET h == hasher[c]
    IN  /\ h.pc = "write"
        /\ h.size = maxSize \/ (h.size = Job(c).size /\ Job(c).prove = {})

Sum(c, value) ==
    [client |-> c, job |-> hasher[c].job, index |-> 0, of |-> doHash(<<Job(c).size>>, value)]

\* Hash of nothing
HashEmpty(c) ==
    /\ AllWritten(c) /\ hasher[c].size = 0
    /\ sums' = sums \cup {Sum(c, zerohashes[BmtDepth])}
    /\ hasher' = [hasher EXCEPT ![c].pc = "summed"]
    /\ UNCHANGED <<jobs, trees, pool, threads>>

\* Hash: the rest of the last section is cleared and its goroutine started
HashLast(c) ==
    LET h == hasher[c]
    IN  /\ AllWritten(c) /\ h.size > 0
        /\ trees' = [trees EXCEPT ![h.tree].buffer =
                         [p \in 1 .. maxSize |->
                             IF p > h.size /\ p <= h.size + 2 THEN Zero ELSE @[p]]]
        /\ threads' = threads \cup {Thread(c, h.pos, TRUE)}
        /\ hasher' = [hasher EXCEPT ![c].pc = "wait"]
        /\ UNCHANGED <<jobs, pool, sums>>

\* Put, and the caller's next chunk; the proofs of a prover are used after it
Put(c) ==
    LET h == hasher[c]
    IN  /\ h.pc = "proved" \/ (h.pc = "summed" /\ Job(c).prove = {})
        /\ pool' = Append(pool, h.tree)
        /\ hasher' = [hasher EXCEPT ![c] =
                          IF Job(c).prove = {} THEN [Resting EXCEPT !.job = h.job + 1]
                          ELSE [h EXCEPT !.pc = "put"]]
        /\ UNCHANGED <<jobs, trees, threads, sums>>

-----------------------------------------------------------------------------
(* The goroutines: processSection, writeNode and writeFinalNode.           *)

Moved(t, u) == threads' = (threads \ {t}) \cup {u}
Ended(t) == threads' = threads \ {t}

HashSection(t) ==
    LET b == trees[t.tree].buffer
    IN  /\ t.pc = "section"
        /\ Moved(t, [t EXCEPT !.pc = "assign", !.node = ParentNode(LeafNode(t.sec)),
                              !.left = IsLeftNode(LeafNode(t.sec)),
                              !.s = doHash(b[2 * t.sec + 1], b[2 * t.sec + 2])])
        /\ UNCHANGED <<jobs, trees, pool, hasher, sums>>

\* the sister of a final node that comes from the left is a subtree of zeros
ZeroSisterOfSection(level) == zerohashes[0]
ZeroSister(level) == zerohashes[level]

\* the node's sides after the goroutine has written its own
Sides(t) ==
    LET tr == trees[t.tree]
    IN  CASE t.left /\ t.final ->
                 [tr EXCEPT !.right[t.node] = ZeroSister(t.level),
                            !.left[t.node] = IF t.s # Nil THEN t.s ELSE @]
          [] t.left /\ ~t.final -> [tr EXCEPT !.left[t.node] = t.s]
          [] ~t.left /\ t.s # Nil -> [tr EXCEPT !.right[t.node] = t.s]
          [] OTHER -> tr

\* n.left = s or n.right = s; a final goroutine that brings a hash from the left is alone, and
\* one that brings none from the right has nothing to add
Assign(t) ==
    /\ t.pc = "assign" /\ t.node # 0
    /\ trees' = [trees EXCEPT ![t.tree] = Sides(t)]
    /\ Moved(t, CASE t.final /\ t.left /\ t.s # Nil -> [t EXCEPT !.pc = "sum"]
                  [] t.final /\ ~t.left /\ t.s = Nil -> [t EXCEPT !.pc = "climb"]
                  [] OTHER -> [t EXCEPT !.pc = "toggle"])
    /\ UNCHANGED <<jobs, pool, hasher, sums>>

\* n.toggle(): the first to arrive stops, or climbs without a hash when it is the final one
Toggle(t) ==
    LET x == trees[t.tree].state[t.node]
    IN  /\ t.pc = "toggle"
        /\ trees' = [trees EXCEPT ![t.tree].state[t.node] = AddInt32(x)]
        /\ IF WaitingTree(x)
           THEN IF t.final THEN Moved(t, [t EXCEPT !.pc = "climb", !.s = Nil]) ELSE Ended(t)
           ELSE Moved(t, [t EXCEPT !.pc = "sum"])
        /\ UNCHANGED <<jobs, pool, hasher, sums>>

\* doHash(n.hasher, n.left, n.right)
HashNode(t) ==
    /\ t.pc = "sum"
    /\ Moved(t, [t EXCEPT !.pc = "climb",
                          !.s = doHash(trees[t.tree].left[t.node], trees[t.tree].right[t.node])])
    /\ UNCHANGED <<jobs, trees, pool, hasher, sums>>

Climb(t) ==
    /\ t.pc = "climb"
    /\ Moved(t, [t EXCEPT !.pc = "assign", !.left = IsLeftNode(t.node), !.node = ParentNode(t.node),
                          !.level = @ + 1])
    /\ UNCHANGED <<jobs, trees, pool, hasher, sums>>

\* at the root: the result is handed to Hash, which is the only one to receive it
Deliver(t) ==
    /\ t.pc = "assign" /\ t.node = 0 /\ t.s # Nil
    /\ hasher[t.client].pc = "wait" /\ hasher[t.client].job = t.job
    /\ sums' = sums \cup {Sum(t.client, t.s)}
    /\ hasher' = [hasher EXCEPT ![t.client].pc = "summed"]
    /\ Ended(t)
    /\ UNCHANGED <<jobs, trees, pool>>

ReturnEmpty(t) ==
    /\ t.pc = "assign" /\ t.node = 0 /\ t.s = Nil
    /\ Ended(t)
    /\ UNCHANGED <<jobs, trees, pool, hasher, sums>>

-----------------------------------------------------------------------------
(* Proofs.  The sisters above the section are copied out of the tree; the  *)
(* segment and its own sister are slices of the tree's buffer.             *)

\* the nodes from the parent of section i's leaf to the root
PathUp[n \in 0 .. (maxSize - 1)] == IF n = 0 THEN <<>> ELSE <<n>> \o PathUp[ParentNode(n)]

getSister(tr, n, left) == IF left THEN tr.right[n] ELSE tr.left[n]

ProofOf(tr, i) ==
    LET leaf == LeafNode(i \div 2)
        path == PathUp[leaf]
    IN  [index |-> i,
         sisters |-> [k \in 1 .. (Len(path) - 1) |->
                         getSister(tr, path[k + 1], IsLeftNode(path[k]))]]

\* a proof as its reader finds it: the slices read when it is used
Read(proof, tr) ==
    [index |-> proof.index, sisters |-> proof.sisters,
     segment |-> tr.buffer[proof.index + 1],
     sister |-> tr.buffer[IF proof.index % 2 = 0 THEN proof.index + 2 ELSE proof.index]]

\* Verify: the root a proof leads to
Folded(proof) ==
    LET leaf == LeafNode(proof.index \div 2)
        path == PathUp[leaf]
        Up[k \in 0 .. (Len(path) - 1)] ==
            IF k = 0
            THEN IF proof.index % 2 = 0 THEN doHash(proof.segment, proof.sister)
                 ELSE doHash(proof.sister, proof.segment)
            ELSE IF IsLeftNode(path[k]) THEN doHash(Up[k - 1], proof.sisters[k])
                 ELSE doHash(proof.sisters[k], Up[k - 1])
    IN  Up[Len(path) - 1]

Verify(proof, span) == doHash(<<span>>, Folded(proof))

\* Prover.Proof for the segments asked for, once Hash has returned
Prove(c) ==
    LET h == hasher[c]
    IN  /\ h.pc = "summed" /\ Job(c).prove # {}
        /\ hasher' = [hasher EXCEPT ![c].pc = "proved",
                          ![c].proofs = {ProofOf(trees[h.tree], i) : i \in Job(c).prove}]
        /\ UNCHANGED <<jobs, trees, pool, threads, sums>>

\* NewChunkInclusionProof: after the trees were put back the slices are copied
UseProofs(c) ==
    LET h == hasher[c]
    IN  /\ h.pc = "put"
        /\ sums' = sums \cup
               {[client |-> c, job |-> h.job, index |-> 1 + p.index,
                 of |-> Verify(Read(p, trees[h.tree]), Job(c).size)] : p \in h.proofs}
        /\ hasher' = [hasher EXCEPT ![c] = [Resting EXCEPT !.job = h.job + 1]]
        /\ UNCHANGED <<jobs, trees, pool, threads>>

-----------------------------------------------------------------------------
ClientStep(c) ==
    GetTree(c) \/ Write(c) \/ PadWrite(c) \/ HashEmpty(c) \/ HashLast(c) \/ Prove(c) \/ Put(c)
      \/ UseProofs(c)

ThreadStep(t) ==
    HashSection(t) \/ Assign(t) \/ Toggle(t) \/ HashNode(t) \/ Climb(t) \/ Deliver(t)
      \/ ReturnEmpty(t)

BmtNext == (\E c \in BmtClients : ClientStep(c)) \/ (\E t \in threads : ThreadStep(t))

-----------------------------------------------------------------------------
(* What the hasher promises.                                               *)

\* RefHasher: the chunk padded with zeros, hashed in halves
RefHash(c, j) ==
    LET size == jobs[c][j].size
        Ref[n \in 1 .. (2 * Sections - 1)] ==
            IF n >= Sections
            THEN LET p == 2 * (n - Sections) + 1
                     At(q) == IF q <= size THEN Datum(c, j, q) ELSE Zero
                 IN  doHash(At(p), At(p + 1))
            ELSE doHash(Ref[2 * n], Ref[2 * n + 1])
    IN  doHash(<<size>>, Ref[1])

\* In whatever order the goroutines of a chunk run, and whatever an earlier chunk left in the
\* tree, Hash returns the hash of the chunk padded with zeros (bmt.go: writeNode and
\* writeFinalNode against reference.go).
HashExact == \A x \in sums : x.index = 0 => x.of = RefHash(x.client, x.job)

\* "A tree popped from the pool is guaranteed to have a clean state": every toggle of a tree in
\* the pool waits for a first sister, and no goroutine that is still running can write to it.
TreesClean ==
    \A k \in 1 .. Len(pool) :
        /\ \A n \in Inner : trees[pool[k]].state[n] % 2 = 0
        /\ \A t \in threads : t.tree = pool[k] =>
               /\ t.final /\ t.s = Nil /\ t.pc \in {"assign", "climb"}
               /\ t.pc = "assign" => t.node = 0 \/ ~t.left
               /\ \A k2 \in DOMAIN PathUp[t.node] :
                      LET n == PathUp[t.node][k2] IN ParentNode(n) # 0 => ~IsLeftNode(n)

\* A proof, while its prover holds the tree, leads to the hash of the chunk for every segment.
ProofsHold ==
    \A c \in BmtClients : hasher[c].pc = "proved" =>
        \A p \in hasher[c].proofs :
            Verify(Read(p, trees[hasher[c].tree]), Job(c).size) = RefHash(c, hasher[c].job)

\* The hasher, its pool and its proofs.
BmtSound == HashExact /\ TreesClean /\ ProofsHold

\* An inclusion proof, as NewChunkInclusionProof finds it, leads to the hash of the chunk it was
\* made of (proof.go: "Proof returns the inclusion proof of the i-th data segment").
ProofsUsable == \A x \in sums : x.index # 0 => x.of = RefHash(x.client, x.job)
=============================================================================
