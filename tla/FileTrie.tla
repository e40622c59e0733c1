------------------------------ MODULE FileTrie ------------------------------
(***************************************************************************)
(* How a file becomes a tree of chunks and is read back: the feeder, the   *)
(* hash trie writer with its redundancy parameters (pkg/file/pipeline,     *)
(* pkg/file/redundancy), the joiner with its brute-forced geometry         *)
(* (pkg/file/joiner, pkg/file/utils.go), and the simple splitter.          *)
(*                                                                         *)
(* A unit of data is its position in the file, from 1.  A chunk is its     *)
(* address: a leaf [kind, data], an intermediate chunk [kind, span, lvl,   *)
(* refs], a parity chunk [kind, of, n] - the n-th parity of those chunks.  *)
(* ChunkSize units fill a chunk, Branches references an intermediate one.  *)
(***************************************************************************)
EXTENDS Integers, Sequences, SequencesExt, FiniteSets, TLC

CONSTANTS
    Branches,    \* references in a chunk, and sections of one
    ParityTable, \* parities by the number of data chunks, at the level in use
    TrieLevels,  \* maxLevel of the hash trie
    FileSizes,   \* the sizes at which a file may end
    WriteSizes   \* the sizes of the writes

VARIABLES redundant, feeder, trie, job, froot

fvars == <<redundant, feeder, trie, job, froot>>

ChunkSize == Branches
Parities(n) == IF redundant THEN ParityTable[n] ELSE 0
MaxShards == Branches - Parities(Branches)
MaxChildren == MaxShards + Parities(MaxShards)

Leaf(d) == [kind |-> "leaf", data |-> d]
SpanOf(c) == IF c.kind = "leaf" THEN Len(c.data) ELSE c.span
IsParity(c) == c.kind = "parity"
DataRefs(c) == SelectSeq(c.refs, LAMBDA r : ~IsParity(r))

RECURSIVE SumSpans(_)
SumSpans(s) == IF s = <<>> THEN 0 ELSE SpanOf(Head(s)) + SumSpans(Tail(s))

---------------------------------------------------------------------------
(* The hash trie.  h.lv[l] are the references of level l, h.rs[l] the       *)
(* chunks of level l that wait for their parities.                          *)
NewTrie == [lv |-> [l \in 1 .. TrieLevels |-> <<>>],
            rs |-> [l \in 0 .. TrieLevels |-> <<>>], bad |-> FALSE, put |-> {}]

(* wrapFullLevel's chunk: the spans of the data references are summed, and  *)
(* the level is encoded where there are parities.                           *)
Wrapped(refs) ==
    [kind |-> "node", span |-> SumSpans(SelectSeq(refs, LAMBDA r : ~IsParity(r))),
     lvl |-> \E k \in DOMAIN refs : IsParity(refs[k]), refs |-> refs]

RECURSIVE WriteTo(_, _, _), Wrap(_, _), RsWrite(_, _, _), WriteParities(_, _, _, _)

(* writeToIntermediateLevel *)
WriteTo(h, l, c) ==
    LET g == [h EXCEPT !.lv[l] = Append(@, c), !.put = @ \cup {c}] IN
    IF Len(g.lv[l]) = MaxChildren THEN Wrap(g, l) ELSE g

(* wrapFullLevel: up with the wrapped chunk, then its parity, then cut. *)
Wrap(h, l) ==
    LET c == Wrapped(h.lv[l])
        g == RsWrite(WriteTo(h, l + 1, c), l, c)
    IN [g EXCEPT !.lv[l] = <<>>]

(* encode: the parities of what waits go to the level above. *)
WriteParities(h, l, n, of) ==
    IF n > Parities(Len(of)) THEN h
    ELSE WriteParities(WriteTo(h, l + 1, [kind |-> "parity", of |-> of, n |-> n]), l, n + 1, of)

Encode(h, l) ==
    IF ~redundant \/ h.rs[l] = <<>> THEN h
    ELSE [WriteParities(h, l, 1, h.rs[l]) EXCEPT !.rs[l] = <<>>]

(* ChunkWrite *)
RsWrite(h, l, c) ==
    IF ~redundant THEN h
    ELSE LET g == [h EXCEPT !.rs[l] = Append(@, c)] IN
         IF Len(g.rs[l]) = MaxShards THEN Encode(g, l) ELSE g

(* ChainWrite: level 1, and the data level of the redundancy. *)
ChainWrite(h, c) == RsWrite(WriteTo(h, 1, c), 0, c)

(* Sum: level by level an only reference is carried over (and its chunk     *)
(* elevated), more than one is wrapped.                                     *)
CarryOver(h, l) ==
    LET g == [h EXCEPT !.lv[l + 1] = @ \o h.lv[l]]
    IN IF ~redundant THEN g ELSE
       LET e == [g EXCEPT !.rs[l] = Append(@, h.rs[l - 1][1]),
                          !.bad = @ \/ Len(h.rs[l - 1]) # 1] IN
       IF Len(e.rs[l]) < MaxShards THEN e
       ELSE LET ps == [n \in 1 .. Parities(MaxShards) |->
                         [kind |-> "parity", of |-> e.rs[l], n |-> n]]
            IN [e EXCEPT !.rs[l] = <<>>, !.lv[l + 1] = @ \o ps,
                         !.put = @ \cup {ps[n] : n \in DOMAIN ps}]

RECURSIVE SumFrom(_, _)
SumFrom(h, l) ==
    IF l = TrieLevels THEN h
    ELSE LET n == Len(h.lv[l]) IN
         SumFrom(CASE n = 0 -> h
                   [] n = 1 -> CarryOver(h, l)
                   [] n = MaxChildren -> Wrap(h, l)
                   [] OTHER -> Wrap(Encode(h, l - 1), l), l + 1)

---------------------------------------------------------------------------
(* The feeder cuts what is written into chunks; Sum writes the rest, or the *)
(* empty chunk of an empty file.  FeedPipeline writes at most a chunk at a  *)
(* time: a longer Write would hand on one buffer for all of its chunks.     *)
RECURSIVE Feed(_, _)
Feed(f, h) ==
    IF Len(f) < ChunkSize THEN [f |-> f, h |-> h]
    ELSE Feed(SubSeq(f, ChunkSize + 1, Len(f)),
              ChainWrite(h, Leaf(SubSeq(f, 1, ChunkSize))))

FeederWrite(n) ==
    LET r == Feed(feeder.buf \o [i \in 1 .. n |-> feeder.wrote + i], trie) IN
    /\ froot.pc = "writing" /\ \E s \in FileSizes : feeder.wrote + n <= s
    /\ feeder' = [buf |-> r.f, wrote |-> feeder.wrote + n]
    /\ trie' = r.h
    /\ UNCHANGED <<redundant, job, froot>>

(* A mutant: an only reference is wrapped like any other. *)
TrieSumWraps(h) ==
    LET RECURSIVE S(_, _)
        S(g, l) == IF l = TrieLevels THEN g
                   ELSE S(IF g.lv[l] = <<>> THEN g ELSE Wrap(Encode(g, l - 1), l), l + 1)
    IN S(h, 1).lv[TrieLevels]

TrieSum(h) == SumFrom(h, 1).lv[TrieLevels]

(* The chunk the redundancy holds at the top (GetRootData) is also put as   *)
(* dispersed replicas.                                                      *)
FeederSum ==
    LET h == IF feeder.buf = <<>> /\ feeder.wrote > 0 THEN trie
             ELSE ChainWrite(trie, Leaf(feeder.buf))
    IN /\ froot.pc = "writing" /\ feeder.wrote \in FileSizes
       /\ Len(TrieSum(h)) = 1
       /\ froot' = LET s == SumFrom(h, 1) IN
            [pc |-> "summed", root |-> TrieSum(h)[1], put |-> s.put,
             ok |-> ~s.bad /\ (redundant => s.rs[TrieLevels - 1][1] = TrieSum(h)[1])]
       /\ UNCHANGED <<redundant, feeder, trie, job>>

---------------------------------------------------------------------------
(* ReferenceCount: the data and parity references of a subtree, from its    *)
(* span alone.                                                              *)
RECURSIVE BranchLevel(_, _, _)
BranchLevel(size, span, l) ==
    IF size >= span THEN l ELSE BranchLevel(size * MaxShards, span, l + 1)

RECURSIVE Power(_, _)
Power(b, n) == IF n <= 0 THEN 1 ELSE b * Power(b, n - 1)

ReferenceCount(span, lvl) ==
    LET ref  == ChunkSize * Power(MaxShards, BranchLevel(ChunkSize, span, 1) - 2)
        data == IF span <= ref THEN 1 ELSE (span + ref - 1) \div ref
    IN <<data, IF lvl THEN Parities(data) ELSE 0>>

(* subtrieSection: the span of the k-th section of an intermediate chunk.   *)
RECURSIVE BranchSize(_, _, _, _)
BranchSize(b, refs, size, branching) ==
    IF size - b * (refs - 1) <= b THEN b
    ELSE BranchSize(b * branching, refs, size, branching)

Branching(root) == IF root.kind = "node" /\ root.lvl THEN MaxShards ELSE Branches

subtrieSection(k, refs, size, branching) ==
    LET b == BranchSize(ChunkSize, refs, size, branching) IN
    IF k = refs THEN size - (refs - 1) * b ELSE b

(* readAtOffset: what it copies, as pairs of a buffer offset and a unit. *)
RECURSIVE ReadAtOffset(_, _, _, _, _, _, _)
ReadAtOffset(c, cur, off, boff, n, parity, br) ==
    IF c.kind = "leaf"
    THEN {<<boff + i, c.data[off - cur + i + 1]>> :
            i \in 0 .. ((IF n > Len(c.data) - (off - cur) THEN Len(c.data) - (off - cur) ELSE n) - 1)}
    ELSE LET refs == Len(c.refs) - parity
             RECURSIVE Sections(_, _, _, _, _)
             Sections(k, at, o, bo, left) ==
                 IF left = 0 \/ k > Len(c.refs) THEN {}
                 ELSE LET sec == subtrieSection(k, refs, c.span, br) IN
                      IF at + sec <= o THEN Sections(k + 1, at + sec, o, bo, left)
                      ELSE LET m == IF sec - (o - at) > left THEN left ELSE sec - (o - at)
                               d == c.refs[k]
                               p == IF d.kind = "node" THEN ReferenceCount(d.span, d.lvl)[2] ELSE 0
                           IN (IF SpanOf(d) > sec THEN {<<-1, -1>>} \* ErrMalformedTrie
                               ELSE ReadAtOffset(d, at, o, bo, m, p, br)) \cup
                               Sections(k + 1, at + sec, at + sec, bo + m, left - m)
         IN Sections(1, cur, off, boff, n)

RootParity(root) == IF root.kind = "node" THEN ReferenceCount(root.span, root.lvl)[2] ELSE 0

ReadAt(root, off, n) ==
    LET m == IF n > SpanOf(root) - off THEN SpanOf(root) - off ELSE n IN
    ReadAtOffset(root, 0, off, 0, m, RootParity(root), Branching(root))

(* processChunkAddresses: every reference is reported; a section larger     *)
(* than a chunk is entered through the getter, which knows the data chunks  *)
(* of the node alone where there are parities: a parity ends the iteration. *)
RECURSIVE IterateChunkAddresses(_, _, _)
IterateChunkAddresses(c, parity, br) ==
    IF c.kind = "leaf" THEN [ok |-> TRUE, seen |-> {}]
    ELSE LET refs == Len(c.refs) - parity
             enter == {k \in DOMAIN c.refs :
                          subtrieSection(k, refs, c.span, br) > ChunkSize}
             sub(k) == IterateChunkAddresses(c.refs[k],
                          IF c.refs[k].kind = "node"
                          THEN ReferenceCount(c.refs[k].span, c.refs[k].lvl)[2] ELSE 0, br)
         IN [ok |-> \A k \in enter : k <= refs /\ sub(k).ok,
             seen |-> {c.refs[k] : k \in DOMAIN c.refs}
                      \cup UNION {sub(k).seen : k \in {e \in enter : e <= refs}}]

Iterated(root) == IterateChunkAddresses(root, RootParity(root), Branching(root))

---------------------------------------------------------------------------
(* The simple splitter: j.lv[0] is the data level, j.sums counts the chunks *)
(* made of each level.                                                      *)
NewJob == [lv |-> [l \in 0 .. TrieLevels |-> <<>>],
           sums |-> [l \in 0 .. TrieLevels |-> 0], length |-> 0]

SumLevel(j, l) ==
    IF l = 0 THEN Leaf(j.lv[0])
    ELSE [kind |-> "node", lvl |-> FALSE, refs |-> j.lv[l],
          span |-> ((j.length - 1) % (Power(Branches, l) * ChunkSize)) + 1]

RECURSIVE WriteToLevel(_, _, _)
WriteToLevel(j, l, d) ==
    LET g == [j EXCEPT !.lv[l] = @ \o d] IN
    IF Len(g.lv[l]) = Branches
    THEN [WriteToLevel([g EXCEPT !.sums[l] = @ + 1], l + 1, <<SumLevel(g, l)>>)
            EXCEPT !.lv[l] = <<>>]
    ELSE g

HashUnfinished(j) ==
    IF j.length % ChunkSize = 0 THEN j
    ELSE [j EXCEPT !.lv[0] = <<>>, !.sums[0] = @ + 1, !.lv[1] = Append(@, SumLevel(j, 0))]

(* file.Levels: the logarithm of the number of the last section. *)
Levels(length) ==
    IF length <= Branches THEN 1
    ELSE 1 + (CHOOSE n \in 0 .. length : /\ Power(Branches, n) <= length - 1
                                         /\ length - 1 < Power(Branches, n + 1))

RECURSIVE MoveDangling(_, _, _)
MoveDangling(j, i, target) ==
    IF i >= target THEN j
    ELSE IF j.sums[i] > 0 /\ j.sums[i - 1] - Power(Branches, target - 1 - i) <= 1
    THEN MoveDangling([j EXCEPT !.lv[i + 1] = @ \o j.lv[i], !.lv[i] = <<>>], i + 1, target)
    ELSE MoveDangling([j EXCEPT !.sums[i] = @ + 1, !.lv[i] = <<>>,
                                !.lv[i + 1] = Append(@, SumLevel(j, i))], i + 1, target)

(* Write, chunk by chunk; with the last one the tree is finished. *)
JobWrite ==
    /\ froot.pc = "summed" /\ ~redundant /\ job.length < feeder.wrote
    /\ LET n == IF feeder.wrote - job.length < ChunkSize THEN feeder.wrote - job.length
                ELSE ChunkSize
           j == WriteToLevel([job EXCEPT !.length = @ + n], 0,
                             [i \in 1 .. n |-> job.length + i])
       IN job' = IF j.length = feeder.wrote
                 THEN MoveDangling(HashUnfinished(j), 1, Levels(j.length)) ELSE j
    /\ UNCHANGED <<redundant, feeder, trie, froot>>

(* digest: the first reference in the buffer, that of the highest level. *)
Digest(j) == LET l == CHOOSE k \in 1 .. TrieLevels :
                        j.lv[k] # <<>> /\ \A m \in (k + 1) .. TrieLevels : j.lv[m] = <<>>
             IN j.lv[l][1]

FileTrieInit(r) ==
    /\ redundant = r /\ feeder = [buf |-> <<>>, wrote |-> 0] /\ trie = NewTrie
    /\ job = NewJob /\ froot = [pc |-> "writing", root |-> <<>>, put |-> {}, ok |-> TRUE]

FileTrieNext == FeederSum \/ JobWrite \/ \E n \in WriteSizes : FeederWrite(n)

---------------------------------------------------------------------------
SplitTree == ~redundant /\ job.length = feeder.wrote /\ feeder.wrote > 0

(* What was written is what is read (ReadAt over the tree of Sum): for      *)
(* every range of the file the joiner copies exactly its units, each to its *)
(* place; what it derives from the span of a chunk (ReferenceCount,         *)
(* subtrieSection) is what the writer built, parities included.  The        *)
(* splitter's tree is the same below two full intermediate chunks           *)
(* (SplitterSame).  The top of the redundancy's buffer is the root.         *)
ReadsBack ==
    froot.pc = "summed" =>
    /\ froot.ok /\ SpanOf(froot.root) = feeder.wrote
    /\ \A off \in 0 .. (feeder.wrote - 1), n \in 1 .. feeder.wrote :
          ReadAt(froot.root, off, n) =
            {<<i, off + i + 1>> : i \in 0 .. ((IF off + n > feeder.wrote THEN feeder.wrote - off ELSE n) - 1)}
    /\ \A c \in froot.put : c.kind = "node" =>
          ReferenceCount(c.span, c.lvl) = <<Len(DataRefs(c)), Len(c.refs) - Len(DataRefs(c))>>
    /\ SplitTree /\ feeder.wrote < 2 * Branches * ChunkSize => Digest(job) = froot.root
    /\ ~redundant => Iterated(froot.root) = [ok |-> TRUE, seen |-> froot.put \ {froot.root}]

(* "Sum returns the Aisc hash of the data." (SimpleSplitterJob): the hash   *)
(* the pipeline gives the same data.                                        *)
SplitterSame == froot.pc = "summed" /\ SplitTree => Digest(job) = froot.root

(* "IterateChunkAddresses is used to iterate over chunks addresses of some  *)
(* root hash." (file.Joiner): every chunk that was put for the file is      *)
(* reported, and no error is.                                               *)
IteratesAll ==
    froot.pc = "summed" =>
       Iterated(froot.root) = [ok |-> TRUE, seen |-> froot.put \ {froot.root}]
=============================================================================
