---------------------------- MODULE StorePasses -----------------------------
(***************************************************************************)
(* The passes over the whole local store: the sample of the reserve, and   *)
(* compaction and validation.                                              *)
(***************************************************************************)
EXTENDS Integers, Sequences, FiniteSets, SequencesExt, FiniteSetsExt

(***************************************************************************)
(* The reserve sample (storer.ReserveSample) and the witnesses of a claim  *)
(* (storageincentives/proof.go).  One goroutine walks the reserve, workers *)
(* load and transform the chunks, and the caller keeps the SampleSize      *)
(* smallest transformed addresses in order; chunks are evicted meanwhile.  *)
(* An item of the reserve is [chunk, batch, type, taddr, poor, late,       *)
(* stamp]: a transformed address is a number, its rank.                    *)
(***************************************************************************)

CONSTANTS SampleSize, SampleWorkers, Segments

VARIABLES ritems, gone, walk, chunkC, samplers, itemC, sample, sampling

svars == <<ritems, gone, walk, chunkC, samplers, itemC, sample, sampling>>

NoItem == [chunk |-> "none"]

(* IterateChunksItems: what is in the reserve is sent to the workers. *)
SampleIterate ==
    /\ sampling = "on"
    /\ \E i \in walk : /\ walk' = walk \ {i}
                       /\ chunkC' = IF i \in gone THEN chunkC ELSE chunkC \cup {i}
    /\ UNCHANGED <<ritems, gone, samplers, itemC, sample, sampling>>

(* The batches below the minimum value and unknown types are left out; a    *)
(* chunk that cannot be loaded any more is skipped.                         *)
Skipped(i) == i.poor \/ i.type \notin {"cac", "soc"} \/ i \in gone

Take(w) ==
    /\ sampling = "on" /\ samplers[w] = NoItem
    /\ \E i \in chunkC : /\ chunkC' = chunkC \ {i}
                         /\ samplers' = IF Skipped(i) THEN samplers
                                       ELSE [samplers EXCEPT ![w] = i]
    /\ UNCHANGED <<ritems, gone, walk, itemC, sample, sampling>>

(* transformedAddress fails for a soc that does not parse: the error group  *)
(* is cancelled, and the sample fails.                                      *)
Transform(w) ==
    /\ sampling = "on" /\ samplers[w] # NoItem
    /\ samplers' = [samplers EXCEPT ![w] = NoItem]
    /\ IF samplers[w].type = "soc" /\ ~samplers[w].parses
       THEN sampling' = "failed" /\ UNCHANGED itemC
       ELSE itemC' = itemC \cup {samplers[w]} /\ UNCHANGED sampling
    /\ UNCHANGED <<ritems, gone, walk, chunkC, sample>>

---------------------------------------------------------------------------
(* insert: at its place by transformed address; an equal one is replaced    *)
(* unless the new chunk reads as a single owner chunk; the last is omitted. *)
Kept(s) == IF Len(s) > SampleSize THEN SubSeq(s, 1, SampleSize) ELSE s

(* A mutant: the sample is full one too early when the item comes last. *)
insertNotLast(s, i) ==
    LET above == {k \in DOMAIN s : i.taddr < s[k].taddr}
        same  == {k \in DOMAIN s : i.taddr = s[k].taddr}
    IN IF same # {} THEN s
       ELSE IF above # {} THEN Kept(InsertAt(s, CHOOSE k \in above : \A j \in above : k <= j, i))
       ELSE IF Len(s) + 1 < SampleSize THEN Append(s, i) ELSE s

insert(s, i) ==
    LET above == {k \in DOMAIN s : i.taddr < s[k].taddr}
        same  == {k \in DOMAIN s : i.taddr = s[k].taddr}
    IN IF same # {}
       THEN IF i.parses THEN s ELSE [k \in DOMAIN s |-> IF k \in same THEN i ELSE s[k]]
       ELSE IF above # {} THEN Kept(InsertAt(s, CHOOSE k \in above : \A j \in above : k <= j, i))
       ELSE IF Len(s) < SampleSize THEN Append(s, i) ELSE s

(* The stamp is loaded and checked only for what would enter the sample. *)
StampFits(i) == i \notin gone /\ ~i.late /\ i.stamp

Considered(s, i) == Len(s) < SampleSize \/ i.taddr < s[Len(s)].taddr

Assemble ==
    /\ sampling = "on"
    /\ \E i \in itemC :
          /\ itemC' = itemC \ {i}
          /\ sample' = IF Considered(sample, i) /\ StampFits(i) THEN insert(sample, i)
                       ELSE sample
    /\ UNCHANGED <<ritems, gone, walk, chunkC, samplers, sampling>>

SampleDone ==
    /\ sampling = "on" /\ walk \cup chunkC \cup itemC = {}
    /\ \A w \in SampleWorkers : samplers[w] = NoItem
    /\ sampling' = "done"
    /\ UNCHANGED <<ritems, gone, walk, chunkC, samplers, itemC, sample>>

(* The reserve evicts a chunk while the sample is made. *)
EvictItem(i) ==
    /\ sampling = "on" /\ i.evictable /\ i \notin gone
    /\ gone' = gone \cup {i}
    /\ UNCHANGED <<ritems, walk, chunkC, samplers, itemC, sample, sampling>>

SamplerInit(items) ==
    /\ ritems = items /\ gone = {} /\ walk = items /\ chunkC = {} /\ itemC = {}
    /\ samplers = [w \in SampleWorkers |-> NoItem]
    /\ sample = <<>> /\ sampling = "on"

SamplerNext ==
    \/ SampleIterate \/ Assemble \/ SampleDone
    \/ \E w \in SampleWorkers : Take(w) \/ Transform(w)
    \/ \E i \in ritems : EvictItem(i)

---------------------------------------------------------------------------
(* makeInclusionProofs: the three samples a claim opens, by the second      *)
(* anchor, and the segment that is proved of each.                          *)
witnesses(anchor2) ==
    LET require3 == SampleSize - 1
        require1 == anchor2 % require3
        require2 == anchor2 % (require3 - 1)
    IN <<require1, IF require2 >= require1 THEN require2 + 1 ELSE require2, require3>>

(* The offset of the span in the data of a sample, and what is proved.      *)
spanOffset(i) == IF i.type = "soc" THEN "wrapped" ELSE "plain"

makeInclusionProofs(s, anchor2) ==
    [n \in 1 .. 3 |-> LET i == s[witnesses(anchor2)[n] + 1] IN
                      [item |-> i, at |-> spanOffset(i), segment |-> anchor2 % Segments]]

---------------------------------------------------------------------------
Eligible(i) == ~i.poor /\ i.type \in {"cac", "soc"} /\ ~i.late /\ i.stamp

(* The sample does not depend on the order in which workers finish          *)
(* (ReserveSample): it is strictly sorted by transformed address, holds     *)
(* only chunks that may be in it, and an eligible chunk that stayed in the  *)
(* reserve and whose address is not in it is larger than all of a full      *)
(* sample.  A claim on a full sample opens three different chunks of it,    *)
(* the last among them (makeInclusionProofs).                               *)
SampleExact ==
    sampling = "done" =>
    /\ Len(sample) <= SampleSize
    /\ \A k \in 2 .. Len(sample) : sample[k - 1].taddr < sample[k].taddr
    /\ \A k \in DOMAIN sample : Eligible(sample[k])
    /\ \A i \in ritems \ gone :
          Eligible(i) /\ (\A k \in DOMAIN sample : sample[k].taddr # i.taddr)
            => Len(sample) = SampleSize /\ sample[SampleSize].taddr < i.taddr
    /\ Len(sample) = SampleSize =>
          \A a \in 0 .. SampleSize * SampleSize :
             LET p == makeInclusionProofs(sample, a) IN
             /\ Cardinality({p[n].item.taddr : n \in 1 .. 3}) = 3
             /\ p[3].item = sample[SampleSize]

-----------------------------------------------------------------------------
(***************************************************************************)
(* The offline tools on the local store (storer.Compact, Validate,         *)
(* ValidatePinCollectionChunks) with sharky.Recovery: shard by shard the   *)
(* chunks of the last slots are moved to the first free ones, the index is *)
(* written in one batch, the file is cut and, at the end, the free slots   *)
(* of all shards are saved.  Afterwards the store is opened again and      *)
(* takes new chunks into the lowest slots its free files name.             *)
(* Slots are numbers from 0; a slot holds a chunk, or Blank.               *)
(***************************************************************************)

CONSTANTS CShards, CSlots, CChunks, NewChunks, Blank

VARIABLES compSc, compIndex, files, freeFile, used, comp, fresh, cout

cvars == <<compSc, compIndex, files, freeFile, used, comp, fresh, cout>>

Loc(s, n) == [shard |-> s, slot |-> n]
SlotNos == 0 .. (CSlots - 1)
At(ix, s) == {c \in DOMAIN ix : ix[c].shard = s}
SlotsUsed(ix, s) == {ix[c].slot : c \in At(ix, s)}

(* Read: of a location that the file still has. *)
Reads(l) == IF l.slot \in DOMAIN files[l.shard] THEN files[l.shard][l.slot] ELSE Blank

---------------------------------------------------------------------------
(* The index of a shard is read, and start and end set; a shard without a   *)
(* chunk ends the whole compaction with an error.                           *)
CompactShard ==
    /\ comp.pc = "shard" /\ comp.shard <= Max(CShards)
    /\ IF At(compIndex, comp.shard) = {}
       THEN comp' = [comp EXCEPT !.pc = "stopped"]
       ELSE comp' = [comp EXCEPT !.pc = "walk", !.start = 0,
                                 !.end = Max(SlotsUsed(compIndex, comp.shard)),
                                 !.batch = [c \in {} |-> 0]]
    /\ UNCHANGED <<compSc, compIndex, files, freeFile, used, fresh, cout>>

(* Where the chunks of the shard are, moves that wait in the batch included. *)
Now == [c \in DOMAIN compIndex |-> IF c \in DOMAIN comp.batch THEN comp.batch[c] ELSE compIndex[c]]
Holder(n) == {c \in At(compIndex, comp.shard) : c \notin DOMAIN comp.batch /\ compIndex[c].slot = n}

(* Add: the slot is marked in the vector of the recovery. *)
AddChunk(s, n) == used' = [used EXCEPT ![s] = @ \cup {n}]

Walk ==
    /\ comp.pc = "walk" /\ comp.start <= comp.end
    /\ \/ /\ Holder(comp.start) # {}
          /\ AddChunk(comp.shard, comp.start)
          /\ comp' = [comp EXCEPT !.start = @ + 1]
          /\ UNCHANGED files
       \/ /\ Holder(comp.start) = {} /\ Holder(comp.end) = {}
          /\ comp' = [comp EXCEPT !.end = @ - 1]
          /\ UNCHANGED <<files, used>>
       \/ /\ Holder(comp.start) = {}
          /\ \E c \in Holder(comp.end) :
                /\ files' = [files EXCEPT ![comp.shard] =
                       [n \in DOMAIN @ \cup {comp.start} |->
                          IF n = comp.start THEN @[comp.end] ELSE @[n]]]
                /\ AddChunk(comp.shard, comp.start)
                /\ comp' = [comp EXCEPT !.start = @ + 1, !.end = @ - 1,
                       !.batch = [d \in DOMAIN @ \cup {c} |->
                          IF d = c THEN Loc(comp.shard, comp.start) ELSE @[d]]]
    /\ UNCHANGED <<compSc, compIndex, freeFile, fresh, cout>>

(* The batch is committed. *)
CommitBatch ==
    /\ comp.pc = "walk" /\ comp.start > comp.end
    /\ compIndex' = Now
    /\ comp' = [comp EXCEPT !.pc = "truncate"]
    /\ UNCHANGED <<compSc, files, freeFile, used, fresh, cout>>

(* A mutant: the file is cut at the last slot in use. *)
CutLow == comp.end

Cut == comp.end + 1

Truncate ==
    /\ comp.pc = "truncate"
    /\ files' = [files EXCEPT ![comp.shard] = [n \in {m \in DOMAIN @ : m < Cut} |-> @[n]]]
    /\ comp' = [comp EXCEPT !.pc = "shard", !.shard = @ + 1]
    /\ UNCHANGED <<compSc, compIndex, freeFile, used, fresh, cout>>

(* Save: what was not added is free, in the bytes that the vector has. *)
SaveFree ==
    /\ comp.pc = "shard" /\ comp.shard > Max(CShards)
    /\ freeFile' = [s \in CShards |-> SlotNos \ used[s]]
    /\ comp' = [comp EXCEPT !.pc = "compacted"]
    /\ UNCHANGED <<compSc, compIndex, files, used, fresh, cout>>

(* The process is stopped on the way; the tool warns of it. *)
CompactKilled ==
    /\ compSc.interrupted /\ comp.pc \in {"shard", "walk", "truncate"}
    /\ comp' = [comp EXCEPT !.pc = "stopped"]
    /\ UNCHANGED <<compSc, compIndex, files, freeFile, used, fresh, cout>>

(* The context is done between two shards: what was added so far is saved   *)
(* as all that is in use.                                                   *)
CompactCancelled ==
    /\ compSc.interrupted /\ comp.pc = "shard" /\ comp.shard <= Max(CShards)
    /\ freeFile' = [s \in CShards |-> SlotNos \ used[s]]
    /\ comp' = [comp EXCEPT !.pc = "stopped"]
    /\ UNCHANGED <<compSc, compIndex, files, used, fresh, cout>>

---------------------------------------------------------------------------
(* The store is opened: no dirty mark was left, the free files are loaded,  *)
(* and a new chunk goes to the lowest free slot of a shard.                 *)
OpenStore ==
    /\ comp.pc \in {"stopped", "compacted"} /\ cout.pc # "counting"
    /\ comp' = [comp EXCEPT !.pc = "open"]
    /\ UNCHANGED <<compSc, compIndex, files, freeFile, used, fresh, cout>>

StoreChunk(s, c) ==
    /\ comp.pc = "open" /\ c \in fresh /\ freeFile[s] # {}
    /\ LET n == Min(freeFile[s]) IN
       /\ files' = [files EXCEPT ![s] = [m \in DOMAIN @ \cup {n} |-> IF m = n THEN c ELSE @[m]]]
       /\ freeFile' = [freeFile EXCEPT ![s] = @ \ {n}]
       /\ compIndex' = [d \in DOMAIN compIndex \cup {c} |-> IF d = c THEN Loc(s, n) ELSE compIndex[d]]
    /\ fresh' = fresh \ {c}
    /\ UNCHANGED <<compSc, used, comp, cout>>

---------------------------------------------------------------------------
(* validateWork: every entry of the index is read and compared with its     *)
(* address; one that cannot be read is only logged.  The eight workers      *)
(* count without a lock: an increment may be lost.  PinIntegrity.Check      *)
(* counts the chunks of a collection that are missing from the index or do  *)
(* not read as themselves.                                                  *)
Readable(c) == compIndex[c].slot \in DOMAIN files[compIndex[c].shard]
Invalid == {c \in DOMAIN compIndex : Reads(compIndex[c]) # c}

ValidateStart ==
    /\ comp.pc = "compacted" /\ cout.pc = "idle"
    /\ cout' = [cout EXCEPT !.pc = "counting", !.left = DOMAIN compIndex]
    /\ UNCHANGED <<compSc, compIndex, files, freeFile, used, comp, fresh>>

ValidateItem(lost) ==
    /\ cout.pc = "counting"
    /\ \E c \in cout.left :
          /\ lost => c \in Invalid
          /\ cout' = [cout EXCEPT !.left = @ \ {c},
                        !.invalid = IF c \in Invalid /\ Readable(c) /\ ~lost THEN @ + 1 ELSE @]
    /\ UNCHANGED <<compSc, compIndex, files, freeFile, used, comp, fresh>>

CheckPin(pin) ==
    LET found == pin \cap DOMAIN compIndex IN
    [total |-> Cardinality(pin), missing |-> Cardinality(pin \ found),
     invalid |-> Cardinality(found \cap Invalid)]

ValidateDone ==
    /\ cout.pc = "counting" /\ cout.left = {}
    /\ cout' = [cout EXCEPT !.pc = "counted", !.pin = CheckPin(compSc.pin)]
    /\ UNCHANGED <<compSc, compIndex, files, freeFile, used, comp, fresh>>

CompactionInit(sc) ==
    /\ compSc = sc /\ compIndex = sc.index
    /\ files = [s \in CShards |-> [n \in SlotNos |->
                  IF \E c \in DOMAIN sc.index : sc.index[c] = Loc(s, n)
                  THEN CHOOSE c \in DOMAIN sc.index : sc.index[c] = Loc(s, n) ELSE Blank]]
    /\ freeFile = [s \in CShards |-> SlotNos \ SlotsUsed(sc.index, s)]
    /\ used = [s \in CShards |-> {}]
    /\ comp = [pc |-> "shard", shard |-> Min(CShards), start |-> 0, end |-> 0,
               batch |-> [c \in {} |-> 0]]
    /\ fresh = NewChunks
    /\ cout = [pc |-> "idle", left |-> {}, invalid |-> 0,
               pin |-> [total |-> 0, missing |-> 0, invalid |-> 0]]

CompactionNext ==
    \/ CompactShard \/ Walk \/ CommitBatch \/ Truncate \/ SaveFree \/ CompactKilled
    \/ CompactCancelled \/ OpenStore \/ ValidateStart \/ ValidateDone
    \/ \E l \in BOOLEAN : ValidateItem(l)
    \/ \E s \in CShards, c \in NewChunks : StoreChunk(s, c)

---------------------------------------------------------------------------
(* Compaction loses nothing (Compact): while it runs, wherever it is cut    *)
(* short, and after it was completed, whatever is stored next, every chunk  *)
(* of the index reads as itself, and a complete compaction leaves no gap    *)
(* below the last chunk of a shard; the validation then finds nothing.  A   *)
(* compaction that was cut short is excepted from the moment the store is   *)
(* opened again: the free files no longer fit the index.                    *)
CompactionKeeps ==
    /\ (compSc.interrupted /\ comp.pc = "open") \/ Invalid = {}
    /\ comp.pc = "compacted" =>
          \A s \in CShards : SlotsUsed(compIndex, s) = 0 .. (Cardinality(At(compIndex, s)) - 1)
    /\ cout.pc = "counted" => cout.invalid = 0 /\ cout.pin.invalid = 0

(* "Next, sharky is compacted, after which, it is tested that valid chunks  *)
(* can still be retrieved." (TestCompact) - whichever way Compact returned. *)
CompactedReadable == Invalid = {}
=============================================================================
