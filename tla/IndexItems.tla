---------------------------- MODULE IndexItems ------------------------------
(***************************************************************************)
(* The records of the index store: how each type is stored and found, and  *)
(* the migrations that rewrite them.                                       *)
(***************************************************************************)
EXTENDS Integers, Sequences, FiniteSets, SequencesExt, TLC, FiniteSetsExt

(***************************************************************************)
(* The records a node keeps in its ordered key-value stores: how each type *)
(* of record is written to bytes and read back (Marshal and Unmarshal),    *)
(* under which key it is kept (Namespace and ID), and how the two stores,  *)
(* LevelDB and the one in memory, look records up and walk over them.      *)
(*                                                                         *)
(* A type of record is a table of its fields in the order they are written *)
(* and of the parts of its key.  Bytes are numbers below 256; a namespace  *)
(* is one symbol outside that range, as no namespace is a prefix of        *)
(* another.  Numbers are below 2^31 (TLC's range), so the bytes of a word  *)
(* above the fourth are 0.                                                 *)
(***************************************************************************)

CONSTANTS
    ItemScenarios   \* sets of records [type, field, ...] that are put and deleted

VARIABLES
    itemSc,         \* the records of this behaviour
    kv,             \* the store: a function from keys to the bytes of the values
    live            \* history: the records that are put and not deleted since

itemVars == <<itemSc, kv, live>>

-----------------------------------------------------------------------------
\* Bytes.

HashSize == 32
ReferenceSize == 64
Zeros(w) == [k \in 1 .. w |-> 0]

\* copy into w bytes of a fresh buffer: what is longer is cut, what is shorter is padded
Copied(v, w) == [k \in 1 .. w |-> IF k <= Len(v) THEN v[k] ELSE 0]

LittleEndian(n, w) == [k \in 1 .. w |-> IF k > 4 THEN 0 ELSE (n \div 256 ^ (k - 1)) % 256]
BigEndian(n, w) == Reverse(LittleEndian(n, w))
FromLittle(b) == LET w == IF Len(b) < 4 THEN Len(b) ELSE 4
                     Value[k \in 0 .. w] == IF k = 0 THEN 0
                                            ELSE Value[k - 1] + b[k] * 256 ^ (k - 1)
                 IN  Value[w]
FromBig(b) == FromLittle(Reverse(b))

\* fmt's %d and strconv.FormatUint: the decimal digits
Decimal(n) ==
    LET Digits[m \in 0 .. n] == IF m < 10 THEN <<48 + m>>
                                ELSE Append(Digits[m \div 10], 48 + (m % 10))
    IN  Digits[n]

\* string(b) of a byte b is the UTF-8 of the rune b: two bytes from 128 on
Rune(b) == IF b < 128 THEN <<b>> ELSE <<192 + (b \div 64), 128 + (b % 64)>>

-----------------------------------------------------------------------------
(***************************************************************************)
(* Fields: [name, kind, width].  A "text" is preceded by its length, an    *)
(* "address" may be the zero address, written as zeros, a "reference" has  *)
(* 64 bytes of which the last 32 are zeros unless it holds a key, "digit"  *)
(* is '0' or '1', "big" a right-aligned number; a "pad" is never read.     *)
(***************************************************************************)
Field(name, kind, width) == [name |-> name, kind |-> kind, width |-> width]
Raw(name, width) == Field(name, "raw", width)
Hash(name) == Raw(name, HashSize)
Byte(name) == Field(name, "le", 1)
LE64(name) == Field(name, "le", 8)
BE64(name) == Field(name, "be", 8)

Location == <<Byte("Shard"), Field("Slot", "le", 4), Field("Length", "le", 2)>>
StampFields == <<Hash("BatchID"), Raw("Index", 8), Raw("Timestamp", 8), Raw("Sig", 65)>>

\* A type: its namespace, the fields of its value, the parts of its key, and what Marshal
\* refuses: a zero address, a field of another length, a number that is not positive.
Type(ns, fields, key, nonzero, sized, positive) ==
    [ns |-> ns, fields |-> fields, key |-> key, nonzero |-> nonzero, sized |-> sized,
     positive |-> positive]

Part(kind, name) == [kind |-> kind, name |-> name]
Slash == Part("slash", "")
Name(n) == Part("name", n)

BatchRadiusItem ==
    Type(<<Name("batchRadius")>>,
         <<Byte("Bin"), Hash("BatchID"), Hash("Address"), BE64("BinID")>>,
         <<Part("raw", "BatchID"), Part("rune", "Bin"), Part("raw", "Address")>>,
         {"Address"}, {}, {})

\* with the bin ID of the key in little-endian order
ChunkBinItemLittle ==
    Type(<<Name("chunkBin")>>,
         <<Byte("Bin"), BE64("BinID"), Hash("Address"), Hash("BatchID"), Byte("ChunkType")>>,
         <<Part("rune", "Bin"), Part("le", "BinID")>>,
         {"Address"}, {}, {})

ChunkBinItem ==
    Type(<<Name("chunkBin")>>,
         <<Byte("Bin"), BE64("BinID"), Hash("Address"), Hash("BatchID"), Byte("ChunkType")>>,
         <<Part("rune", "Bin"), Part("be", "BinID")>>,
         {"Address"}, {}, {})

BinItem == Type(<<Name("binID")>>, <<BE64("BinID")>>, <<Part("rune", "Bin")>>, {}, {}, {})

EpochItem == Type(<<Name("epochItem")>>, <<BE64("Timestamp")>>, <<>>, {}, {}, {})

radiusItem == Type(<<Name("radius")>>, <<Byte("Radius")>>, <<>>, {}, {}, {})

pushItem ==
    Type(<<Name("pushIndex")>>,
         <<LE64("Timestamp"), Hash("Address"), Hash("BatchID"), LE64("TagID")>>,
         <<Part("decimal", "Timestamp"), Slash, Part("raw", "Address"), Slash, Part("raw", "BatchID")>>,
         {"Address"}, {"BatchID"}, {})

TagItem ==
    Type(<<Name("tagItem")>>,
         <<LE64("TagID"), LE64("Split"), LE64("Seen"), LE64("Stored"), LE64("Sent"), LE64("Synced"),
           Field("Address", "address", HashSize), LE64("StartedAt")>>,
         <<Part("decimal", "TagID")>>, {}, {}, {})

uploadItem ==
    Type(<<Name("UploadItem")>>,
         <<LE64("TagID"), LE64("Uploaded"), LE64("Synced")>>,
         <<Part("raw", "Address"), Slash, Part("raw", "BatchID")>>,
         {"Address"}, {"BatchID"}, {})

dirtyTagItem ==
    Type(<<Name("DirtyTagItem")>>, <<LE64("TagID"), LE64("Started")>>, <<Part("decimal", "TagID")>>,
         {}, {}, {})

pinCollectionItem ==
    Type(<<Name("pinCollectionItem")>>,
         <<Field("Addr", "reference", ReferenceSize), Raw("UUID", 16), LE64("Total"), LE64("Dup")>>,
         <<Part("raw", "Addr")>>, {"Addr", "UUID"}, {}, {})

pinChunkItem ==
    Type(<<Part("raw", "UUID")>>, <<>>, <<Part("raw", "Addr")>>, {}, {}, {})

dirtyCollection == Type(<<Name("dirtyCollection")>>, <<>>, <<Part("raw", "UUID")>>, {}, {}, {})

chunkstampItem ==
    Type(<<Name("chunkStamp"), Slash, Part("raw", "namespace"), Slash, Part("raw", "Address")>>,
         <<Field("namespace", "text", 0)>> \o StampFields,
         <<Part("raw", "BatchID"), Slash, Part("raw", "Index")>>,
         {"namespace", "Address"}, {"BatchID", "Index", "Timestamp", "Sig"}, {})

stampindexItem ==
    Type(<<Name("stampIndex")>>,
         <<Field("namespace", "text", 0), Hash("BatchID"), Raw("Index", 8), Raw("Timestamp", 8),
           Field("ChunkAddress", "address", HashSize), Field("Immutable", "digit", 1)>>,
         <<Part("raw", "namespace"), Slash, Part("raw", "BatchID"), Slash, Part("raw", "Index")>>,
         {"namespace"}, {"BatchID", "Index"}, {})

RetrievalIndexItem ==
    Type(<<Name("retrievalIdx")>>,
         <<Hash("Address"), LE64("Timestamp")>> \o Location \o <<Field("RefCnt", "le", 4)>>,
         <<Part("raw", "Address")>>, {"Address"}, {}, {})

OldRetrievalIndexItem ==
    Type(<<Name("retrievalIdx")>>,
         <<Hash("Address"), LE64("Timestamp")>> \o Location \o <<Byte("RefCnt")>>,
         <<Part("raw", "Address")>>, {"Address"}, {}, {})

cacheEntry ==
    Type(<<Name("cacheEntry")>>, <<Hash("Address"), LE64("AccessTimestamp")>>, <<Part("raw", "Address")>>,
         {"Address"}, {}, {"AccessTimestamp"})

cacheOrderIndex ==
    Type(<<Name("cacheOrderIndex")>>, <<>>, <<Part("decimal", "AccessTimestamp"), Part("raw", "Address")>>,
         {}, {}, {})

expiredBatchItem == Type(<<Name("expiredBatchItem")>>, <<>>, <<Part("raw", "BatchID")>>, {}, {}, {})

StampItem ==
    Type(<<Name("stampItem")>>,
         <<Hash("BatchID"), Hash("ChunkAddress"), Raw("Index", 8), Raw("Timestamp", 8),
           Field("", "pad", 1)>>,
         <<Part("raw", "BatchID"), Slash, Part("hex", "ChunkAddress")>>,
         {}, {"BatchID", "ChunkAddress"}, {})

StorageVersionItem ==
    Type(<<Part("raw", "Group")>>, <<LE64("Version")>>, <<Name("storage_version")>>, {}, {}, {})

\* postage.Batch, kept in the state store under batchstore_batch_ and its ID
Batch ==
    Type(<<Name("ss")>>,
         <<Hash("ID"), Field("Value", "big", 32), BE64("Start"), Raw("Owner", 20), Byte("BucketDepth"),
           Byte("Depth"), Field("Immutable", "bool", 1)>>,
         <<Name("batchstore_batch_"), Part("raw", "ID")>>, {}, {}, {})

ItemNames ==
    <<"batchRadius", "chunkBin", "binID", "epochItem", "radius", "pushIndex", "tagItem",
      "UploadItem", "DirtyTagItem", "pinCollectionItem", "dirtyCollection", "stampIndex",
      "retrievalIdx", "cacheEntry", "cacheOrderIndex", "expiredBatchItem", "stampItem", "ss",
      "chunkStamp", "storage_version", "batchstore_batch_">>

Types ==
    [BatchRadiusItem |-> BatchRadiusItem, ChunkBinItem |-> ChunkBinItem, BinItem |-> BinItem,
     EpochItem |-> EpochItem, radiusItem |-> radiusItem, pushItem |-> pushItem, TagItem |-> TagItem,
     uploadItem |-> uploadItem, dirtyTagItem |-> dirtyTagItem,
     pinCollectionItem |-> pinCollectionItem, pinChunkItem |-> pinChunkItem,
     dirtyCollection |-> dirtyCollection, chunkstampItem |-> chunkstampItem,
     stampindexItem |-> stampindexItem, RetrievalIndexItem |-> RetrievalIndexItem,
     OldRetrievalIndexItem |-> OldRetrievalIndexItem, cacheEntry |-> cacheEntry,
     cacheOrderIndex |-> cacheOrderIndex, expiredBatchItem |-> expiredBatchItem,
     StampItem |-> StampItem, StorageVersionItem |-> StorageVersionItem, Batch |-> Batch]

-----------------------------------------------------------------------------
\* Keys.  A record is [type, val]; its identity is what its key is made of.

Symbol(name) == 255 + CHOOSE k \in DOMAIN ItemNames : ItemNames[k] = name

Hex(bytes) ==
    LET Digit(d) == IF d < 10 THEN 48 + d ELSE 87 + d
    IN  FlattenSeq([k \in DOMAIN bytes |-> <<Digit(bytes[k] \div 16), Digit(bytes[k] % 16)>>])

Rendered(part, val) ==
    CASE part.kind = "name"    -> <<Symbol(part.name)>>
      [] part.kind = "slash"   -> <<47>>
      [] part.kind = "raw"     -> val[part.name]
      [] part.kind = "rune"    -> Rune(val[part.name])
      [] part.kind = "decimal" -> Decimal(val[part.name])
      [] part.kind = "be"      -> BigEndian(val[part.name], 8)
      [] part.kind = "le"      -> LittleEndian(val[part.name], 8)
      [] part.kind = "hex"     -> Hex(val[part.name])

Render(parts, val) == FlattenSeq([k \in DOMAIN parts |-> Rendered(parts[k], val)])

Namespace(t, val) == Render(Types[t].ns, val)
ID(i) == Render(Types[i.type].key, i.val)
KeyOf(i) == Namespace(i.type, i.val) \o <<47>> \o ID(i)

KeyNames(t) ==
    {p.name : p \in {q \in Range(Types[t].ns \o Types[t].key) : q.kind \notin {"name", "slash"}}}
SameRecord(i, j) ==
    i.type = j.type /\ \A n \in KeyNames(i.type) : i.val[n] = j.val[n]

-----------------------------------------------------------------------------
\* Marshal and Unmarshal.

IsZero(bytes) == \A k \in DOMAIN bytes : bytes[k] = 0

\* the length each Marshal insists on
WidthOf(t, n) ==
    (CHOOSE f \in Range(Types[t].fields) \cup {Hash("BatchID")} : f.name = n).width

Refused(i) ==
    LET t == Types[i.type]
    IN  \/ \E n \in t.nonzero : i.val[n] = <<>>
        \/ \E n \in t.sized : Len(i.val[n]) # WidthOf(i.type, n)
        \/ \E n \in t.positive : i.val[n] <= 0

Encoded(f, val) ==
    CASE f.kind = "raw"   -> Copied(val[f.name], f.width)
      [] f.kind = "le"    -> LittleEndian(val[f.name], f.width)
      [] f.kind \in {"be", "big"} -> BigEndian(val[f.name], f.width)
      [] f.kind = "text"  -> LittleEndian(Len(val[f.name]), 8) \o val[f.name]
      [] f.kind \in {"address", "reference"} -> Copied(val[f.name], f.width)
      [] f.kind = "digit" -> IF val[f.name] THEN <<49>> ELSE <<48>>
      [] f.kind = "bool"  -> IF val[f.name] THEN <<1>> ELSE <<0>>
      [] f.kind = "pad"   -> Zeros(f.width)

Marshal(i) ==
    LET fs == Types[i.type].fields
    IN  FlattenSeq([k \in DOMAIN fs |-> Encoded(fs[k], i.val)])

Decoded(f, bytes) ==
    CASE f.kind = "raw"   -> bytes
      [] f.kind = "le"    -> FromLittle(bytes)
      [] f.kind \in {"be", "big"} -> FromBig(bytes)
      [] f.kind = "text"  -> SubSeq(bytes, 9, Len(bytes))
      [] f.kind = "address" -> IF IsZero(bytes) THEN <<>> ELSE bytes
      [] f.kind = "reference" ->
             IF IsZero(SubSeq(bytes, HashSize + 1, f.width)) THEN SubSeq(bytes, 1, HashSize) ELSE bytes
      [] f.kind = "digit" -> bytes = <<49>>
      [] f.kind = "bool"  -> bytes[1] > 0

\* what the value holds, over the fields the caller has set: an item that is not written in
\* full (uploadItem, chunkstamp, BinItem) keeps those of its key
Unmarshal(t, into, buf) ==
    LET fs == Types[t].fields
        Width(k) == IF fs[k].kind = "text" THEN 8 + FromLittle(SubSeq(buf, 1, 8)) ELSE fs[k].width
        End[k \in 0 .. Len(fs)] == IF k = 0 THEN 0 ELSE End[k - 1] + Width(k)
        At(k) == SubSeq(buf, End[k - 1] + 1, End[k])
        read == {k \in DOMAIN fs : fs[k].kind # "pad"}
        Of(n) == CHOOSE k \in read : fs[k].name = n
    IN  IF \/ fs # <<>> /\ fs[1].kind = "text" /\ Len(buf) < 8
           \/ fs # <<>> /\ Len(buf) # End[Len(fs)]
           \/ \E k \in read : fs[k].kind = "digit" /\ At(k) \notin {<<48>>, <<49>>}
        THEN [ok |-> FALSE, val |-> into]
        ELSE [ok |-> TRUE,
              val |-> [n \in {fs[k].name : k \in read} |-> Decoded(fs[Of(n)], At(Of(n)))] @@ into]

-----------------------------------------------------------------------------
\* The stores.

\* the order of the keys, bytewise
KeyBefore(a, b) ==
    \/ IsStrictPrefix(a, b)
    \/ \E k \in 1 .. Len(a) : k <= Len(b) /\ SubSeq(a, 1, k - 1) = SubSeq(b, 1, k - 1) /\ a[k] < b[k]

Sorted(keys) == SetToSortSeq(keys, KeyBefore)

\* leveldbstore: Put, Get, Delete
PutItem(i) ==
    /\ i \in itemSc
    /\ ~Refused(i)
    /\ kv' = (KeyOf(i) :> Marshal(i)) @@ kv
    /\ live' = {j \in live : ~SameRecord(i, j)} \cup {i}
    /\ UNCHANGED itemSc

DeleteItem(i) ==
    /\ i \in live
    /\ kv' = [k \in DOMAIN kv \ {KeyOf(i)} |-> kv[k]]
    /\ live' = live \ {i}
    /\ UNCHANGED itemSc

GetItem(t, into) ==
    LET key == KeyOf([type |-> t, val |-> into])
    IN  IF key \in DOMAIN kv THEN Unmarshal(t, into, kv[key]) ELSE [ok |-> FALSE, val |-> into]

\* leveldbstore: the keys Iterate gives to its callback.  With PrefixAtStart the walk begins
\* at the prefix and covers the rest of the namespace, otherwise it is of the prefix alone.
LevelWalk(ns, prefix, atStart, descending) ==
    LET under == {k \in DOMAIN kv : IsPrefix(IF atStart THEN ns ELSE ns \o <<47>> \o prefix, k)}
        from == {k \in under : ~KeyBefore(k, ns \o <<47>> \o prefix)}
    IN  IF descending THEN Reverse(Sorted(IF atStart /\ from = {} THEN {} ELSE under))
        ELSE Sorted(IF atStart THEN from ELSE under)

LevelCount(ns) == Cardinality({k \in DOMAIN kv : IsPrefix(ns \o <<47>>, k)})

\* inmemstore: the same walk over the radix tree, skipping until the prefix
MemWalk(ns, prefix, atStart, descending) ==
    LET under == Sorted({k \in DOMAIN kv :
                            IsPrefix(IF atStart THEN ns ELSE ns \o <<47>> \o prefix, k)})
    IN  IF descending THEN Reverse(under)
        ELSE IF atStart THEN SelectSeq(under, LAMBDA k : ~KeyBefore(k, ns \o <<47>> \o prefix))
        ELSE under

MemCount(ns) == Cardinality({k \in DOMAIN kv : IsPrefix(ns, k)})

ItemsInit ==
    /\ itemSc \in ItemScenarios
    /\ kv = <<>>
    /\ live = {}

ItemsNext == \E i \in itemSc : PutItem(i) \/ DeleteItem(i)

-----------------------------------------------------------------------------
(***************************************************************************)
(* What the users of the records rely on.                                  *)
(***************************************************************************)
\* the record that is to be read: a tag keeps the hash of an encrypted reference, not its key
AsRead(i) ==
    IF i.type = "TagItem" /\ Len(i.val.Address) = ReferenceSize
    THEN [i.val EXCEPT !.Address = SubSeq(@, 1, HashSize)] ELSE i.val

KeyOnly(i) == [n \in KeyNames(i.type) |-> i.val[n]]

\* Whatever else is put and deleted, a record that is put is found under its key and read
\* back as it was, and no two records share a key: Put, Delete and Get over key(), Marshal
\* and Unmarshal.
RecordsKept ==
    /\ \A i \in live : GetItem(i.type, KeyOnly(i)) = [ok |-> TRUE, val |-> AsRead(i)]
    /\ \A i \in itemSc : (\A j \in live : ~SameRecord(i, j)) => ~GetItem(i.type, KeyOnly(i)).ok
    /\ Cardinality(DOMAIN kv) = Cardinality(live)

\* the records of a type in live that satisfy P, in the order of the walk
Walked(keys) == [n \in DOMAIN keys |-> CHOOSE i \in live : KeyOf(i) = keys[n]]
Increasing(records, F(_)) ==
    \A n \in 1 .. Len(records) - 1 : F(records[n].val) <= F(records[n + 1].val)
OfType(t) == {i \in live : i.type = t}
WalkFrom(i, prefix) == Walked(LevelWalk(Namespace(i.type, i.val), prefix, TRUE, FALSE))

\* Walks give their callers the records they mean, in the order they count on: all records
\* of a namespace and no other; the bins from a bin ID on, in order (IterateBin); the pushes
\* since a tag began, in order of time (Cleanup); the oldest cached chunk first
\* (removeOldest); the chunks of a batch by bin (EvictBatchBin).  Both stores agree.
WalksExact ==
    \A i \in itemSc :
        LET ns == Namespace(i.type, i.val)
            all == {j \in live : j.type = i.type /\ Namespace(j.type, j.val) = ns}
            under == {<<>>} \cup (IF i.type \in {"BatchRadiusItem", "StampItem"}
                                    THEN {i.val.BatchID} ELSE {})
        IN  /\ Range(Walked(LevelWalk(ns, <<>>, FALSE, FALSE))) = all
            /\ LevelCount(ns) = Cardinality(all) /\ MemCount(ns) = Cardinality(all)
            /\ \A p \in under, d \in BOOLEAN : LevelWalk(ns, p, FALSE, d) = MemWalk(ns, p, FALSE, d)
            /\ LevelWalk(ns, ID(i), TRUE, FALSE) = MemWalk(ns, ID(i), TRUE, FALSE)
            /\ i.type = "ChunkBinItem" =>
                   LET walk == WalkFrom(i, ID(i))
                       Place(v) == v.Bin * 1000 + v.BinID
                   IN  /\ Range(walk) = {j \in all : Place(j.val) >= Place(i.val)}
                       /\ Increasing(walk, Place)
            /\ i.type = "pushItem" =>
                   LET walk == WalkFrom(i, Decimal(i.val.Timestamp))
                       Time(v) == v.Timestamp
                   IN  /\ Range(walk) = {j \in all : j.val.Timestamp >= i.val.Timestamp}
                       /\ Increasing(walk, Time)
            /\ i.type = "cacheOrderIndex" =>
                   LET Time(v) == v.AccessTimestamp
                   IN  Increasing(Walked(LevelWalk(ns, <<>>, FALSE, FALSE)), Time)
            /\ i.type = "BatchRadiusItem" =>
                   LET walk == Walked(LevelWalk(ns, i.val.BatchID, FALSE, FALSE))
                       Bin(v) == v.Bin
                   IN  /\ Range(walk) = {j \in all : j.val.BatchID = i.val.BatchID}
                       /\ Increasing(walk, Bin)

RecordsSound == RecordsKept /\ WalksExact

-----------------------------------------------------------------------------
(***************************************************************************)
(* Migrations of the node's stores (storage/migration): the steps of a     *)
(* group run in the order of their versions, and the version is stored     *)
(* after each.  Three groups: the state store, the local store before it   *)
(* is opened ("core") and after it is opened ("after"); and the general    *)
(* step that deletes and updates the items of one index in batches.        *)
(*                                                                         *)
(* A store is a function from keys, tuples that begin with the name of a   *)
(* table, to values.  LevelDB iterates over a snapshot, so what a step     *)
(* writes is known when it begins: a step is the sequence of its writes, a *)
(* write the set of what one Put, Delete or Commit changes at once.  The   *)
(* process may be killed between two writes.                               *)
(***************************************************************************)

CONSTANTS
    MigScenarios,   \* [group, store, chunks, batch]: what is stored when the node first starts
    MaxKills        \* bound: how many times the process is killed

VARIABLES
    migSc,          \* the scenario
    mig             \* [store, version, next, todo, pc, kills, last]

migVars == <<migSc, mig>>

-----------------------------------------------------------------------------
\* Writes.

WriteOf(puts, dels) == [puts |-> puts, dels |-> dels]
Applied(store, w) ==
    [k \in {p.key : p \in w.puts} |-> (CHOOSE p \in w.puts : p.key = k).val]
      @@ [k \in DOMAIN store \ w.dels |-> store[k]]
Pair(k, v) == [key |-> k, val |-> v]

KeysOf(store, table) == {k \in DOMAIN store : k[1] = table}
\* in the order of the keys: those of a table differ in a last component that is a number
InOrder(keys) == SetToSortSeq(keys, LAMBDA a, b : a[Len(a)] < b[Len(b)])

\* one Put or Delete for each element of a sequence of keys
Each(keys, W(_)) == [n \in DOMAIN keys |-> W(keys[n])]

\* a Commit for every 10000 of them, here migSc.batch
InBatches(ws) ==
    LET size == migSc.batch
        count == (Len(ws) + size - 1) \div size
        Of(n) == Range(SubSeq(ws, (n - 1) * size + 1, Min({n * size, Len(ws)})))
    IN  [n \in 1 .. count |-> WriteOf(UNION {w.puts : w \in Of(n)}, UNION {w.dels : w \in Of(n)})]

-----------------------------------------------------------------------------
(***************************************************************************)
(* The state store.  Before version 1 keys had no namespace: <<"", class,  *)
(* n>> stands for a key that begins with the name of its class.            *)
(***************************************************************************)
Obsolete == {"statestore_schema", "tags", "sync_interval", "kademlia-counters", "addressbook", "batch"}

\* the new key is put before the old one is deleted
MoveLosing(s, k) == <<WriteOf({}, {k}), WriteOf({Pair(<<"ss", k[2], k[3]>>, s[k])}, {})>>

Move(s, k) == <<WriteOf({Pair(<<"ss", k[2], k[3]>>, s[k])}, {}), WriteOf({}, {k})>>

epochMigration(s) ==
    LET old == InOrder(KeysOf(s, ""))
    IN  FlattenSeq([n \in DOMAIN old |->
            IF old[n][2] \in Obsolete THEN <<WriteOf({}, {old[n]})>> ELSE Move(s, old[n])])

deletePrefix(s, class) ==
    Each(InOrder({k \in KeysOf(s, "ss") : k[2] = class}), LAMBDA k : WriteOf({}, {k}))

StateStoreStep(version, s) ==
    CASE version = 1 -> epochMigration(s)
      [] version \in {2, 3, 6, 7} -> deletePrefix(s, "sync_interval")
      [] version = 4 -> deletePrefix(s, "blocklist")
      [] version = 5 -> deletePrefix(s, "batchstore")

-----------------------------------------------------------------------------
(***************************************************************************)
(* The local store.  <<"retrievalIdx", c>> holds [old, ref]: whether the   *)
(* count is of one byte, as before version 1 of the core group.            *)
(***************************************************************************)
\* fails when it reads an item of the other size
ReadsAll(s) == \A k \in KeysOf(s, "retrievalIdx") : s[k].old

RefCountSizeInc(s) ==
    InBatches(Each(InOrder(KeysOf(s, "retrievalIdx")),
                   LAMBDA k : WriteOf({Pair(k, [old |-> FALSE, ref |-> s[k].ref])}, {})))

\* every entry of the cache in the current form, used just now
step_02(s) ==
    Each(InOrder(KeysOf(s, "cacheEntry")), LAMBDA k : WriteOf({Pair(k, [old |-> FALSE])}, {}))

\* the bin IDs anew: for <<"batchRadius", bin, c>> whose chunk is there, the next of its bin
NewBinID(s, radii, n) ==
    Cardinality({m \in 1 .. n : radii[m][2] = radii[n][2] /\ radii[m][3] \in s.chunks})

step_03(s) ==
    LET bins == Each(InOrder(KeysOf(s.index, "binID")), LAMBDA k : WriteOf({}, {k}))
        chunkBins == InBatches(Each(InOrder(KeysOf(s.index, "chunkBin")), LAMBDA k : WriteOf({}, {k})))
        radii == InOrder(KeysOf(s.index, "batchRadius"))
        Found(n) == radii[n][3] \in s.chunks
        \* IncBinID puts the bin's last ID at once; the two entries wait for the batch
        Inc(n) == IF Found(n) THEN <<WriteOf({Pair(<<"binID", radii[n][2]>>, NewBinID(s, radii, n))}, {})>>
                  ELSE <<>>
        Put(n) == IF Found(n)
                  THEN WriteOf({Pair(radii[n], NewBinID(s, radii, n)),
                              Pair(<<"chunkBin", radii[n][2], NewBinID(s, radii, n)>>, radii[n][3])}, {})
                  ELSE WriteOf({}, {radii[n]})
        commits == InBatches([n \in DOMAIN radii |-> Put(n)])
        first(c) == (c - 1) * migSc.batch + 1
        last(c) == Min({c * migSc.batch, Len(radii)})
    IN  bins \o chunkBins
          \o FlattenSeq([c \in DOMAIN commits |->
                FlattenSeq([n \in 1 .. last(c) - first(c) + 1 |-> Inc(first(c) + n - 1)])
                  \o <<commits[c]>>])

\* while one goroutine iterates, another deletes what it is handed
step_05(s) == Each(InOrder(KeysOf(s, "UploadItem")), LAMBDA k : WriteOf({}, {k}))

\* step_01 does nothing, step_04 only rebuilds the free slots of the shards
AfterInitStep(version, s) ==
    CASE version \in {1, 4} -> <<>>
      [] version = 2 -> step_02(s)
      [] version = 3 -> step_03([index |-> s, chunks |-> migSc.chunks])
      [] version = 5 -> step_05(s)

-----------------------------------------------------------------------------
(***************************************************************************)
(* stepOnIndex: pass after pass over the items, skipping the first "last", *)
(* until a pass finds nothing to delete or to update.  An item is to be    *)
(* deleted, to be updated (once: it is then "kept"), or kept.              *)
(***************************************************************************)
IndexPass(s) ==
    LET items == InOrder(KeysOf(s, "item"))
        \* the state of the callback before the nth item: [i, dels, upds]
        After[n \in 0 .. Len(items)] ==
            IF n = 0 THEN [i |-> 0, dels |-> {}, upds |-> {}]
            ELSE LET b == After[n - 1]
                     k == items[n]
                     full == Cardinality(b.dels \cup b.upds) = migSc.batch
                 IN  IF full THEN b
                     ELSE IF b.i + 1 <= mig.last THEN [b EXCEPT !.i = @ + 1]
                     ELSE IF s[k] = "delete" THEN [b EXCEPT !.dels = @ \cup {k}]
                     ELSE IF s[k] = "update" THEN [b EXCEPT !.i = @ + 1, !.upds = @ \cup {k}]
                     ELSE [b EXCEPT !.i = @ + 1]
    IN  After[Len(items)]

\* the items a pass has passed over, those to be deleted not counted
PassedAll(end) == end.i + Cardinality(end.dels)
Passed(end) == end.i

Steps ==
    CASE migSc.group = "statestore" -> 1 .. 7
      [] migSc.group = "core" -> {1}
      [] migSc.group = "after" -> 1 .. 5
      [] migSc.group = "index" -> {1}

StepFn(version, s) ==
    CASE migSc.group = "statestore" -> StateStoreStep(version, s)
      [] migSc.group = "core" -> RefCountSizeInc(s)
      [] migSc.group = "after" -> AfterInitStep(version, s)
      [] migSc.group = "index" -> <<>>

-----------------------------------------------------------------------------
(***************************************************************************)
(* Migrate.                                                                *)
(***************************************************************************)
MigInit ==
    /\ migSc \in MigScenarios
    /\ mig = [store |-> migSc.store, version |-> 0, next |-> 0, todo |-> <<>>, pc |-> "start",
              kills |-> 0, last |-> 0]

\* Version: the version that is stored, 0 when there is none
ReadVersion ==
    /\ mig.pc = "start"
    /\ mig' = [mig EXCEPT !.next = mig.version + 1, !.pc = "step"]

BeginStep ==
    /\ mig.pc = "step"
    /\ mig' =
         IF mig.next \notin Steps THEN [mig EXCEPT !.pc = "done"]
         ELSE IF migSc.group = "core" /\ ~ReadsAll(mig.store) THEN [mig EXCEPT !.pc = "failed"]
         ELSE [mig EXCEPT !.todo = StepFn(mig.next, mig.store), !.pc = "writing", !.last = 0]

WriteNext ==
    /\ mig.pc = "writing"
    /\ mig.todo # <<>>
    /\ mig' = [mig EXCEPT !.store = Applied(@, Head(mig.todo)), !.todo = Tail(@)]

\* a pass of stepOnIndex: it deletes, then updates, one item at a time
NextPass ==
    LET end == IndexPass(mig.store)
        dels == InOrder(end.dels)
        upds == InOrder(end.upds)
    IN  /\ mig.pc = "writing"
        /\ migSc.group = "index"
        /\ mig.todo = <<>>
        /\ end.dels \cup end.upds # {}
        /\ mig' = [mig EXCEPT !.last = Passed(end),
                              !.todo = Each(dels, LAMBDA k : WriteOf({}, {k}))
                                         \o Each(upds, LAMBDA k : WriteOf({Pair(k, "keep")}, {}))]

StepEnds ==
    /\ mig.todo = <<>>
    /\ migSc.group = "index" => IndexPass(mig.store).dels \cup IndexPass(mig.store).upds = {}

SetVersion ==
    /\ mig.pc = "writing"
    /\ StepEnds
    /\ mig' = [mig EXCEPT !.version = mig.next, !.next = @ + 1, !.pc = "step"]

KillMigration ==
    /\ mig.pc # "done"
    /\ mig.kills < MaxKills
    /\ mig' = [mig EXCEPT !.pc = "start", !.todo = <<>>, !.kills = @ + 1]

MigNext ==
    /\ ReadVersion \/ BeginStep \/ WriteNext \/ NextPass \/ SetVersion \/ KillMigration
    /\ UNCHANGED migSc

-----------------------------------------------------------------------------
(***************************************************************************)
(* What the migrations are to leave, stated on the store they began with.  *)
(***************************************************************************)
Migrated(s) ==
    CASE migSc.group = "statestore" ->
           LET kept == {k \in DOMAIN s : \/ k[1] = "ss"
                                         \/ k[1] = "" /\ k[2] \notin Obsolete}
               now == {<<"ss", k[2], k[3]>> : k \in kept}
           IN  [k \in {n \in now : n[2] \notin {"sync_interval", "blocklist", "batchstore"}} |->
                    IF k \in DOMAIN s THEN s[k] ELSE s[<<"", k[2], k[3]>>]]
      [] migSc.group = "core" -> [k \in DOMAIN s |-> [s[k] EXCEPT !.old = FALSE]]
      [] migSc.group = "index" ->
           [k \in {x \in DOMAIN s : s[x] # "delete"} |-> "keep"]

\* the reserve's two indexes hold the same chunks, those that are there, each bin's from 1 on
\* without a gap and its counter at the last
ReserveRebuilt(s) ==
    LET radii == {k \in KeysOf(migSc.store, "batchRadius") : k[3] \in migSc.chunks}
        bins == {k[2] : k \in radii}
        Of(b) == {k \in radii : k[2] = b}
    IN  /\ KeysOf(s, "batchRadius") = radii
        /\ \A b \in bins :
             /\ {s[k] : k \in Of(b)} = 1 .. Cardinality(Of(b))
             /\ s[<<"binID", b>>] = Cardinality(Of(b))
        /\ KeysOf(s, "chunkBin") = {<<"chunkBin", k[2], s[k]>> : k \in radii}
        /\ \A k \in radii : s[<<"chunkBin", k[2], s[k]>>] = k[3]
        /\ KeysOf(s, "binID") = {<<"binID", b>> : b \in bins}
        /\ \A k \in KeysOf(s, "cacheEntry") : ~s[k].old
        /\ KeysOf(s, "cacheEntry") = KeysOf(migSc.store, "cacheEntry")
        /\ KeysOf(s, "UploadItem") = {}

\* However often the process is killed in a migration, once Migrate returns the store holds
\* exactly what the steps are to leave: nothing is lost between a key and its new name,
\* nothing is skipped for a version stored too early, and a step that had begun is repeated
\* without harm (Migrate, epochMigration, step_03, stepOnIndex).  The one step that can fail is
\* RefCountSizeInc, and only when the process was killed before.
MigrationExact ==
    /\ mig.pc = "done" =>
         IF migSc.group = "after" THEN ReserveRebuilt(mig.store)
         ELSE mig.store = Migrated(migSc.store)
    /\ mig.pc = "failed" => migSc.group = "core" /\ mig.kills > 0
=============================================================================
