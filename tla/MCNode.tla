------------------------------- MODULE MCNode -------------------------------
(***************************************************************************)
(* Small instances of the data a node makes and of the node around it.     *)
(* Data: files as trees of chunks, recovery of lost chunks, replicas of    *)
(* the root, manifests, feeds, and the passes over the whole local store.  *)
(* The node: the records of the index store, the migrations of old stores, *)
(* the cache of the state store, the chunk hasher and its proofs, PSS      *)
(* messages, the HTTP API, and the life of the process.  A behaviour is of *)
(* one component, chosen by focus from Parts, while the others rest in     *)
(* their initial state.                                                    *)
(***************************************************************************)
EXTENDS FileTrie, Redundancy, Lookups, StorePasses, IndexItems,
        StateStore, Bmt, Pss, NodeLife, Api

CONSTANT Parts   \* the components the run is about

VARIABLE focus

\* Files: chunks of three references, the last a parity once there is redundancy.
OneParity == [n \in 0 .. 3 |-> IF n = 0 THEN 0 ELSE 1]
Sizes == 0 .. 31

\* Recovery: two data shards and a parity, of which any may be missing or late.
Prefetching ==
    [net : [there : SUBSET Shards, slow : {{}, {1}}, saves : {TRUE}, closes : {FALSE}],
     strategy : {2}, strict : {FALSE}, gets : {{}, {1}, Data}]

\* every strategy, with a store that fails and a reader that is closed
EachStrategy ==
    [net : [there : {{1}, {1, 3}}, slow : {{}}, saves : {FALSE}, closes : BOOLEAN],
     strategy : {1, 2, 4}, strict : BOOLEAN, gets : {{1}}]

NothingRead ==
    [net |-> [there |-> {}, slow |-> {}, saves |-> TRUE, closes |-> FALSE],
     strategy |-> 2, strict |-> FALSE, gets |-> {}]

ErasureSafe == Prefetching \cup EachStrategy

\* Replicas: the address itself (0) or one of its replicas is found, or none is.
ReplicasSafe == {{}, {0}, {2}, {4}}

\* Manifests: paths that fork at every length of a prefix.
FivePaths == {<<1>>, <<1, 2>>, <<1, 2, 1>>, <<1, 1>>, <<2, 1, 1>>}

\* Feeds: sequences with and without lost updates, and an epoch-based feed.
EmptyFeed == [kind |-> "sequence", count |-> 0, lost |-> {}, times |-> {}]

FeedsSafe ==
    {[kind |-> "sequence", count |-> n, lost |-> l, times |-> {}] :
        n \in 0 .. 9, l \in {{}, {3}, {1, 2}}}
      \cup {[kind |-> "epoch", count |-> 3, lost |-> {}, times |-> {}]}

\* Sampling: chunks in the order of the index, with their transformed addresses.
Item(c, t) ==
    [chunk |-> c, batch |-> 1, type |-> "cac", taddr |-> t, poor |-> FALSE, late |-> FALSE,
     stamp |-> TRUE, parses |-> FALSE, evictable |-> FALSE]

SamplerSafe ==
    {{Item("a", 1), [Item("b", 2) EXCEPT !.late = TRUE], Item("c", 3),
      [Item("d", 4) EXCEPT !.evictable = TRUE], Item("e", 5)},
     {[Item("a", 1) EXCEPT !.poor = TRUE], [Item("b", 2) EXCEPT !.type = "soc", !.parses = TRUE],
      Item("c", 3), [Item("c", 3) EXCEPT !.batch = 2], Item("e", 5),
      [Item("f", 4) EXCEPT !.evictable = TRUE]},
     {Item("a", 1), [Item("b", 2) EXCEPT !.type = "soc"], Item("c", 3)}}

\* Compaction: two or three chunks anywhere in two shards; a store with an empty shard is
\* interrupted before it is compacted.
Injections(S) ==
    {f \in [S -> [shard : CShards, slot : SlotNos]] : \A a, b \in S : a # b => f[a] # f[b]}
Compacting(f, interrupted) == [index |-> f, pin |-> {"a", "z"}, interrupted |-> interrupted]
TwoChunks == Compacting([c \in {"a", "b"} |-> [shard |-> IF c = "a" THEN 1 ELSE 2, slot |-> 1]], FALSE)

CompactionSafe ==
    {Compacting(f, FALSE) : f \in {g \in Injections({"a", "b"}) \cup Injections({"a", "b", "c"}) :
                                       \A s \in CShards : At(g, s) # {}}}
      \cup {Compacting(f, TRUE) : f \in Injections({"a", "b"})}

-----------------------------------------------------------------------------
\* Every scenario of the component that runs, and a small one of each that rests.
Among(component, scenarios, small) == IF focus = component THEN scenarios ELSE {small}

DataStart ==
    /\ \E r \in Among("file", BOOLEAN, FALSE) : FileTrieInit(r)
    /\ \E s \in Among("erasure", ErasureSafe, NothingRead) : ErasureInit(s)
    /\ \E s \in Among("replicas", ReplicasSafe, {}) : ReplicasInit(s)
    /\ ManifestInit
    /\ \E s \in Among("feeds", FeedsSafe, EmptyFeed) : FeedsInit(s)
    /\ \E s \in Among("sampler", SamplerSafe, {}) : SamplerInit(s)
    /\ \E s \in Among("compaction", CompactionSafe, TwoChunks) : CompactionInit(s)

ContentVars == <<fvars, evars, repvars, mvars, fdvars>>
PassVars == <<svars, cvars>>

ContentNext ==
    \/ focus = "file" /\ FileTrieNext /\ UNCHANGED <<evars, repvars, mvars, fdvars>>
    \/ focus = "erasure" /\ ErasureNext /\ UNCHANGED <<fvars, repvars, mvars, fdvars>>
    \/ focus = "replicas" /\ ReplicasNext /\ UNCHANGED <<fvars, evars, mvars, fdvars>>
    \/ focus = "manifest" /\ ManifestNext /\ UNCHANGED <<fvars, evars, repvars, fdvars>>
    \/ focus = "feeds" /\ FeedsNext /\ UNCHANGED <<fvars, evars, repvars, mvars>>

PassNext ==
    \/ focus = "sampler" /\ SamplerNext /\ UNCHANGED cvars
    \/ focus = "compaction" /\ CompactionNext /\ UNCHANGED svars

DataNext ==
    \/ ContentNext /\ UNCHANGED <<PassVars, focus>>
    \/ PassNext /\ UNCHANGED <<ContentVars, focus>>

-----------------------------------------------------------------------------
\* What was split, encoded and replicated is read back, as long as enough of it is there, and
\* nothing else is (feeder, hashtrie, joiner, erasure getter, replicas getter).
FilesReadBack == ReadsBack /\ GetsSound /\ ReplicasTried

\* The passes over the local store take every chunk once: the sample is the least of the
\* reserve, and compaction keeps every chunk (ReserveSample, Compact).
PassesExact == SampleExact /\ CompactionKeeps

-----------------------------------------------------------------------------
\* Records whose keys and values touch: bytes that are separators, numbers on both sides of
\* a carry, identifiers of different lengths.

Fill(b) == [k \in 1 .. HashSize |-> b]
Bytes(b, w) == [k \in 1 .. w |-> b]
Rec(t, v) == [type |-> t, val |-> v]

RadiusRec(bin, batch, addr) ==
    Rec("BatchRadiusItem",
        [Bin |-> bin, BatchID |-> Fill(batch), Address |-> Fill(addr), BinID |-> 7])
BinRec(bin, id, addr) ==
    Rec("ChunkBinItem", [Bin |-> bin, BinID |-> id, Address |-> Fill(addr), BatchID |-> Fill(1),
                         ChunkType |-> 1])
ReserveRecords ==
    {RadiusRec(0, 1, 47), RadiusRec(1, 1, 2), RadiusRec(0, 2, 2), BinRec(1, 255, 2),
     BinRec(1, 256, 3), BinRec(2, 1, 2), Rec("BinItem", [Bin |-> 1, BinID |-> 256]),
     Rec("radiusItem", [Radius |-> 3])}

PushRec(ts, addr, batch) ==
    Rec("pushItem", [Timestamp |-> ts, Address |-> Fill(addr), BatchID |-> batch, TagID |-> 300])
TagRec(id, n, addr) ==
    Rec("TagItem", [TagID |-> id, Split |-> n, Seen |-> 0, Stored |-> n, Sent |-> 1,
                    Synced |-> 1, Address |-> addr, StartedAt |-> 9])
UploadRec(addr, batch) ==
    Rec("uploadItem", [Address |-> Fill(addr), BatchID |-> Fill(batch), TagID |-> 1,
                       Uploaded |-> 258, Synced |-> 0])
UploadRecords ==
    {PushRec(19, 47, Fill(1)), PushRec(20, 2, Fill(1)), PushRec(20, 2, Fill(47)),
     PushRec(21, 2, Bytes(1, 20)), TagRec(1, 2, Fill(1) \o Fill(2)), TagRec(1, 3, <<>>),
     TagRec(12, 2, Fill(5)), UploadRec(2, 1), UploadRec(2, 47)}

PinRec(addr, uuid) ==
    Rec("pinCollectionItem", [Addr |-> addr, UUID |-> Bytes(uuid, 16), Total |-> 2, Dup |-> 1])
PinRecords ==
    {PinRec(Fill(1), 3), PinRec(Fill(1) \o Fill(9), 4), PinRec(<<>>, 4),
     Rec("pinChunkItem", [UUID |-> Bytes(3, 16), Addr |-> Fill(1)]),
     Rec("pinChunkItem", [UUID |-> Bytes(4, 16), Addr |-> Fill(1)]),
     Rec("dirtyCollection", [UUID |-> Bytes(4, 16)]),
     Rec("dirtyTagItem", [TagID |-> 1, Started |-> 9])}

StampOf(ns, addr, index) ==
    Rec("chunkstampItem", [namespace |-> ns, Address |-> Fill(addr), BatchID |-> Fill(1),
                           Index |-> Bytes(index, 8), Timestamp |-> Bytes(1, 8),
                           Sig |-> Bytes(2, 65)])
IndexOf(ns, index, addr, immutable) ==
    Rec("stampindexItem", [namespace |-> ns, BatchID |-> Fill(1), Index |-> Bytes(index, 8),
                           Timestamp |-> Bytes(1, 8), ChunkAddress |-> addr,
                           Immutable |-> immutable])
StampRecords ==
    {StampOf(<<1>>, 2, 1), StampOf(<<1>>, 2, 2), StampOf(<<1, 1>>, 2, 1), StampOf(<<>>, 2, 1),
     IndexOf(<<1>>, 1, Fill(2), TRUE), IndexOf(<<1>>, 1, <<>>, FALSE),
     IndexOf(<<1, 1>>, 2, Fill(2), TRUE),
     Rec("StampItem", [BatchID |-> Fill(1), ChunkAddress |-> Fill(250), Index |-> Bytes(1, 8),
                       Timestamp |-> Bytes(2, 8)]),
     Rec("expiredBatchItem", [BatchID |-> Fill(1)])}

CacheRecords ==
    {Rec("cacheEntry", [Address |-> Fill(1), AccessTimestamp |-> 10]),
     Rec("cacheEntry", [Address |-> Fill(1), AccessTimestamp |-> 0]),
     Rec("cacheOrderIndex", [AccessTimestamp |-> 10, Address |-> Fill(200)]),
     Rec("cacheOrderIndex", [AccessTimestamp |-> 11, Address |-> Fill(1)]),
     Rec("RetrievalIndexItem", [Address |-> Fill(1), Timestamp |-> 70000, Shard |-> 31,
                                Slot |-> 65536, Length |-> 4096, RefCnt |-> 256]),
     Rec("StorageVersionItem", [Group |-> <<1>>, Version |-> 4]),
     Rec("StorageVersionItem", [Group |-> <<2>>, Version |-> 5]),
     Rec("EpochItem", [Timestamp |-> 1700000000]),
     Rec("Batch", [ID |-> Fill(1), Value |-> 1000000, Start |-> 65537, Owner |-> Bytes(1, 20),
                   BucketDepth |-> 16, Depth |-> 17, Immutable |-> TRUE])}

RecordSets == {{}, ReserveRecords, UploadRecords, PinRecords, StampRecords, CacheRecords}

-----------------------------------------------------------------------------
\* Stores of earlier versions, killed up to twice while they are migrated.

OldState ==
    [k \in {<<"", "tags", 1>>, <<"", "swap", 2>>, <<"", "sync_interval", 3>>,
            <<"", "blocklist", 4>>, <<"ss", "accounting", 5>>, <<"ss", "batchstore", 6>>} |-> k[3]]
Counted(n) == [k \in {<<"retrievalIdx", c>> : c \in 1 .. n} |-> [old |-> TRUE, ref |-> k[2]]]
OldReserve ==
    [k \in {<<"batchRadius", 0, 1>>, <<"batchRadius", 0, 2>>, <<"batchRadius", 1, 3>>,
            <<"batchRadius", 0, 4>>} |-> 9]
      @@ [k \in {<<"binID", 0>>, <<"binID", 2>>} |-> 9] @@ [k \in {<<"chunkBin", 0, 9>>} |-> 1]
      @@ [k \in {<<"cacheEntry", 1>>, <<"cacheEntry", 2>>} |-> [old |-> TRUE]]
      @@ [k \in {<<"UploadItem", 1>>} |-> 0]
IndexOfKinds ==
    {[k \in {<<"item", n>> : n \in 1 .. 4} |-> f[k[2]]] :
        f \in [1 .. 4 -> {"keep", "delete", "update"}]}
Mig(group, store, chunks, batch) ==
    [group |-> group, store |-> store, chunks |-> chunks, batch |-> batch]
MigSafe ==
    {Mig("statestore", OldState, {}, 1), Mig("after", OldReserve, {1, 2, 3}, 2),
     Mig("core", Counted(3), {}, 2), Mig("core", Counted(3), {}, 3)}
      \cup {Mig("index", s, {}, 2) : s \in IndexOfKinds}

-----------------------------------------------------------------------------
\* The state store: two clients, keys of different classes, a cache of two entries.

CallOf(op, class, n, v) == [op |-> op, key |-> <<class, n>>, val |-> v]
StateDisk ==
    [k \in {<<"accounting", 1>>, <<"swap", 2>>, <<"addressbook", 3>>, <<"kademlia", 4>>} |-> 1]
CallsOn(n, class) ==
    {<<CallOf("get", class, n, 0), CallOf("put", class, n, 2), CallOf("get", class, n, 0)>>,
     <<CallOf("put", class, n, 2), CallOf("delete", class, n, 0), CallOf("get", class, n, 0)>>,
     <<CallOf("get", class, n, 0), CallOf("delete", class, n, 0), CallOf("put", class, n, 3)>>,
     <<CallOf("get", "addressbook", 3, 0), CallOf("iterate", class, n, 0),
       CallOf("put", class, n, 4)>>}
Nuking == <<CallOf("get", "kademlia", 4, 0), CallOf("nuke", "kademlia", 4, 0)>>
Beside ==
    <<CallOf("get", "swap", 2, 0), CallOf("get", "accounting", 1, 0), CallOf("put", "swap", 2, 2)>>
Clients(nukes, a, b) ==
    [disk |-> StateDisk, nukes |-> nukes, calls |-> [c \in StateClients |-> IF c = 1 THEN a ELSE b]]
StateSafe ==
    {Clients(FALSE, a, b) : a \in CallsOn(1, "accounting"), b \in CallsOn(2, "swap")}
      \cup {Clients(TRUE, Nuking, Beside)}

-----------------------------------------------------------------------------
\* The hasher: one client that hashes two chunks with the same tree, of every length around
\* the sections; one that proves every segment; and two clients that share the pool.

Hashing(size, step) == [size |-> size, step |-> step, prove |-> {}]
Proving(size, segments) == [size |-> size, step |-> 8, prove |-> segments]
BmtSafe ==
    {(1 :> <<Hashing(a, 3), Hashing(b, 9)>>) @@ (2 :> <<>>) : a \in 6 .. 8, b \in {0, 3, 8}}
      \cup {(1 :> <<Proving(3, 0 .. 7)>>) @@ (2 :> <<>>)}
      \cup {(1 :> <<Hashing(1, 8)>>) @@ (2 :> <<Hashing(2, 8)>>)}

-----------------------------------------------------------------------------
\* PSS: chunks that are messages for this node, for its topic, for somebody else, empty, or
\* no messages at all; sockets on two topics; and targets to mine for.

Message(t, f) == [full |-> TRUE, pub |-> TRUE, for |-> f, topic |-> t, msg |-> "hello"]
TopicsOf == ("a" :> "t") @@ ("b" :> "t") @@ ("d" :> "u")
NoSend == [long |-> FALSE, targets |-> <<0>>]
Arriving ==
    {Message("t", "node"), Message("u", "topic"), Message("t", "other"),
     [Message("t", "node") EXCEPT !.msg = None], Plain, [Plain EXCEPT !.pub = FALSE],
     [Message("t", "node") EXCEPT !.full = FALSE]}
PssSafe ==
    [chunks : {<<c>> : c \in Arriving}, sockets : {{"a", "d"}}, send : {NoSend}, sends : {FALSE}]
      \cup [chunks : {<<Message("t", "node")>>}, sockets : {{"a", "b"}}, send : {NoSend},
            sends : {FALSE}]
      \cup [chunks : {<<>>}, sockets : {{}}, sends : {TRUE},
            send : [long : BOOLEAN, targets : {<<>>, <<1>>, <<1, 2>>, <<2, 2>>}]]
Silent == [chunks |-> <<>>, sockets |-> {}, send |-> NoSend, sends |-> FALSE]

-----------------------------------------------------------------------------
\* The process: a light and a full node, with the chain or the network failing, interrupted
\* and killed, moved to another network; the development node; and the other commands.

Light == [full |-> FALSE, bootnode |-> FALSE, chain |-> TRUE, swap |-> FALSE,
          chequebook |-> FALSE, restricted |-> FALSE, api |-> TRUE,
          debug |-> FALSE, incentives |-> FALSE, snapshot |-> FALSE]
Full == [Light EXCEPT !.full = TRUE, !.swap = TRUE, !.chequebook = TRUE,
                      !.debug = TRUE, !.incentives = TRUE]
Command == [cmd |-> "start", o |-> Light, networks |-> <<1>>, targeted |-> FALSE,
            signals |-> 0, kills |-> 0, faults |-> 0]
InitTwice == [Command EXCEPT !.cmd = "init", !.kills = 1, !.networks = <<1, 1>>]
LifeSafe ==
    {[Command EXCEPT !.o = Full, !.signals = 1, !.faults = 1],
     [Command EXCEPT !.o.restricted = TRUE, !.signals = 2],
     [Command EXCEPT !.o.snapshot = TRUE, !.o.api = FALSE, !.faults = 2],
     [Command EXCEPT !.o.api = FALSE, !.networks = <<1, 2, 1>>, !.targeted = TRUE,
                     !.kills = 1],
     [Command EXCEPT !.o.api = FALSE, !.o.chain = FALSE, !.networks = <<1, 1>>,
                     !.targeted = TRUE, !.kills = 1, !.faults = 1],
     [Command EXCEPT !.cmd = "dev", !.signals = 2, !.faults = 1],
     [Command EXCEPT !.cmd = "deploy", !.faults = 1, !.signals = 1],
     InitTwice}

-----------------------------------------------------------------------------
\* Uploads: requests that share a tag, a chunk or the batch; a batch that is full or not
\* usable; bodies that are refused; kills.

Upload(kind, deferred, tag, chunks) ==
    [kind |-> kind, deferred |-> deferred, pin |-> FALSE, tag |-> tag, good |-> TRUE,
     files |-> <<chunks>>, manifest |-> <<>>, ref |-> Head(chunks)]
Requested(plans) ==
    [plans |-> plans, dev |-> FALSE, usable |-> TRUE, capacity |-> 3, faults |-> 1, kills |-> 0]
PinnedFile == [Upload("file", TRUE, 1, <<"b">>) EXCEPT !.manifest = <<"m">>, !.pin = TRUE,
                                                        !.ref = "m"]
PinnedDir == [PinnedFile EXCEPT !.kind = "dir", !.tag = 0, !.files = <<<<"a">>, <<"b">>>>]
PinnedFeed == [PinnedFile EXCEPT !.kind = "feed", !.deferred = FALSE, !.files = <<>>]
ApiSafe ==
    {Requested(<<>>), Requested(<<Upload("bytes", TRUE, 0, <<"a", "b">>), PinnedFile>>),
     Requested(<<Upload("bytes", FALSE, 0, <<"a", "b">>), Upload("chunk", FALSE, 1, <<"c">>),
                 Upload("deleteTag", FALSE, 1, <<"x">>)>>),
     [Requested(<<Upload("stream", FALSE, 0, <<"a", "b">>),
                  Upload("reupload", FALSE, 0, <<"b", "c">>)>>) EXCEPT !.kills = 1],
     [Requested(<<Upload("stream", FALSE, 1, <<"a", "b">>),
                  Upload("bytes", TRUE, 1, <<"b", "c">>)>>) EXCEPT !.kills = 1, !.faults = 0,
                                                           !.capacity = 2],
     [Requested(<<PinnedDir, Upload("unpin", FALSE, 0, <<"m">>)>>) EXCEPT !.faults = 2],
     [Requested(<<PinnedFeed, [Upload("soc", FALSE, 0, <<"s">>) EXCEPT !.good = FALSE,
                                                                    !.pin = TRUE]>>)
        EXCEPT !.faults = 2],
     [Requested(<<Upload("soc", TRUE, 0, <<"a">>), Upload("bytes", TRUE, 1, <<"b">>)>>)
        EXCEPT !.capacity = 1],
     [Requested(<<Upload("bytes", FALSE, 0, <<"a">>), Upload("bytes", TRUE, 5, <<"a">>)>>)
        EXCEPT !.dev = TRUE],
     [Requested(<<Upload("soc", FALSE, 0, <<"a">>), Upload("reupload", TRUE, 5, <<"a">>)>>)
        EXCEPT !.usable = FALSE],
     Requested(<<Upload("pin", FALSE, 0, <<"a", "b">>), Upload("pin", FALSE, 0, <<"a", "b">>)>>),
     Requested(<<Upload("patchTag", FALSE, 1, <<"a">>), Upload("chunk", FALSE, 1, <<"a">>),
                 Upload("createTag", FALSE, 1, <<"a">>), Upload("deleteTag", FALSE, 1, <<"a">>)>>)}

\* Downloads: a website with index and error documents, directories and a file beside one of
\* the same name, a path that comes twice; a bare directory; a file; and a feed of websites.

FileOf(path, ref) == [path |-> path, ref |-> ref, regular |-> TRUE]
Site == [how |-> "dir", index |-> <<"i">>, error |-> <<"e">>,
         files |-> <<FileOf(<<"i">>, "home"), FileOf(<<"e">>, "err"),
                     FileOf(<<"d", "/", "i">>, "sub"), FileOf(<<"d", "/", "a">>, "a1"),
                     FileOf(<<"d", "/", "a">>, "a2"), FileOf(<<"x">>, "x"),
                     [FileOf(<<"l">>, "link") EXCEPT !.regular = FALSE],
                     FileOf(<<"x", "/", "y">>, "y"), FileOf(<<"n", "/", "z">>, "z")>>]
BareSite == [Site EXCEPT !.index = <<>>, !.error = <<>>]
NextSite == [Site EXCEPT !.files = <<FileOf(<<"i">>, "home2"), FileOf(<<"d">>, "d2"),
                                     FileOf(<<"e">>, "err2")>>]
OneFile == [how |-> "file", index |-> <<>>, error |-> <<>>, files |-> <<FileOf(<<"a">>, "fa")>>]
AskedPaths ==
    {<<>>, <<"i">>, <<"e">>, <<"d">>, <<"d", "/">>, <<"d", "/", "/">>, <<"d", "/", "a">>,
     <<"d", "/", "i">>, <<"l">>, <<"x">>, <<"x", "/">>, <<"n">>, <<"n", "/", "i">>, <<"q">>, <<"a">>}
SmallDownload ==
    [kind |-> "bytes", name |-> "unknown", path |-> <<>>, feed |-> TRUE,
     versions |-> <<OneFile>>, published |-> 1, missing |-> {}]
DownloadSafe ==
    [kind : {"aisc"}, name : {"hex"}, path : AskedPaths, feed : {FALSE},
     versions : {<<Site>>, <<BareSite>>, <<OneFile>>}, published : {0}, missing : {{}, {"a2"}}]
      \cup [kind : {"aisc"}, name : {"hex"}, path : AskedPaths, feed : {TRUE},
            versions : {<<Site, NextSite, BareSite>>}, published : {0, 1}, missing : {{}}]
      \cup [kind : {"bytes", "feed", "aisc"}, name : {"hex", "unknown"}, path : {<<>>},
            feed : {TRUE}, versions : {<<OneFile, Site>>}, published : {1},
            missing : {{"update"}, {"fa"}, {"manifest"}, {}}]
      \cup {SmallDownload}

-----------------------------------------------------------------------------
NodeInit ==
    /\ itemSc \in Among("items", ItemScenarios, {}) /\ ItemsInit
    /\ migSc \in Among("migrations", MigScenarios, Mig("core", Counted(3), {}, 2)) /\ MigInit
    /\ stSc \in Among("state", StateScripts, Clients(TRUE, Nuking, Beside)) /\ StateInit
    /\ \E w \in Among("bmt", BmtSafe, (1 :> <<>>) @@ (2 :> <<>>)) : BmtInit(w, 0)
    /\ \E s \in Among("pss", PssSafe, Silent) : PssInit(s)
    /\ lifeSc \in Among("life", LifeScenarios, InitTwice) /\ LifeInit
    /\ apiSc \in Among("uploads", ApiScenarios, Requested(<<>>)) /\ ApiInit
    /\ dlSc \in Among("downloads", DownloadScenarios, SmallDownload) /\ DownloadInit

StoreVars == <<itemVars, migVars, stateVars>>
ServiceVars == <<bmtvars, pssvars, lifeVars>>
ApiSideVars == <<apiVars, dlVars>>

StoreNext ==
    \/ focus = "items" /\ ItemsNext /\ UNCHANGED <<migVars, stateVars>>
    \/ focus = "migrations" /\ MigNext /\ UNCHANGED <<itemVars, stateVars>>
    \/ focus = "state" /\ StateNext /\ UNCHANGED <<itemVars, migVars>>

ServiceNext ==
    \/ focus = "bmt" /\ BmtNext /\ UNCHANGED <<pssvars, lifeVars>>
    \/ focus = "pss" /\ PssNext /\ UNCHANGED <<bmtvars, lifeVars>>
    \/ focus = "life" /\ LifeNext /\ UNCHANGED <<bmtvars, pssvars>>

ApiSideNext ==
    \/ focus = "uploads" /\ ApiNext /\ UNCHANGED dlVars
    \/ focus = "downloads" /\ DownloadNext /\ UNCHANGED apiVars

NodeVars == <<StoreVars, ServiceVars, ApiSideVars>>

NodeNext ==
    \/ StoreNext /\ UNCHANGED <<ServiceVars, ApiSideVars>>
    \/ ServiceNext /\ UNCHANGED <<StoreVars, ApiSideVars>>
    \/ ApiSideNext /\ UNCHANGED <<StoreVars, ServiceVars>>

Init ==
    /\ focus \in Parts
    /\ DataStart /\ NodeInit

Next ==
    \/ DataNext /\ UNCHANGED NodeVars
    \/ NodeNext /\ UNCHANGED <<ContentVars, PassVars, focus>>

Spec == Init /\ [][Next]_<<ContentVars, PassVars, NodeVars, focus>>

-----------------------------------------------------------------------------
\* What the API answers is so: an upload that is answered with success is kept, with its
\* stamps counted on disk, one that is refused leaves no session, and a download serves
\* what was uploaded under the path (the upload handlers, serveReference).
ApiSound == CreatedKept /\ StampsSaved /\ RefusedEnds /\ ServedRight /\ RedirectedOnce
=============================================================================
