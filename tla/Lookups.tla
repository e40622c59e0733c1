------------------------------ MODULE Lookups -------------------------------
(***************************************************************************)
(* Finding a reference: by its path in a manifest (pkg/manifest), and by   *)
(* topic and time in a feed (pkg/feeds).                                   *)
(***************************************************************************)
EXTENDS Integers, Sequences, SequencesExt, FiniteSets, TLC

(***************************************************************************)
(* The manifest of a collection of files: mantaray's trie of paths, kept   *)
(* in memory, stored node by node and loaded again lazily (pkg/manifest).  *)
(*                                                                         *)
(* A node is [value, entry, loaded, forks, ref]: loaded says that forks is *)
(* not nil; ref is <<>> or <<stored>>, and what is stored stands for its   *)
(* address.  A fork is [prefix, node], by the first symbol of the prefix.  *)
(***************************************************************************)

CONSTANTS
    ManifestPaths,   \* sequences of symbols
    Entries,         \* the references a path may have
    PrefixMaxSize,   \* nodePrefixMaxSize
    MaxEdits         \* bound on the calls of an edit

VARIABLES
    mtrie,    \* the root node
    content,  \* what the calls amount to, path -> entry: a simple manifest
    session,  \* build (a new manifest), read or edit (one opened by its reference)
    kept      \* [ref, content, edits]: the manifest that was stored last, the calls since

mvars == <<mtrie, content, session, kept>>

NoForks == [c \in {} |-> 0]
New == [value |-> FALSE, entry |-> 0, loaded |-> TRUE, forks |-> NoForks, ref |-> <<>>]
NodeRef(r, v) == [value |-> v, entry |-> 0, loaded |-> FALSE, forks |-> NoForks, ref |-> <<r>>]

WithFork(f, k, v) == [x \in DOMAIN f \cup {k} |-> IF x = k THEN v ELSE f[x]]
Rest(p, n) == SubSeq(p, n + 1, Len(p))
Common(a, b) == SubSeq(a, 1, CHOOSE n \in 0 .. Len(a) :
    /\ n <= Len(b) /\ SubSeq(a, 1, n) = SubSeq(b, 1, n)
    /\ n = Len(a) \/ n = Len(b) \/ a[n + 1] # b[n + 1])

(* load and UnmarshalBinary: nothing without a reference; the type of a     *)
(* node is kept by the fork that leads to it.                               *)
IsLoaded(n) ==
    IF n.loaded \/ n.ref = <<>> THEN n
    ELSE [n EXCEPT !.entry = n.ref[1].entry, !.loaded = TRUE,
            !.forks = [c \in DOMAIN n.ref[1].forks |->
                        [prefix |-> n.ref[1].forks[c].prefix,
                         node |-> NodeRef(n.ref[1].forks[c].ref, n.ref[1].forks[c].value)]]]

(* save and MarshalBinary: a node with a reference is saved already; the    *)
(* forks are saved first.  A node whose forks are nil cannot be marshalled. *)
RECURSIVE Savable(_), Save(_)
Savable(n) == n.ref # <<>> \/ (n.loaded /\ \A c \in DOMAIN n.forks : Savable(n.forks[c].node))
Save(n) ==
    IF n.ref # <<>> THEN n
    ELSE [n EXCEPT !.loaded = FALSE, !.forks = NoForks,
            !.ref = <<[entry |-> n.entry,
                       forks |-> [c \in DOMAIN n.forks |->
                          [prefix |-> n.forks[c].prefix, value |-> n.forks[c].node.value,
                           ref |-> Save(n.forks[c].node).ref[1]]]]>>]

---------------------------------------------------------------------------
(* Add.  A node that had to be loaded has no reference any more.            *)
NewLeaf(e) == [New EXCEPT !.value = TRUE, !.entry = e]

RECURSIVE LongLeaf(_, _)
LongLeaf(p, e) ==   \* the new forks of a path, none longer than the limit
    IF Len(p) <= PrefixMaxSize THEN [prefix |-> p, node |-> NewLeaf(e)]
    ELSE LET f == LongLeaf(Rest(p, PrefixMaxSize), e) IN
         [prefix |-> SubSeq(p, 1, PrefixMaxSize),
          node |-> [New EXCEPT !.forks = (f.prefix[1] :> f)]]

RECURSIVE AddPath(_, _, _)

(* A mutant: an edge is split without the node that hung on it. *)
SplitForgets(f, c, p, e) == AddPath([New EXCEPT !.value = (Len(p) = Len(c))], Rest(p, Len(c)), e)

(* The node below the common prefix: the fork's own, or a new one between. *)
Split(f, c, p, e) ==
    LET rest == Rest(f.prefix, Len(c))
        nn == IF rest = <<>> THEN f.node
              ELSE [New EXCEPT !.forks = (rest[1] :> [prefix |-> rest, node |-> f.node]),
                               !.value = (Len(p) = Len(c))]
    IN AddPath(nn, Rest(p, Len(c)), e)

AddPath(n, p, e) ==
    IF p = <<>> THEN [n EXCEPT !.entry = e, !.value = TRUE, !.ref = <<>>]
    ELSE LET m == IF n.loaded THEN n ELSE [IsLoaded(n) EXCEPT !.ref = <<>>] IN
         IF p[1] \notin DOMAIN m.forks
         THEN [m EXCEPT !.forks = WithFork(@, p[1], LongLeaf(p, e))]
         ELSE LET f == m.forks[p[1]]
                  c == Common(f.prefix, p)
              IN [m EXCEPT !.forks[p[1]] = [prefix |-> c, node |-> Split(f, c, p, e)]]

(* Add writes into the forks of the node it ends at: nil in one that was    *)
(* given an entry without having been loaded.                               *)
RECURSIVE AddPanics(_, _)
AddPanics(n, p) ==
    /\ p # <<>>
    /\ \/ ~n.loaded /\ n.ref = <<>>
       \/ LET m == IsLoaded(n) IN
          /\ p[1] \in DOMAIN m.forks /\ IsPrefix(m.forks[p[1]].prefix, p)
          /\ AddPanics(m.forks[p[1]].node, Rest(p, Len(m.forks[p[1]].prefix)))

(* Remove: the whole fork that ends at the path goes. *)
RECURSIVE RemoveFork(_, _)
RemoveFork(n, p) ==
    LET m == IsLoaded(n) IN
    IF p[1] \notin DOMAIN m.forks \/ ~IsPrefix(m.forks[p[1]].prefix, p) THEN m
    ELSE LET rest == Rest(p, Len(m.forks[p[1]].prefix)) IN
         IF rest = <<>>
         THEN [m EXCEPT !.forks = [c \in DOMAIN m.forks \ {p[1]} |-> m.forks[c]]]
         ELSE [m EXCEPT !.forks[p[1]].node = RemoveFork(m.forks[p[1]].node, rest)]

(* LookupNode: what it finds, and the nodes it loads on the way. *)
Missing == [value |-> FALSE]
RECURSIVE LookupNode(_, _), Touch(_, _)
LookupNode(n, p) ==
    LET m == IsLoaded(n) IN
    IF p = <<>> THEN m
    ELSE IF p[1] \in DOMAIN m.forks /\ IsPrefix(m.forks[p[1]].prefix, p)
    THEN LookupNode(m.forks[p[1]].node, Rest(p, Len(m.forks[p[1]].prefix)))
    ELSE Missing
Touch(n, p) ==
    LET m == IsLoaded(n) IN
    IF p = <<>> \/ p[1] \notin DOMAIN m.forks \/ ~IsPrefix(m.forks[p[1]].prefix, p) THEN m
    ELSE [m EXCEPT !.forks[p[1]].node = Touch(@, Rest(p, Len(m.forks[p[1]].prefix)))]

RECURSIVE HasPrefix(_, _)
HasPrefix(n, p) ==
    LET m == IsLoaded(n) IN
    \/ p = <<>>
    \/ /\ p[1] \in DOMAIN m.forks
       /\ LET f == m.forks[p[1]] IN
          \/ IsPrefix(f.prefix, p) /\ HasPrefix(f.node, Rest(p, Len(f.prefix)))
          \/ IsPrefix(p, f.prefix)

(* WalkNode: every node below, with its path. *)
RECURSIVE WalkPaths(_, _)
WalkPaths(n, p) == LET m == IsLoaded(n) IN
    {<<p, m>>} \cup UNION {WalkPaths(m.forks[c].node, p \o m.forks[c].prefix) : c \in DOMAIN m.forks}

(* IterateAddresses: the entries (and the references) of the nodes walked. *)
IterateAddresses(n) == {w[2].entry : w \in {v \in WalkPaths(n, <<>>) : v[2].value}}

---------------------------------------------------------------------------
(* The simple manifest: a map. *)
SimpleAdd(m, p, e) == WithFork(m, p, e)
SimpleRemove(m, p) == [q \in DOMAIN m \ {p} |-> m[q]]
SimpleHasPrefix(m, p) == \E q \in DOMAIN m : IsPrefix(p, q)
SimpleAddresses(m) == {m[p] : p \in DOMAIN m}

ManifestInit == /\ mtrie = New /\ content = NoForks /\ session = "build"
                /\ kept = [ref |-> <<>>, content |-> NoForks, edits |-> 0]

Edit == session = "edit" /\ kept.edits < MaxEdits
ManifestCounted == UNCHANGED session /\ kept' = IF session = "edit" THEN [kept EXCEPT !.edits = @ + 1] ELSE kept

AddEntry(p, e) ==
    /\ session = "build" \/ Edit
    /\ ~AddPanics(mtrie, p)
    /\ mtrie' = AddPath(mtrie, p, e) /\ content' = SimpleAdd(content, p, e)
    /\ ManifestCounted

RemoveEntry(p) ==
    /\ Edit /\ p \in DOMAIN content
    /\ mtrie' = RemoveFork(mtrie, p)
    /\ content' = SimpleRemove(content, p)
    /\ ManifestCounted

LookupEntry(p) ==
    /\ session = "read" \/ Edit
    /\ mtrie' = Touch(mtrie, p) /\ UNCHANGED content /\ ManifestCounted

(* Store, and an opening of what was stored by its reference. *)
StoreManifest ==
    /\ session \in {"build", "edit"} /\ Savable(mtrie)
    /\ kept' = [ref |-> Save(mtrie).ref, content |-> content, edits |-> 0]
    /\ session' = (IF session = "build" THEN "stored" ELSE "edited")
    /\ mtrie' = Save(mtrie) /\ UNCHANGED content

OpenReference(s) ==
    /\ session = "stored" /\ session' = s /\ content' = kept.content
    /\ mtrie' = NodeRef(kept.ref[1], FALSE) /\ UNCHANGED kept

ManifestNext ==
    \/ StoreManifest
    \/ \E p \in ManifestPaths : RemoveEntry(p) \/ LookupEntry(p) \/ \E e \in Entries : AddEntry(p, e)
    \/ \E s \in {"read", "edit"} : OpenReference(s)

---------------------------------------------------------------------------
(* A manifest that is built and stored, and one that is opened and read, is *)
(* the simple manifest of its Add calls, whatever their order and however   *)
(* the paths share prefixes or exceed the longest one: Lookup finds the     *)
(* last entry added to each path and nothing else, HasPrefix the prefixes   *)
(* of the paths, IterateAddresses all entries.                              *)
ManifestExact ==
    session \in {"build", "read"} =>
    /\ \A p \in ManifestPaths :
          LET n == LookupNode(mtrie, p) IN
          IF p \in DOMAIN content THEN n.value /\ n.entry = content[p] ELSE ~n.value
    /\ \A p \in ManifestPaths : HasPrefix(mtrie, p) = SimpleHasPrefix(content, p)
    /\ IterateAddresses(mtrie) = SimpleAddresses(content)

(* "Store stores the manifest, returning the resulting address."            *)
(* (manifest.Interface): the reference is that of the manifest as its calls *)
(* left it, for one that was opened by its reference and edited too.        *)
StoresEdits ==
    session \in {"stored", "edited"} =>
    \A p \in ManifestPaths :
        LET n == LookupNode(NodeRef(kept.ref[1], FALSE), p) IN
        IF p \in DOMAIN kept.content THEN n.value /\ n.entry = kept.content[p] ELSE ~n.value

-----------------------------------------------------------------------------
(***************************************************************************)
(* Lookups of feed updates (pkg/feeds): the concurrent search of a         *)
(* sequence feed, with its intervals of doubling look-aheads whose answers *)
(* come in any order, and the grid of an epoch feed, which the updater     *)
(* fills and the two finders search.  An update is its index or its time.  *)
(***************************************************************************)

CONSTANTS
    DefaultLevels,  \* look-aheads of an interval
    GridLevel,      \* maxLevel of the epoch grid: times are below 2^GridLevel
    MaxLaunches     \* bound on the intervals of a lookup

VARIABLES
    feedSc,      \* [kind, count, lost, times]: what was published, and what no request finds
    intervals, \* [base, level, notFound, found]; found is a result, by its number
    results,   \* [index, level]: shared by the intervals that inherit it
    asked,     \* outstanding requests: <<interval, level>>, or <<path, epoch>>
    answer,    \* the lookup's answer
    grid,      \* epoch -> time of the update; updater: [last, epoch]
    paths      \* [at, top, bottom, live]

fdvars == <<feedSc, intervals, results, asked, answer, grid, paths>>

Waiting == -2   \* no answer yet; -1: no update

---------------------------------------------------------------------------
(* The sequence feed.  A request finds an update that is published no later *)
(* than the time looked for and not lost.                                   *)
HasUpdate(i) == i < feedSc.count /\ i \notin feedSc.lost

(* finder.At, one by one: the last update before the first gap. *)
SequentialAt == CHOOSE i \in -1 .. (feedSc.count - 1) :
    ~HasUpdate(i + 1) /\ \A j \in 0 .. i : HasUpdate(j)

Requests(iv, level, min) == {<<iv, l>> : l \in (min + 1) .. level}

(* At: the first update, then an interval from there. *)
SequenceStart ==
    /\ feedSc.kind = "sequence" /\ answer = Waiting /\ intervals = <<>>
    /\ IF ~HasUpdate(0) THEN answer' = -1 /\ UNCHANGED <<intervals, results, asked>>
       ELSE /\ results' = <<[index |-> 0, level |-> 0]>>
            /\ intervals' = <<[base |-> 0, level |-> DefaultLevels,
                               notFound |-> DefaultLevels, found |-> 1]>>
            /\ asked' = Requests(1, DefaultLevels, 0) /\ UNCHANGED answer
    /\ UNCHANGED <<feedSc, grid, paths>>

(* A mutant: the earliest level that is not found is kept as it is. *)
NotFoundSame(l) == l

NotFoundAt(l) == l - 1

(* One result reaches the loop: the interval iv is updated to i, the        *)
(* results to rs.  A next interval starts at the latest update found; the   *)
(* result it inherits loses its level.                                      *)
Launch(iv, i, rs, left, level, min) ==
    /\ Len(intervals) < MaxLaunches
    /\ results' = [rs EXCEPT ![i.found].level = 0]
    /\ intervals' = Append([intervals EXCEPT ![iv] = i],
                           [base |-> rs[i.found].index, level |-> level,
                            notFound |-> level, found |-> i.found])
    /\ asked' = left \cup Requests(Len(intervals) + 1, level, min)
    /\ UNCHANGED answer

Settle(iv, i, rs, left) ==
    LET f == rs[i.found] IN
    IF f.level = i.notFound /\ f.level = 0
    THEN answer' = f.index /\ asked' = {} /\ UNCHANGED <<intervals, results>>
    ELSE IF f.level = i.notFound THEN Launch(iv, i, rs, left, f.level, 0)
    ELSE IF i.notFound < f.level
    THEN \E min \in {0, f.level} : Launch(iv, i, rs, left, i.level, min)
    ELSE /\ results' = rs /\ intervals' = [intervals EXCEPT ![iv] = i] /\ asked' = left
         /\ UNCHANGED answer

SequenceResult(iv, l) ==
    LET i == intervals[iv]
        index == i.base + 2 ^ l - 1
        left == asked \ {<<iv, l>>}
        skip == asked' = left /\ UNCHANGED <<intervals, results, answer>>
    IN /\ feedSc.kind = "sequence" /\ <<iv, l>> \in asked /\ answer = Waiting
       /\ UNCHANGED <<feedSc, grid, paths>>
       /\ IF ~HasUpdate(index)
          THEN IF i.notFound < l THEN skip
               ELSE Settle(iv, [i EXCEPT !.notFound = NotFoundAt(l)], results, left)
          ELSE IF results[i.found].level > l THEN skip
          ELSE IF i.level = l /\ l < DefaultLevels
          THEN answer' = index /\ asked' = {} /\ UNCHANGED <<intervals, results>>
          ELSE Settle(iv, [i EXCEPT !.found = Len(results) + 1],
                      Append(results, [index |-> index, level |-> l]), left)

---------------------------------------------------------------------------
(* The epoch grid. *)
Length(e) == 2 ^ e.level
Top == [start |-> 0, level |-> GridLevel]
Parent(e) == [start |-> (e.start \div (2 * Length(e))) * 2 * Length(e), level |-> e.level + 1]
Left(e) == [e EXCEPT !.start = @ - Length(e)]
IsLeft(e) == (e.start \div Length(e)) % 2 = 0
ChildAt(e, at) ==
    LET c == [e EXCEPT !.level = @ - 1] IN
    IF (at \div Length(c)) % 2 = 1 THEN [c EXCEPT !.start = e.start + Length(c)] ELSE c

Lca(at, after) ==
    IF after = 0 THEN Top
    ELSE LET level == CHOOSE l \in 0 .. GridLevel :
               LET fits(k) == k = GridLevel \/
                     (2 ^ k >= at - after /\ at \div 2 ^ k = after \div 2 ^ k)
               IN fits(l) /\ \A k \in 0 .. (l - 1) : ~fits(k)
         IN [start |-> (after \div 2 ^ level) * 2 ^ level, level |-> level]

(* A mutant: the epoch of the last update is always refined. *)
NextEpochBelow(e, last, at) == IF e = <<>> THEN Top ELSE ChildAt(e[1], at)

NextEpoch(e, last, at) ==
    IF e = <<>> THEN Top
    ELSE IF e[1].start + Length(e[1]) > at THEN ChildAt(e[1], at)
    ELSE ChildAt(Lca(at, last), at)

(* Update *)
EpochUpdate(at) ==
    LET e == NextEpoch(grid.epoch, grid.last, at) IN
    /\ feedSc.kind = "epoch" /\ answer = Waiting /\ paths = <<>>
    /\ at > grid.last /\ at < 2 ^ GridLevel /\ Cardinality(feedSc.times) < feedSc.count
    /\ grid' = [last |-> at, epoch |-> <<e>>, at |-> (e :> at) @@ grid.at]
    /\ feedSc' = [feedSc EXCEPT !.times = @ \cup {at}]
    /\ UNCHANGED <<intervals, results, asked, answer, paths>>

(* finder.At, one by one: up to the first epoch found, then down. *)
Published(e, at) == e \in DOMAIN grid.at /\ grid.at[e] <= at

RECURSIVE CommonAncestor(_, _), DownFrom(_, _, _)
CommonAncestor(e, at) ==
    IF Published(e, at) \/ e.level = GridLevel THEN e ELSE CommonAncestor(Parent(e), at)
DownFrom(e, at, found) ==
    IF Published(e, at)
    THEN IF e.level = 0 THEN grid.at[e] ELSE DownFrom(ChildAt(e, at), at, grid.at[e])
    ELSE IF IsLeft(e) THEN found ELSE DownFrom(Left(e), e.start - 1, found)

FinderAt(at, after) ==
    LET e == CommonAncestor(Lca(at, after), at)
    IN DownFrom(e, at, IF Published(e, at) THEN grid.at[e] ELSE 0)

(* asyncFinder: all epochs of the path of a time are asked for at once. *)
RECURSIVE PathOf(_, _)
PathOf(e, at) == {e} \cup IF e.level = 0 THEN {} ELSE PathOf(ChildAt(e, at), at)

EpochStart(at) ==
    /\ feedSc.kind = "epoch" /\ answer = Waiting /\ paths = <<>> /\ feedSc.times # {}
    /\ paths' = <<[at |-> at, top |-> <<>>, bottom |-> <<>>, live |-> TRUE]>>
    /\ asked' = {<<1, e>> : e \in PathOf(Top, at)}
    /\ UNCHANGED <<feedSc, intervals, results, answer, grid>>

Continue(k, p, left) ==
    IF p.top # <<>> /\ p.bottom # <<>> /\ p.top[1].level = p.bottom[1].level + 1
    THEN IF IsLeft(p.bottom[1])
         THEN answer' = grid.at[p.top[1]] /\ asked' = {} /\ UNCHANGED paths
         ELSE /\ paths' = Append([paths EXCEPT ![k].live = FALSE],
                   [at |-> p.bottom[1].start - 1, top |-> p.top, bottom |-> <<>>, live |-> TRUE])
              /\ asked' = {q \in left : q[1] # k} \cup
                   {<<Len(paths) + 1, e>> : e \in PathOf(Left(p.bottom[1]), p.bottom[1].start - 1)}
              /\ UNCHANGED answer
    ELSE paths' = [paths EXCEPT ![k] = p] /\ asked' = left /\ UNCHANGED answer

EpochResult(k, e) ==
    LET p == paths[k]
        left == asked \ {<<k, e>>}
    IN /\ feedSc.kind = "epoch" /\ answer = Waiting /\ <<k, e>> \in asked
       /\ UNCHANGED <<feedSc, intervals, results, grid>>
       /\ IF Published(e, p.at)
          THEN IF e.level = 0 THEN answer' = grid.at[e] /\ asked' = {} /\ UNCHANGED paths
               ELSE IF p.top # <<>> /\ p.top[1].level < e.level
               THEN asked' = left /\ UNCHANGED <<paths, answer>>
               ELSE Continue(k, [p EXCEPT !.top = <<e>>], left)
          ELSE IF e.level = GridLevel THEN answer' = 0 /\ asked' = {} /\ UNCHANGED paths
          ELSE Continue(k, IF p.bottom = <<>> \/ p.bottom[1].level < e.level
                           THEN [p EXCEPT !.bottom = <<e>>] ELSE p, left)

FeedsInit(f) ==
    /\ feedSc = f /\ intervals = <<>> /\ results = <<>> /\ asked = {} /\ answer = Waiting
    /\ grid = [last |-> 0, epoch |-> <<>>, at |-> [e \in {} |-> 0]] /\ paths = <<>>

FeedsNext ==
    \/ SequenceStart
    \/ \E q \in asked : IF feedSc.kind = "sequence" THEN SequenceResult(q[1], q[2])
                        ELSE EpochResult(q[1], q[2])
    \/ \E at \in 1 .. (2 ^ GridLevel - 1) : EpochUpdate(at) \/ EpochStart(at)

---------------------------------------------------------------------------
Latest(at) == CHOOSE t \in feedSc.times \cup {0} : t <= at /\ \A u \in feedSc.times : u <= at => u <= t

(* Whatever the order of the answers, a lookup of a feed without gaps finds *)
(* the latest update no later than the time looked for (asyncFinder.At of   *)
(* both feeds, and the epoch finder's At with any known update as a hint);  *)
(* of a feed with gaps the sequence lookup finds some update that is there. *)
(* Without gaps it never waits for an answer nobody owes it.                *)
FeedLatest ==
    /\ feedSc.kind = "sequence" /\ answer # Waiting =>
          /\ answer >= 0 => HasUpdate(answer)
          /\ feedSc.lost = {} => answer = feedSc.count - 1 /\ answer = SequentialAt
    /\ feedSc.kind = "epoch" /\ answer # Waiting => answer = Latest(paths[1].at)
    /\ feedSc.kind = "epoch" => \A at \in 1 .. (2 ^ GridLevel - 1) :
          \A after \in {0} \cup {t \in feedSc.times : t <= at} : FinderAt(at, after) = Latest(at)
    /\ answer = Waiting /\ feedSc.lost = {} /\ (intervals # <<>> \/ paths # <<>>) => asked # {}

(* "At looks up the version valid at time `at`" (asyncFinder.At): it never  *)
(* waits for an answer nobody owes it, with gaps in the feed either.        *)
AtReturns == answer = Waiting /\ intervals # <<>> => asked # {}
=============================================================================
