------------------------------ MODULE Uploads ------------------------------
(***************************************************************************)
(* Upload sessions, pinned collections and the feed of the pusher: what a  *)
(* session has written so far is marked dirty (the tag, the collection)    *)
(* until Done, taken back by Cleanup, and taken back at the next start if  *)
(* the process stopped in between.  Put, Done, Cleanup and Report of       *)
(* uploads run under one lock; a collection that is only pinned, and       *)
(* DeletePin, run without it.                                              *)
(*                                                                         *)
(* A chunk stands for its address together with its stamp.  The collection *)
(* of a session is named after the session.                                *)
(***************************************************************************)
EXTENDS Integers, FiniteSets, FiniteSetsExt, Functions

CONSTANTS Chunks, Sessions, Tags, Deleters, NoRoot, UploadScenarios

VARIABLES
    tags,       \* TagItem: split, seen and synced of the tags there are
    nextTag,    \* nextTagID
    dirtyTag,   \* dirtyTagItem: when the session of the tag started
    uploadItem, \* uploadItem: time and tag
    pushItem,   \* pushItem: what there is to push
    stamped,    \* chunkstamp
    pinCollection, \* pinCollectionItem: the collection of a root
    pinChunk,   \* pinChunkItem
    dirtyCollection,
    chunkRefs,  \* references of the chunk store
    sess,       \* the sessions, in memory
    del,        \* calls of DeletePin
    feed,       \* SubscribePush
    up,         \* the store is open (New has cleaned up)
    uclock,     \* now()
    uhist,      \* what has happened, for the properties
    usc         \* the scenario

uploadIndex == <<tags, nextTag, dirtyTag, uploadItem, pushItem, stamped>>
pinIndex == <<pinCollection, pinChunk, dirtyCollection>>
uploadVars == <<uploadIndex, pinIndex, chunkRefs, sess, del, feed, up, uclock, uhist, usc>>

NewSess == [pc |-> "none", put |-> {}, seen |-> {}, uclosed |-> FALSE, pclosed |-> FALSE]
NoDeletion == [pc |-> "idle", root |-> NoRoot, uuids |-> {}, chunks |-> {}]
NewFeed == [pc |-> "iterating", snap |-> {}, signal |-> FALSE, given |-> {}]

UploadInit ==
    /\ usc \in UploadScenarios
    /\ tags = <<>> /\ nextTag = 0 /\ dirtyTag = <<>>
    /\ uploadItem = <<>> /\ pushItem = {} /\ stamped = {}
    /\ pinCollection = <<>> /\ pinChunk = {} /\ dirtyCollection = {}
    /\ chunkRefs = [c \in Chunks |-> 0]
    /\ sess = [s \in Sessions |-> NewSess]
    /\ del = [d \in Deleters |-> NoDeletion]
    /\ feed = NewFeed /\ up = TRUE /\ uclock = 0
    /\ uhist = [fails |-> 0, crashes |-> 0, reported |-> {}, dropped |-> <<>>,
                shared |-> FALSE, twice |-> FALSE, overtaken |-> FALSE, halfDeleted |-> {}]

Plan(s) == usc.plan[s]
Tag(s) == Plan(s).tag
Uploads(s) == Plan(s).tag # 0
Pins(s) == Plan(s).root # NoRoot

Without(f, keys) == Restrict(f, DOMAIN f \ keys)
With(f, k, v) == [x \in DOMAIN f \cup {k} |-> IF x = k THEN v ELSE f[x]]

\* chunkstore.Put and chunkstore.Delete, once for each pair
Referred(n) == chunkRefs' = [c \in Chunks |-> Max({0, chunkRefs[c] + n[c]})]
One(b) == IF b THEN 1 ELSE 0

MayFail == uhist.fails < usc.fails
Failed == [uhist EXCEPT !.fails = @ + 1]

-----------------------------------------------------------------------------
(* Sessions                                                                 *)

\* NewSession: NextTag
NewSession ==
    /\ up /\ nextTag < Cardinality(Tags)
    /\ nextTag' = nextTag + 1
    /\ tags' = With(tags, nextTag + 1, [split |-> 0, seen |-> 0, synced |-> 0])
    /\ UNCHANGED <<dirtyTag, uploadItem, pushItem, stamped, pinIndex, chunkRefs, sess, del, feed,
                   up, uclock, uhist, usc>>

DeleteSession(t) ==
    /\ up /\ t \in DOMAIN tags /\ usc.deletes
    /\ tags' = Without(tags, {t})
    /\ UNCHANGED <<nextTag, dirtyTag, uploadItem, pushItem, stamped, pinIndex, chunkRefs, sess,
                   del, feed, up, uclock, uhist, usc>>

\* Upload or NewCollection: the marks are written in one transaction
Open(s) ==
    /\ up /\ sess[s].pc = "none"
    /\ Uploads(s) => Tag(s) \in DOMAIN tags
    /\ dirtyTag' = IF Uploads(s) THEN With(dirtyTag, Tag(s), uclock + 1) ELSE dirtyTag
    /\ dirtyCollection' = IF Pins(s) THEN dirtyCollection \cup {s} ELSE dirtyCollection
    /\ uclock' = uclock + One(Uploads(s))
    /\ sess' = [sess EXCEPT ![s].pc = "open"]
    /\ uhist' = [uhist EXCEPT !.shared = @ \/ (Uploads(s) /\ Tag(s) \in DOMAIN dirtyTag)]
    /\ UNCHANGED <<tags, nextTag, uploadItem, pushItem, stamped, pinCollection, pinChunk,
                   chunkRefs, del, feed, up, usc>>

\* Put of the upload and of the collection, in one transaction
Put(s, c) ==
    LET new == Uploads(s) /\ c \notin DOMAIN uploadItem
        pin == Pins(s) /\ <<s, c>> \notin pinChunk
    IN  /\ up /\ sess[s].pc = "open" /\ c \in Plan(s).chunks \ sess[s].put
        /\ uclock' = uclock + One(new)
        /\ uploadItem' = IF new THEN With(uploadItem, c, [ts |-> uclock + 1, tag |-> Tag(s)])
                         ELSE uploadItem
        /\ pushItem' = IF new THEN pushItem \cup {[ts |-> uclock + 1, chunk |-> c, tag |-> Tag(s)]}
                       ELSE pushItem
        /\ stamped' = IF new THEN stamped \cup {c} ELSE stamped
        /\ pinChunk' = IF pin THEN pinChunk \cup {<<s, c>>} ELSE pinChunk
        /\ Referred([x \in Chunks |-> IF x = c THEN One(new) + One(pin) ELSE 0])
        /\ sess' = [sess EXCEPT ![s].put = @ \cup {c},
                                ![s].seen = IF Uploads(s) /\ ~new THEN @ \cup {c} ELSE @]
        /\ UNCHANGED <<tags, nextTag, dirtyTag, pinCollection, dirtyCollection, del, feed, up,
                       uhist, usc>>

\* a Put whose transaction is rolled back ends the session
PutFailed(s) ==
    /\ up /\ sess[s].pc = "open" /\ MayFail
    /\ sess' = [sess EXCEPT ![s].pc = "failed"]
    /\ uhist' = Failed
    /\ UNCHANGED <<uploadIndex, pinIndex, chunkRefs, del, feed, up, uclock, usc>>

Ready(s) == up /\ sess[s].pc = "open" /\ sess[s].put = Plan(s).chunks

TagGone(s) == Uploads(s) /\ Tag(s) \notin DOMAIN tags
Duplicate(s) == Pins(s) /\ Plan(s).root \in DOMAIN pinCollection

\* seeded fault: the chunks that were seen before are not counted
ClosedUnseen(s) ==
    /\ tags' = IF Uploads(s)
               THEN [tags EXCEPT ![Tag(s)].split = @ + Cardinality(sess[s].put)]
               ELSE tags
    /\ dirtyTag' = IF Uploads(s) THEN Without(dirtyTag, {Tag(s)}) ELSE dirtyTag
    /\ pinCollection' = IF Pins(s) THEN With(pinCollection, Plan(s).root, s) ELSE pinCollection
    /\ dirtyCollection' = dirtyCollection \ {s}
    /\ sess' = [sess EXCEPT ![s].pc = "done", ![s].uclosed = TRUE, ![s].pclosed = TRUE]

\* seeded fault: the mark of the collection is left
ClosedStillDirty(s) ==
    /\ tags' = IF Uploads(s)
               THEN [tags EXCEPT ![Tag(s)].split = @ + Cardinality(sess[s].put),
                                 ![Tag(s)].seen = @ + Cardinality(sess[s].seen)]
               ELSE tags
    /\ dirtyTag' = IF Uploads(s) THEN Without(dirtyTag, {Tag(s)}) ELSE dirtyTag
    /\ pinCollection' = IF Pins(s) THEN With(pinCollection, Plan(s).root, s) ELSE pinCollection
    /\ UNCHANGED dirtyCollection
    /\ sess' = [sess EXCEPT ![s].pc = "done", ![s].uclosed = TRUE, ![s].pclosed = TRUE]

\* what Close of the upload and Close of the collection write
Closed(s) ==
    /\ tags' = IF Uploads(s)
               THEN [tags EXCEPT ![Tag(s)].split = @ + Cardinality(sess[s].put),
                                 ![Tag(s)].seen = @ + Cardinality(sess[s].seen)]
               ELSE tags
    /\ dirtyTag' = IF Uploads(s) THEN Without(dirtyTag, {Tag(s)}) ELSE dirtyTag
    /\ pinCollection' = IF Pins(s) THEN With(pinCollection, Plan(s).root, s) ELSE pinCollection
    /\ dirtyCollection' = dirtyCollection \ {s}
    /\ sess' = [sess EXCEPT ![s].pc = "done", ![s].uclosed = TRUE, ![s].pclosed = TRUE]

\* the trigger of subscribe-push, which uploads send after Done and Cleanup
PushSignal(s) == IF Uploads(s) THEN [feed EXCEPT !.signal = TRUE] ELSE feed

\* seeded fault: the feed is not told
DoneQuiet(s) ==
    /\ Ready(s) /\ Uploads(s) /\ ~TagGone(s) /\ ~Duplicate(s)
    /\ Closed(s)
    /\ UNCHANGED <<nextTag, uploadItem, pushItem, stamped, pinChunk, chunkRefs, del, feed, up,
                   uclock, uhist, usc>>

\* Done of an upload, under the lock
Done(s) ==
    /\ Ready(s) /\ Uploads(s) /\ ~TagGone(s) /\ ~Duplicate(s)
    /\ Closed(s)
    /\ feed' = PushSignal(s)
    /\ UNCHANGED <<nextTag, uploadItem, pushItem, stamped, pinChunk, chunkRefs, del, up, uclock,
                   uhist, usc>>

\* one of the two cannot be closed: nothing is written, but the other counts as closed
DoneRefused(s) ==
    /\ Ready(s) /\ Uploads(s) /\ (TagGone(s) \/ Duplicate(s))
    /\ sess' = [sess EXCEPT ![s].pc = "failed", ![s].uclosed = ~TagGone(s),
                            ![s].pclosed = Pins(s) /\ ~Duplicate(s)]
    /\ feed' = PushSignal(s)
    /\ UNCHANGED <<uploadIndex, pinIndex, chunkRefs, del, up, uclock, uhist, usc>>

\* the batch cannot be written: both count as closed
DoneFailed(s) ==
    /\ Ready(s) /\ Uploads(s) /\ ~TagGone(s) /\ ~Duplicate(s) /\ MayFail
    /\ sess' = [sess EXCEPT ![s].pc = "failed", ![s].uclosed = TRUE, ![s].pclosed = Pins(s)]
    /\ feed' = PushSignal(s)
    /\ uhist' = Failed
    /\ UNCHANGED <<uploadIndex, pinIndex, chunkRefs, del, up, uclock, usc>>

\* Done of a collection that is only pinned: the root is looked up, and written later
PinCheck(s) ==
    /\ Ready(s) /\ ~Uploads(s)
    /\ sess' = [sess EXCEPT ![s].pc = IF Duplicate(s) THEN "failed" ELSE "checked"]
    /\ UNCHANGED <<uploadIndex, pinIndex, chunkRefs, del, feed, up, uclock, uhist, usc>>

PinWrite(s) ==
    /\ up /\ sess[s].pc = "checked"
    /\ Closed(s)
    /\ uhist' = [uhist EXCEPT !.overtaken = @ \/ Duplicate(s)]
    /\ UNCHANGED <<nextTag, uploadItem, pushItem, stamped, pinChunk, chunkRefs, del, feed, up,
                   uclock, usc>>

\* seeded fault: whatever was added since, also by other sessions
FreshOfAll(t) == {p \in pushItem : p.ts >= dirtyTag[t]}

\* the push items of a tag since its session started, which Cleanup takes back
Fresh(t) == {p \in pushItem : p.tag = t /\ p.ts >= dirtyTag[t]}

\* remove, deleteCollectionChunks, and the marks; a collection is taken back as well when
\* the upload cannot be
TakenBack(uploads, collections) ==
    LET gone == UNION {Fresh(t) : t \in uploads}
        chunks == {p.chunk : p \in gone}
        pins == {x \in pinChunk : x[1] \in collections}
    IN  /\ uploadItem' = Without(uploadItem, chunks)
        /\ pushItem' = pushItem \ gone
        /\ stamped' = stamped \ chunks
        /\ dirtyTag' = Without(dirtyTag, uploads)
        /\ pinChunk' = pinChunk \ pins
        /\ dirtyCollection' = dirtyCollection \ collections
        /\ Referred([c \in Chunks |-> -(One(c \in chunks)
                                         + Cardinality({x \in pins : x[2] = c}))])

Cleanup(s) ==
    /\ up /\ sess[s].pc \in {"open", "failed"}
    /\ TakenBack(IF Uploads(s) /\ ~sess[s].uclosed /\ Tag(s) \in DOMAIN dirtyTag
                 THEN {Tag(s)} ELSE {},
                 IF Pins(s) /\ ~sess[s].pclosed THEN {s} ELSE {})
    /\ sess' = [sess EXCEPT ![s].pc = "cleaned"]
    /\ feed' = PushSignal(s)
    /\ UNCHANGED <<tags, nextTag, pinCollection, del, up, uclock, uhist, usc>>

-----------------------------------------------------------------------------
(* DeletePin: the collection is read, its chunks are deleted, then its root  *)

DeletePinReads(d, r) ==
    /\ up /\ del[d].pc = "idle" /\ r \in DOMAIN pinCollection
    /\ del' = [del EXCEPT ![d] =
                 [pc |-> "listed", root |-> r, uuids |-> {pinCollection[r]},
                  chunks |-> {x \in pinChunk : x[1] = pinCollection[r]}]]
    /\ uhist' = [uhist EXCEPT !.twice = @ \/ \E e \in Deleters : del[e].root = r]
    /\ UNCHANGED <<uploadIndex, pinIndex, chunkRefs, sess, feed, up, uclock, usc>>

DeletePinChunks(d) ==
    /\ up /\ del[d].pc = "listed"
    /\ pinChunk' = pinChunk \ del[d].chunks
    /\ Referred([c \in Chunks |-> -Cardinality({x \in del[d].chunks : x[2] = c})])
    /\ del' = [del EXCEPT ![d].pc = "emptied"]
    /\ UNCHANGED <<uploadIndex, pinCollection, dirtyCollection, sess, feed, up, uclock, uhist,
                   usc>>

DeletePinRoot(d) ==
    /\ up /\ del[d].pc = "emptied"
    /\ pinCollection' = Without(pinCollection, {del[d].root})
    /\ del' = [del EXCEPT ![d] = NoDeletion]
    /\ UNCHANGED <<uploadIndex, pinChunk, dirtyCollection, chunkRefs, sess, feed, up, uclock,
                   uhist, usc>>

-----------------------------------------------------------------------------
(* SubscribePush and Report                                                 *)

Iterating ==
    /\ up /\ feed.pc = "iterating"
    /\ feed' = [feed EXCEPT !.pc = "giving", !.snap = pushItem]
    /\ UNCHANGED <<uploadIndex, pinIndex, chunkRefs, sess, del, up, uclock, uhist, usc>>

\* items of dirty tags are skipped; a chunk or stamp that is gone ends the iteration
Give ==
    LET p == CHOOSE x \in feed.snap : \A y \in feed.snap : x.ts <= y.ts
    IN  /\ up /\ feed.pc = "giving" /\ feed.snap # {}
        /\ feed' = IF p.tag \in DOMAIN dirtyTag THEN [feed EXCEPT !.snap = @ \ {p}]
                   ELSE IF chunkRefs[p.chunk] = 0 \/ p.chunk \notin stamped
                   THEN [feed EXCEPT !.pc = "waiting", !.snap = {}, !.signal = TRUE]
                   ELSE [feed EXCEPT !.snap = @ \ {p}, !.given = @ \cup {p}]
        /\ UNCHANGED <<uploadIndex, pinIndex, chunkRefs, sess, del, up, uclock, uhist, usc>>

Given ==
    /\ up /\ feed.pc = "giving" /\ feed.snap = {}
    /\ feed' = [feed EXCEPT !.pc = "waiting"]
    /\ UNCHANGED <<uploadIndex, pinIndex, chunkRefs, sess, del, up, uclock, uhist, usc>>

TakeSignal ==
    /\ up /\ feed.pc = "waiting" /\ feed.signal
    /\ feed' = [feed EXCEPT !.pc = "iterating", !.signal = FALSE]
    /\ UNCHANGED <<uploadIndex, pinIndex, chunkRefs, sess, del, up, uclock, uhist, usc>>

\* Report of a chunk that was stored or synced, or that could not be synced; the report that
\* it was sent changes a counter only
Report(p, synced) ==
    LET c == p.chunk
        t == uploadItem[c].tag
    IN  /\ up /\ p \in feed.given /\ c \in DOMAIN uploadItem /\ t \in DOMAIN tags
        /\ tags' = [tags EXCEPT ![t].synced = @ + One(synced)]
        /\ pushItem' = pushItem \ {x \in pushItem : x.ts = uploadItem[c].ts /\ x.chunk = c}
        /\ uploadItem' = Without(uploadItem, {c})
        /\ stamped' = stamped \ {c}
        /\ Referred([x \in Chunks |-> -One(x = c)])
        /\ uhist' = [uhist EXCEPT !.reported = @ \cup {<<t, c>>},
                                  !.dropped = IF synced THEN @ ELSE
                                     With(@, t, 1 + IF t \in DOMAIN @ THEN @[t] ELSE 0)]
        /\ UNCHANGED <<nextTag, dirtyTag, pinIndex, sess, del, feed, up, uclock, usc>>

-----------------------------------------------------------------------------
(* The process stops; New takes back what is marked before the store opens  *)

UploadCrash ==
    /\ uhist.crashes < usc.crashes
    /\ uhist' = [uhist EXCEPT !.crashes = @ + 1,
                              !.halfDeleted = @ \cup UNION {del[d].uuids : d \in Deleters}]
    /\ up' = FALSE
    /\ sess' = [s \in Sessions |-> IF sess[s].pc \in {"none", "done"} THEN sess[s]
                                   ELSE [sess[s] EXCEPT !.pc = "cleaned"]]
    /\ del' = [d \in Deleters |-> NoDeletion]
    /\ feed' = NewFeed
    /\ UNCHANGED <<uploadIndex, pinIndex, chunkRefs, uclock, usc>>

CleanupDirty ==
    /\ ~up
    /\ \/ \E t \in DOMAIN dirtyTag : TakenBack({t}, {})
       \/ DOMAIN dirtyTag = {} /\ \E u \in dirtyCollection : TakenBack({}, {u})
    /\ UNCHANGED <<tags, nextTag, pinCollection, sess, del, feed, up, uclock, uhist, usc>>

Start ==
    /\ ~up /\ DOMAIN dirtyTag = {} /\ dirtyCollection = {}
    /\ up' = TRUE
    /\ UNCHANGED <<uploadIndex, pinIndex, chunkRefs, sess, del, feed, uclock, uhist, usc>>

Feeds == Iterating \/ Give \/ Given \/ TakeSignal

UploadNext ==
    \/ NewSession \/ (\E t \in Tags : DeleteSession(t))
    \/ \E s \in Sessions :
          \/ Open(s) \/ (\E c \in Chunks : Put(s, c)) \/ PutFailed(s)
          \/ Done(s) \/ DoneRefused(s) \/ DoneFailed(s) \/ PinCheck(s) \/ PinWrite(s)
          \/ Cleanup(s)
    \/ \E d \in Deleters : \/ \E r \in DOMAIN pinCollection : DeletePinReads(d, r)
                           \/ DeletePinChunks(d) \/ DeletePinRoot(d)
    \/ Feeds \/ (\E p \in feed.given, synced \in BOOLEAN : Report(p, synced))
    \/ UploadCrash \/ CleanupDirty \/ Start

\* the goroutine of the feed goes on when it can, and the node starts
UploadFairness == WF_uploadVars(Feeds) /\ WF_uploadVars(CleanupDirty \/ Start)

-----------------------------------------------------------------------------
(* Properties                                                               *)

\* Every variable of the upload and pin stores keeps its type.
UploadTypeOK ==
    /\ DOMAIN tags \subseteq Tags /\ DOMAIN dirtyTag \subseteq Tags
    /\ DOMAIN uploadItem \subseteq Chunks /\ stamped \subseteq Chunks
    /\ \A p \in pushItem : p.chunk \in Chunks /\ p.tag \in Tags /\ p.ts \in 1 .. uclock
    /\ pinChunk \subseteq Sessions \X Chunks /\ dirtyCollection \subseteq Sessions
    /\ Range(pinCollection) \subseteq Sessions
    /\ chunkRefs \in [Chunks -> Nat] /\ up \in BOOLEAN
    /\ \A s \in Sessions :
          sess[s].pc \in {"none", "open", "checked", "failed", "cleaned", "done"}

\* The upload store holds one reference of each of its chunks and every collection one of
\* each of its own: no session, report or deletion gives up the reference of another -
\* unless two calls of DeletePin delete one root together.
UploadRefsExact ==
    ~uhist.twice =>
        \A c \in Chunks : chunkRefs[c] = One(c \in DOMAIN uploadItem)
                                          + Cardinality({x \in pinChunk : x[2] = c})

\* What is to be pushed, what is tracked and what is stamped are the same chunks, with the
\* same time and tag, through failures, reports, cleanups and restarts.
PushAgrees ==
    /\ pushItem = {[ts |-> uploadItem[c].ts, chunk |-> c, tag |-> uploadItem[c].tag] :
                     c \in DOMAIN uploadItem}
    /\ stamped = DOMAIN uploadItem

\* no other session uses the tag
Alone(s) == \A x \in Sessions \ {s} : Tag(x) # Tag(s) \/ sess[x].pc = "none"

\* The numbers of a tag add up once its session is done: every chunk that was split was seen
\* before, is still to be pushed, was synced, or could not be synced.
TagAddsUp ==
    \A s \in Sessions :
        sess[s].pc = "done" /\ Uploads(s) /\ Tag(s) \in DOMAIN tags /\ ~uhist.shared
          /\ Alone(s) =>
            LET t == Tag(s)
            IN  tags[t].split = tags[t].seen + tags[t].synced
                                  + Cardinality({p \in pushItem : p.tag = t})
                                  + (IF t \in DOMAIN uhist.dropped THEN uhist.dropped[t] ELSE 0)

\* A chunk that a session added stays to be pushed once the session is done, until it is
\* reported, whatever other sessions fail, are cleaned up or are lost with the process -
\* unless a session of the same tag was open at the same time.
AddedKept ==
    ~uhist.shared =>
        \A s \in Sessions : sess[s].pc = "done" /\ Uploads(s) =>
            \A c \in sess[s].put \ sess[s].seen :
                \/ c \in DOMAIN uploadItem /\ uploadItem[c].tag = Tag(s)
                \/ <<Tag(s), c>> \in uhist.reported

\* Two sessions pinned one root at the same time, or one root was deleted twice at once.
PinsRaced == uhist.twice \/ uhist.overtaken

\* A pinned root has all its chunks, from Done until it is deleted.
PinComplete ==
    ~PinsRaced =>
        \A r \in DOMAIN pinCollection :
            LET s == pinCollection[r]
            IN  (s \notin uhist.halfDeleted /\ \A d \in Deleters : s \notin del[d].uuids)
                  => \A c \in sess[s].put : <<s, c>> \in pinChunk

\* A session whose Done failed after it had counted the upload or the collection as closed:
\* Cleanup then leaves that part alone.
HalfClosed(s) == sess[s].pc \in {"failed", "cleaned"} /\ (sess[s].uclosed \/ sess[s].pclosed)

\* No chunk of a collection is kept without a root, a mark, or a deletion under way: nothing
\* is pinned that nobody can unpin.
NothingOrphaned ==
    ~PinsRaced =>
        \A x \in pinChunk :
            \/ x[1] \in dirtyCollection \cup Range(pinCollection)
            \/ \E d \in Deleters : x[1] \in del[d].uuids

\* After Cleanup, or after the next start, a session that is not done has left nothing
\* behind: no push item, no mark, no pinned chunk - unless it was half closed or sessions
\* shared a tag.
FailedLeavesNothing ==
    ~uhist.shared =>
        \A s \in Sessions :
            sess[s].pc = "cleaned" /\ up /\ ~HalfClosed(s) =>
                /\ Uploads(s) /\ Alone(s) =>
                                 /\ \A c \in sess[s].put \ sess[s].seen :
                                        c \notin DOMAIN uploadItem \/ uploadItem[c].tag # Tag(s)
                                 /\ Tag(s) \notin DOMAIN dirtyTag
                /\ s \notin dirtyCollection /\ \A c \in Chunks : <<s, c>> \notin pinChunk

\* Whatever may be pushed is given to the pusher again and again, until nothing is left that
\* was not given: no end of a session goes unnoticed - unless sessions shared a tag, or a
\* root was deleted twice at once, after which a chunk that is gone stops every iteration.
PushFed ==
    []<>(\/ uhist.twice \/ uhist.shared
         \/ up /\ \A p \in pushItem : p.tag \in DOMAIN dirtyTag \/ p \in feed.given)

\* What uploads and pins keep in several places - items, stamps, tags, references - agrees
\* (Put, Close, Report, Cleanup, DeletePin), but for tags used by two sessions and roots
\* deleted twice at once.
UploadsConsistent == UploadRefsExact /\ PushAgrees /\ TagAddsUp

\* A session that is done keeps what it added, one that failed leaves nothing (Done, Cleanup),
\* unless sessions shared a tag or Done failed half-way.
SessionsKept == AddedKept /\ FailedLeavesNothing

\* What is pinned has its chunks and can be unpinned (Close, DeletePin), unless two calls for
\* one root raced.
PinsKept == PinComplete /\ NothingOrphaned
=============================================================================
