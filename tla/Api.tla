-------------------------------- MODULE Api ---------------------------------
(***************************************************************************)
(* The HTTP API (pkg/api): the handlers that write, and those that read.   *)
(***************************************************************************)
EXTENDS Naturals, Sequences, SequencesExt, FiniteSets, Functions

(***************************************************************************)
(* The write side of the HTTP API: what every upload handler does between  *)
(* the request and the answer (pkg/api: bytes, file, dir, feed, soc, chunk,*)
(* chunk stream, stewardship, tags, pins).                                 *)
(*                                                                         *)
(* Each handler asks for a tag, makes a putter that stamps what it puts,   *)
(* splits the body into chunks, ends the session with the reference, and   *)
(* saves the stamp issuer; an error status written through                 *)
(* cleanupOnErrWriter takes the session back.  Requests run concurrently,  *)
(* share tags, the batch and the chunks they contain; a client may go away,*)
(* every call may fail, and the node may be killed and started again.      *)
(*                                                                         *)
(* A chunk is a name, a file is the sequence of its chunks.  The storer's  *)
(* sessions are the ones of Uploads, reduced to what the answers depend    *)
(* on.                                                                     *)
(***************************************************************************)

\* The requests made of a node: [plans, dev, usable, capacity, faults, kills].  A plan is
\* [kind, deferred, pin, tag, good, files, manifest, ref].
CONSTANT ApiScenarios

VARIABLES
    apiSc,      \* the scenario
    requests,   \* the state of each handler
    tagStore,   \* the upload store's tags: [next, addr, dirty], addr : tag -> reference,
                \* dirty : tag -> what it had when its last session began
    items,      \* upload items: chunk -> the tag that it was first uploaded under
    issuer,     \* the stamp issuer: [count, saved, of, uncounted], of : chunk -> index of its
                \* stamp, uncounted : chunks whose stamp a kill made the count forget
    network,    \* chunks that a direct upload has pushed out
    pins,       \* pinned roots -> the chunks of their collection
    spent       \* faults and kills so far: [faults, kills]

apiVars == <<apiSc, requests, tagStore, items, issuer, network, pins, spent>>

NoRef == "none"
NewRequest ==
    [pc |-> "tag", tag |-> 0, sess |-> "none", end |-> "none", left |-> <<>>, put |-> {},
     pushing |-> {}, failed |-> FALSE, alive |-> TRUE, running |-> {}, late |-> {},
     err |-> FALSE, acked |-> {}, status |-> 0]

ApiInit ==
    /\ apiSc \in ApiScenarios
    /\ requests = [r \in DOMAIN apiSc.plans |-> NewRequest]
    /\ tagStore = [next |-> 2, addr |-> [t \in {1} |-> NoRef], dirty |-> <<>>]
    /\ items = <<>>
    /\ issuer = [count |-> 0, saved |-> 0, of |-> <<>>, uncounted |-> {}]
    /\ network = {}
    /\ pins = <<>>
    /\ spent = [faults |-> 0, kills |-> 0]

-----------------------------------------------------------------------------
ApiRequests == DOMAIN apiSc.plans
PlanOf(r) == apiSc.plans[r]
KindOf(r) == PlanOf(r).kind
Chunked == {"bytes", "file", "dir", "feed"}
Single == {"soc", "chunk"}
Sessions == Chunked \cup Single \cup {"stream"}

\* the chunks of a request, in the order in which its handler puts them
ContentOf(r) ==
    LET files == FlattenSeq(PlanOf(r).files)
    IN  CASE KindOf(r) \in {"file", "dir", "feed"} -> files \o PlanOf(r).manifest
          [] OTHER -> files
ChunksOf(r) == Range(ContentOf(r))

\* the reference that the session is closed with: none for chunks and streams of chunks
Reference(r) == IF KindOf(r) \in {"chunk", "stream"} THEN NoRef ELSE PlanOf(r).ref

MayFault == spent.faults < apiSc.faults
Faulting == MayFault /\ spent' = [spent EXCEPT !.faults = @ + 1]
Fine == UNCHANGED spent

Put1(f, k, v) == [x \in DOMAIN f \cup {k} |-> IF x = k THEN v ELSE f[x]]
Set(r, fields) == requests' = [requests EXCEPT ![r] = fields @@ @]
HasTag(t) == t \in DOMAIN tagStore.addr

\* An error status: written through cleanupOnErrWriter it takes an open session back first.
Refuse(r, code) ==
    Set(r, [status |-> code,
            pc |-> IF requests[r].end \in {"open", "half"} THEN "cleaning" ELSE "answered"])
\* ... and written to the bare ResponseWriter it does not.
Answer(r, code) == Set(r, [status |-> code, pc |-> "answered"])

-----------------------------------------------------------------------------
\* getOrCreateSessionID, NewSession

WantsTag(r) ==
    CASE KindOf(r) \in Chunked -> PlanOf(r).deferred \/ PlanOf(r).pin
      [] KindOf(r) = "soc" -> PlanOf(r).pin
      [] OTHER -> PlanOf(r).tag > 0
TagAsked(r) == IF KindOf(r) \in {"feed", "soc"} THEN 0 ELSE PlanOf(r).tag

Deferred(r) ==
    CASE KindOf(r) \in Chunked -> PlanOf(r).deferred
      [] KindOf(r) = "soc" -> PlanOf(r).pin
      [] OTHER -> requests[r].tag # 0

NewTag == [tagStore EXCEPT !.next = @ + 1, !.addr = Put1(@, tagStore.next, NoRef)]

GetTag(r) ==
    /\ requests[r].pc = "tag" /\ KindOf(r) \in Sessions
    /\ \/ ~WantsTag(r) /\ Set(r, [pc |-> "putter"]) /\ Fine /\ UNCHANGED tagStore
       \/ /\ WantsTag(r) /\ TagAsked(r) = 0 /\ Fine
          /\ tagStore' = NewTag
          /\ Set(r, [pc |-> "putter", tag |-> tagStore.next])
       \/ /\ WantsTag(r) /\ TagAsked(r) # 0 /\ HasTag(TagAsked(r)) /\ Fine
          /\ Set(r, [pc |-> "putter", tag |-> TagAsked(r)])
          /\ UNCHANGED tagStore
       \/ /\ WantsTag(r) /\ TagAsked(r) # 0 /\ ~HasTag(TagAsked(r)) /\ Fine
          /\ Answer(r, 404) /\ UNCHANGED tagStore
       \/ WantsTag(r) /\ Faulting /\ Answer(r, 500) /\ UNCHANGED tagStore
    /\ UNCHANGED <<apiSc, items, issuer, network, pins>>

-----------------------------------------------------------------------------
\* newStamperPutter

\* The session of the storer that chunks are put into.  One under a tag marks the tag dirty
\* and remembers what the tag already had.
NoBodyYet(r) == IF KindOf(r) = "stream" THEN "upgrade" ELSE "body"
Before(t) == {c \in DOMAIN items : items[c] = t}

OpenUpload(r, t, pc) ==
    /\ tagStore' = [tagStore EXCEPT !.dirty = Put1(@, t, Before(t))]
    /\ Set(r, [sess |-> "upload", end |-> "open", pc |-> pc])

NewStamperPutter(r) ==
    LET t == requests[r].tag
        direct == ~Deferred(r) /\ ~PlanOf(r).pin
    IN  /\ requests[r].pc = "putter" /\ KindOf(r) \in Sessions
        /\ \/ ~Deferred(r) /\ apiSc.dev /\ Answer(r, 400) /\ Fine /\ UNCHANGED tagStore
           \/ /\ Deferred(r) \/ ~apiSc.dev
              /\ ~apiSc.usable /\ Answer(r, 422) /\ Fine /\ UNCHANGED tagStore
           \/ /\ Deferred(r) \/ ~apiSc.dev
              /\ apiSc.usable
              /\ \/ direct /\ Fine /\ Set(r, [sess |-> "direct", end |-> "open",
                                              pc |-> NoBodyYet(r)])
                    /\ UNCHANGED tagStore
                 \/ ~direct /\ HasTag(t) /\ Fine /\ OpenUpload(r, t, NoBodyYet(r))
                 \/ ~direct /\ ~HasTag(t) /\ Fine /\ Answer(r, 400) /\ UNCHANGED tagStore
                 \/ Faulting /\ Answer(r, 400) /\ UNCHANGED tagStore
        /\ UNCHANGED <<apiSc, items, issuer, network, pins>>

\* chunkUploadStreamHandler: the connection becomes a websocket; a failure is answered
\* without the session being taken back
Upgrade(r) ==
    /\ requests[r].pc = "upgrade"
    /\ \/ Fine /\ Set(r, [pc |-> "puts", left |-> ContentOf(r)])
       \/ Faulting /\ Answer(r, 400)
    /\ UNCHANGED <<apiSc, tagStore, items, issuer, network, pins>>

\* the body: absent, of the wrong type, too short, too long, not a chunk, an empty directory
ReadBody(r) ==
    /\ requests[r].pc = "body"
    /\ IF PlanOf(r).good /\ requests[r].alive
       THEN Set(r, [pc |-> "puts", left |-> ContentOf(r)])
       ELSE Refuse(r, 400)
    /\ Fine /\ UNCHANGED <<apiSc, tagStore, items, issuer, network, pins>>

-----------------------------------------------------------------------------
\* putterSessionWrapper.Put: a stamp, which is the one the chunk already has or the next of
\* the batch, and a put into the session

Stamped(c) == c \in DOMAIN issuer.of
NextIndex == issuer.count + 1
Stamp(c) ==
    issuer' = IF Stamped(c) THEN issuer
              ELSE [issuer EXCEPT !.count = NextIndex, !.of = Put1(@, c, NextIndex)]
BucketFull(c) == ~Stamped(c) /\ issuer.count = apiSc.capacity

\* handleUploadStream returns: the context of its puts is cancelled before the session is
\* closed
StreamOver(r) == Set(r, [pc |-> "done", left |-> <<>>, alive |-> FALSE])
PutRefused(r, code) == IF KindOf(r) = "stream" THEN StreamOver(r) ELSE Refuse(r, code)

PutNext(r) ==
    LET c == Head(requests[r].left)
    IN  /\ requests[r].pc = "puts" /\ requests[r].left # <<>>
        /\ \/ /\ BucketFull(c) /\ Fine /\ UNCHANGED <<issuer, items>>
              /\ PutRefused(r, IF KindOf(r) = "soc" THEN 400 ELSE 402)
           \/ /\ ~BucketFull(c) /\ Stamp(c) /\ Fine
              /\ items' = IF requests[r].sess = "upload" /\ c \notin DOMAIN items
                          THEN Put1(items, c, requests[r].tag) ELSE items
              /\ Set(r, [left |-> Tail(requests[r].left), put |-> requests[r].put \cup {c},
                         pushing |-> requests[r].pushing
                                       \cup (IF requests[r].sess = "direct" THEN {c} ELSE {}),
                         acked |-> requests[r].acked
                                     \cup (IF KindOf(r) = "stream" THEN {c} ELSE {})])
           \/ ~BucketFull(c) /\ Stamp(c) /\ Faulting /\ PutRefused(r, 500) /\ UNCHANGED items
           \/ /\ ~BucketFull(c) /\ ~requests[r].alive /\ Stamp(c) /\ Fine
              /\ Refuse(r, 500) /\ UNCHANGED items
    /\ UNCHANGED <<apiSc, tagStore, network, pins>>

\* the stream ends when its client goes, stays silent too long, sends no chunk, or the node
\* shuts down
StreamEnds(r) ==
    /\ KindOf(r) = "stream" /\ requests[r].pc = "puts"
    /\ StreamOver(r)
    /\ Fine /\ UNCHANGED <<apiSc, tagStore, items, issuer, network, pins>>

\* DirectUpload: each put is pushed by a goroutine of the session, which gives up when the
\* context of the put is cancelled or another push of the session failed
Push(r, c) ==
    /\ c \in requests[r].pushing
    /\ \/ /\ Fine /\ network' = network \cup {c}
          /\ Set(r, [pushing |-> requests[r].pushing \ {c}])
       \/ /\ Faulting \/ ((~requests[r].alive \/ requests[r].failed) /\ Fine)
          /\ Set(r, [pushing |-> requests[r].pushing \ {c}, failed |-> TRUE])
          /\ UNCHANGED network
    /\ UNCHANGED <<apiSc, tagStore, items, issuer, pins>>

-----------------------------------------------------------------------------
\* putterSessionWrapper.Done: the session is closed, then the issuer is saved

Ready(r) ==
    \/ requests[r].pc = "done"
    \/ requests[r].pc = "puts" /\ requests[r].left = <<>> /\ KindOf(r) # "stream"

Pinning(r) == PlanOf(r).pin /\ KindOf(r) \in Chunked \cup {"soc"}
Pinned(root) == root \in DOMAIN pins
MayClose(r) ==
    CASE requests[r].sess = "upload" ->
            HasTag(requests[r].tag) /\ (Pinning(r) => ~Pinned(Reference(r)))
      [] requests[r].sess = "direct" -> ~requests[r].failed
      [] OTHER -> ~Pinned(PlanOf(r).ref)

Undirtied(t) == Restrict(tagStore.dirty, DOMAIN tagStore.dirty \ {t})
CloseSession(r) ==
    LET t == requests[r].tag
    IN  /\ tagStore' =
             IF requests[r].sess # "upload" THEN tagStore
             ELSE [tagStore EXCEPT !.dirty = Undirtied(t),
                     !.addr[t] = IF Reference(r) = NoRef THEN @ ELSE Reference(r)]
        /\ pins' = IF Pinning(r) \/ requests[r].sess = "pin"
                   THEN Put1(pins, Reference(r), requests[r].put) ELSE pins

\* A session that does not close: the upload putter may count itself closed although what
\* it wrote was not committed, since the pin is refused or the commit fails.  A stream and a
\* pin leave the session to the next start of the node.
NotClosed(r, end) ==
    Set(r, [status |-> 500, end |-> end,
            pc |-> IF KindOf(r) \in {"stream", "pin", "patchTag"} THEN "answered"
                   ELSE "cleaning"])
EndsRefused(r) ==
    IF requests[r].sess = "upload" /\ HasTag(requests[r].tag) THEN "half" ELSE "open"

\* patchTag and pin use the session of the storer itself: no issuer is saved
Unwrapped(r) == KindOf(r) \in {"pin", "patchTag"}

SessionDone(r) ==
    /\ Ready(r)
    /\ requests[r].pushing = {}
    /\ \/ /\ MayClose(r) /\ CloseSession(r) /\ Fine
          /\ IF Unwrapped(r)
             THEN Set(r, [end |-> "done", pc |-> "answered",
                          status |-> IF KindOf(r) = "pin" THEN 201 ELSE 200])
             ELSE Set(r, [end |-> "done", pc |-> "save"])
       \/ ~MayClose(r) /\ NotClosed(r, EndsRefused(r)) /\ Fine /\ UNCHANGED <<tagStore, pins>>
       \/ /\ requests[r].sess # "direct" /\ Faulting /\ UNCHANGED <<tagStore, pins>>
          /\ \E end \in {"open", EndsRefused(r)} : NotClosed(r, end)
    /\ UNCHANGED <<apiSc, items, issuer, network>>

Created(r) == IF KindOf(r) = "reupload" THEN 200 ELSE 201

\* a bug: the answer is given before the issuer is saved
SaveIssuerLater(r) ==
    /\ requests[r].pc = "save"
    /\ Answer(r, Created(r)) /\ Fine
    /\ UNCHANGED <<apiSc, tagStore, items, issuer, network, pins>>

SaveIssuer(r) ==
    /\ requests[r].pc = "save"
    /\ \/ issuer' = [issuer EXCEPT !.saved = issuer.count] /\ Answer(r, Created(r)) /\ Fine
       \/ Faulting /\ Refuse(r, 500) /\ UNCHANGED issuer
    /\ UNCHANGED <<apiSc, tagStore, items, network, pins>>

\* cleanupOnErrWriter.WriteHeader, Reupload: the session takes back what it can.  The upload
\* store forgets what came under the tag since its last session began, unless a session of
\* the same tag has ended since; pushes are waited for, not undone.
Fresh(t) == {c \in Before(t) : c \notin tagStore.dirty[t]}
Cleanup(r) ==
    LET t == requests[r].tag
        takes == requests[r].sess = "upload" /\ requests[r].end = "open"
                   /\ t \in DOMAIN tagStore.dirty
    IN  /\ requests[r].pc = "cleaning" /\ requests[r].pushing = {}
        /\ items' = IF takes THEN Restrict(items, DOMAIN items \ Fresh(t)) ELSE items
        /\ tagStore' = IF takes THEN [tagStore EXCEPT !.dirty = Undirtied(t)] ELSE tagStore
        /\ Set(r, [pc |-> "answered",
                   end |-> IF takes \/ requests[r].sess \in {"direct", "pin"} THEN "cleaned"
                           ELSE requests[r].end])
        /\ Fine /\ UNCHANGED <<apiSc, issuer, network, pins>>

-----------------------------------------------------------------------------
\* stewardshipPutHandler: the batch of the header or the one of the chunk's stamp, a direct
\* session without a tag, and the chunks of the reference as the traversal finds them
Reupload(r) ==
    /\ requests[r].pc = "tag" /\ KindOf(r) = "reupload"
    /\ \/ apiSc.usable /\ Fine /\ Set(r, [pc |-> "puts", sess |-> "direct", end |-> "open",
                                          left |-> ContentOf(r)])
       \/ ~apiSc.usable /\ Fine /\ Answer(r, 422)
       \/ Faulting /\ Answer(r, 404)
    /\ UNCHANGED <<apiSc, tagStore, items, issuer, network, pins>>

\* createTagHandler, deleteTagHandler
CreateTag(r) ==
    /\ requests[r].pc = "tag" /\ KindOf(r) = "createTag"
    /\ tagStore' = NewTag /\ Answer(r, 201)
    /\ Fine /\ UNCHANGED <<apiSc, items, issuer, network, pins>>

\* ... which the store deletes without looking whether it is there
DeleteTag(r) ==
    /\ requests[r].pc = "tag" /\ KindOf(r) = "deleteTag"
    /\ tagStore' = [tagStore EXCEPT !.addr = Restrict(@, DOMAIN @ \ {PlanOf(r).tag})]
    /\ Answer(r, 204)
    /\ Fine /\ UNCHANGED <<apiSc, items, issuer, network, pins>>

\* doneSplitHandler: closes an empty session with the reference, which names the tag
DoneSplit(r) ==
    LET t == PlanOf(r).tag
    IN  /\ requests[r].pc = "tag" /\ KindOf(r) = "patchTag"
        /\ \/ /\ HasTag(t) /\ Fine
              /\ tagStore' = [tagStore EXCEPT !.dirty = Put1(@, t, Before(t))]
              /\ Set(r, [sess |-> "upload", end |-> "open", tag |-> t, pc |-> "done"])
           \/ ~HasTag(t) /\ Fine /\ Answer(r, 404) /\ UNCHANGED tagStore
           \/ Faulting /\ Answer(r, 500) /\ UNCHANGED tagStore
        /\ UNCHANGED <<apiSc, items, issuer, network, pins>>

-----------------------------------------------------------------------------
\* pinRootHash: one goroutine for each chunk of the reference, which fetches it and puts it
\* into the collection.  It tells the wait group before it records its error.

PinRoot(r) ==
    /\ requests[r].pc = "tag" /\ KindOf(r) = "pin"
    /\ \/ Pinned(PlanOf(r).ref) /\ Fine /\ Answer(r, 200)
       \/ ~Pinned(PlanOf(r).ref) /\ Fine /\ Set(r, [pc |-> "walk", sess |-> "pin",
                                                    end |-> "open", left |-> ContentOf(r)])
       \/ Faulting /\ Answer(r, 500)
    /\ UNCHANGED <<apiSc, tagStore, items, issuer, network, pins>>

\* the traversal stops at an error that is already recorded
WalkPinned(r) ==
    LET q == requests[r]
    IN  /\ q.pc = "walk" /\ q.left # <<>>
        /\ IF q.err THEN Set(r, [left |-> <<>>])
           ELSE Set(r, [left |-> Tail(q.left), running |-> q.running \cup {Head(q.left)}])
        /\ Fine /\ UNCHANGED <<apiSc, tagStore, items, issuer, network, pins>>

FetchPinned(r, c) ==
    LET q == requests[r]
    IN  /\ c \in q.running
        /\ \/ Fine /\ Set(r, [running |-> q.running \ {c}, put |-> q.put \cup {c}])
           \/ Faulting /\ Set(r, [running |-> q.running \ {c}, late |-> q.late \cup {c}])
        /\ UNCHANGED <<apiSc, tagStore, items, issuer, network, pins>>

RecordError(r, c) ==
    /\ c \in requests[r].late
    /\ Set(r, [late |-> requests[r].late \ {c}, err |-> TRUE])
    /\ Fine /\ UNCHANGED <<apiSc, tagStore, items, issuer, network, pins>>

WaitFetched(r) ==
    LET q == requests[r]
    IN  /\ q.pc = "walk" /\ q.left = <<>> /\ q.running = {}
        /\ IF q.err THEN Set(r, [pc |-> "cleaning", status |-> 500]) ELSE Set(r, [pc |-> "done"])
        /\ Fine /\ UNCHANGED <<apiSc, tagStore, items, issuer, network, pins>>

\* unpinRootHash
UnpinRoot(r) ==
    /\ requests[r].pc = "tag" /\ KindOf(r) = "unpin"
    /\ IF Pinned(PlanOf(r).ref)
       THEN pins' = Restrict(pins, DOMAIN pins \ {PlanOf(r).ref}) /\ Answer(r, 200)
       ELSE Answer(r, 404) /\ UNCHANGED pins
    /\ Fine /\ UNCHANGED <<apiSc, tagStore, items, issuer, network>>

-----------------------------------------------------------------------------
\* The client goes away: the context of the request is cancelled.
ClientGone(r) ==
    /\ requests[r].pc \in {"body", "puts", "done"} /\ requests[r].alive
    /\ KindOf(r) # "stream"
    /\ Faulting /\ Set(r, [alive |-> FALSE])
    /\ UNCHANGED <<apiSc, tagStore, items, issuer, network, pins>>

\* The node is killed and started again: requests under way are never answered, the issuer is
\* the one saved last, and sessions that are still dirty are taken back.
UnderWay(r) == requests[r].pc \notin {"tag", "answered"}
KillUploads ==
    /\ spent.kills < apiSc.kills /\ \E r \in ApiRequests : UnderWay(r)
    /\ spent' = [spent EXCEPT !.kills = @ + 1]
    /\ requests' = [r \in ApiRequests |->
                       [requests[r] EXCEPT
                          !.pc = IF UnderWay(r) THEN "lost" ELSE @,
                          !.pushing = {}, !.running = {}, !.late = {},
                          !.end = IF @ \in {"open", "half"} THEN "cleaned" ELSE @]]
    /\ items' = Restrict(items, {c \in DOMAIN items : items[c] \in DOMAIN tagStore.dirty
                                                       => c \in tagStore.dirty[items[c]]})
    /\ tagStore' = [tagStore EXCEPT !.dirty = <<>>]
    /\ issuer' = [issuer EXCEPT !.count = issuer.saved,
                    !.uncounted = {c \in DOMAIN issuer.of : issuer.of[c] > issuer.saved} \cup @]
    /\ UNCHANGED <<apiSc, network, pins>>

ApiNext ==
    \/ \E r \in ApiRequests :
          \/ GetTag(r) \/ NewStamperPutter(r) \/ Upgrade(r) \/ ReadBody(r) \/ PutNext(r)
          \/ StreamEnds(r) \/ SessionDone(r) \/ SaveIssuer(r) \/ Cleanup(r) \/ Reupload(r)
          \/ CreateTag(r) \/ DeleteTag(r) \/ DoneSplit(r) \/ PinRoot(r) \/ WalkPinned(r)
          \/ WaitFetched(r) \/ UnpinRoot(r) \/ ClientGone(r)
          \/ \E c \in ChunksOf(r) : Push(r, c) \/ FetchPinned(r, c) \/ RecordError(r, c)
    \/ KillUploads

ApiSpec == ApiInit /\ [][ApiNext]_apiVars

-----------------------------------------------------------------------------
Succeeded(r) == requests[r].pc = "answered" /\ requests[r].status \in {200, 201}
Uploading(r) == requests[r].sess \in {"upload", "direct"} /\ ~Unwrapped(r)
Content(r) == IF KindOf(r) = "stream" THEN requests[r].put ELSE ChunksOf(r)

\* sessions that may take each other's chunks back: they share a tag or a chunk
Entangled(r, q) ==
    q # r /\ requests[q].sess = "upload"
      /\ (requests[q].tag = requests[r].tag \/ ChunksOf(q) \cap ChunksOf(r) # {})

\* An upload that is answered with success is kept whole: pushed out when it was direct, in
\* the upload store under its tag (which carries a reference that was uploaded) when it was
\* deferred, unless a session that shares the tag or chunks with it was taken back; and its
\* root is pinned with every chunk if that was asked (the handlers' Put, Done, Created).
CreatedKept ==
    \A r \in ApiRequests :
        Succeeded(r) /\ Uploading(r) =>
            /\ requests[r].sess = "direct" => Content(r) \subseteq network
            /\ requests[r].sess = "upload" =>
                 \/ Content(r) \subseteq DOMAIN items
                 \/ \E q \in ApiRequests : Entangled(r, q) /\ requests[q].end = "cleaned"
            /\ (requests[r].sess = "upload" /\ Reference(r) # NoRef /\ HasTag(requests[r].tag))
                  => tagStore.addr[requests[r].tag] # NoRef
            /\ Pinning(r) => \/ Pinned(Reference(r)) /\ pins[Reference(r)] = ChunksOf(r)
                             \/ \E q \in ApiRequests : KindOf(q) = "unpin" /\ Succeeded(q)

\* The stamps of an upload that succeeded are counted by the issuer that is on disk, so that a
\* restart does not give their indices to other chunks; except stamps that an earlier upload
\* made, which was not done when the node was killed (putterSessionWrapper.Done).
StampsSaved ==
    \A r \in ApiRequests :
        Succeeded(r) /\ Uploading(r) =>
            \A c \in Content(r) \ issuer.uncounted : issuer.of[c] <= issuer.saved

\* No handler that answers through cleanupOnErrWriter leaves an open session behind an error,
\* unless another session of its tag ended before; a pin that is refused leaves no pin.
RefusedEnds ==
    \A r \in ApiRequests :
        requests[r].pc = "answered" /\ requests[r].status >= 400 =>
            /\ (requests[r].end = "open" /\ KindOf(r) \notin {"stream", "pin", "patchTag"}) =>
                 \E q \in ApiRequests \ {r} : /\ requests[q].tag = requests[r].tag
                                            /\ requests[q].end \in {"done", "half", "cleaned"}
            /\ KindOf(r) = "pin" => requests[r].end # "done"

\* What does not hold.  A pinned root need not have all its chunks: the goroutine that failed
\* is counted as done before its error is seen (pinRootHash).
PinnedWhole ==
    \A r \in ApiRequests : KindOf(r) = "pin" /\ requests[r].status = 201
                           => requests[r].put = ChunksOf(r)

\* Chunks that a stream acknowledged need not be pushed: the context of the pushes is
\* cancelled before they are waited for (handleUploadStream).
AckedKept ==
    \A r \in ApiRequests : requests[r].pc = "answered" /\ requests[r].sess = "direct"
                           => requests[r].acked \subseteq network

\* Two chunks may have the same index of the batch after a kill: a stamp is stored when it is
\* made, the issuer's count when the upload is done (stamper.Stamp, putterSessionWrapper.Done).
IndexOnce == \A c, d \in DOMAIN issuer.of : c # d => issuer.of[c] # issuer.of[d]

-----------------------------------------------------------------------------
(***************************************************************************)
(* The read side of the HTTP API (pkg/api: bzz.go, bytes.go, chunk.go,     *)
(* feed.go, stewardship.go): from an address and a path to the file that   *)
(* is served, through the manifest that an upload made (fileUploadHandler, *)
(* storeDir, feedPostHandler), at most one feed, the index and error       *)
(* documents of a website, and the redirect to a directory.                *)
(*                                                                         *)
(* A path is a sequence of characters, a manifest a function from paths to *)
(* entries (Manifest shows that the trie is one), a feed the versions that *)
(* its owner publishes while it is read (Feeds shows that the lookup finds *)
(* the latest).                                                            *)
(***************************************************************************)

\* What is read: [kind, name, path, feed, versions, published, missing].  A version is
\* [how, files, index, error]; a file is [path, ref, regular].
CONSTANT DownloadScenarios

VARIABLES
    dlSc,       \* the scenario
    dl,         \* the request: [pc, path, via, version, ref, hops, from, status, served]
    published   \* how many versions of the feed there are

dlVars == <<dlSc, dl, published>>

SlashChar == "/"
Root == <<SlashChar>>
NoFile == "none"

-----------------------------------------------------------------------------
\* What the uploads store

\* tarReader.Next: directories and links are skipped
Regular(files) == SelectSeq(files, LAMBDA f : f.regular)

Entry(ref, index, error, feed) == [ref |-> ref, index |-> index, error |-> error, feed |-> feed]
FileEntry(ref) == Entry(ref, <<>>, <<>>, FALSE)
Added(m, path, entry) == [p \in DOMAIN m \cup {path} |-> IF p = path THEN entry ELSE m[p]]

\* fileUploadHandler: the root names the file as index document
FileManifest(v) ==
    LET f == v.files[1]
    IN  Added(Added(<<>>, Root, Entry(NoFile, f.path, <<>>, FALSE)), f.path, FileEntry(f.ref))

\* storeDir: every regular file, the later one under a path that comes twice, then the root
StoreDir(v) ==
    LET files == Regular(v.files)
        dir == FoldLeft(LAMBDA m, f : Added(m, f.path, FileEntry(f.ref)), <<>>, files)
    IN  IF v.index # <<>> \/ v.error # <<>>
        THEN Added(dir, Root, Entry(NoFile, v.index, v.error, FALSE)) ELSE dir

\* feedPostHandler
FeedManifest == Added(<<>>, Root, Entry(NoFile, <<>>, <<>>, TRUE))

ManifestOf(v) == IF v.how = "file" THEN FileManifest(v) ELSE StoreDir(v)

\* the manifest at the address of the request: the feed's, or the one of a version
Current == IF dlSc.feed /\ ~dl.via THEN FeedManifest ELSE ManifestOf(dlSc.versions[dl.version])

-----------------------------------------------------------------------------
DownloadInit ==
    /\ dlSc \in DownloadScenarios
    /\ published = dlSc.published
    /\ dl = [pc |-> "resolve", path |-> dlSc.path, via |-> FALSE, version |-> 1, ref |-> NoFile,
             hops |-> 0, from |-> dlSc.published, status |-> 0, served |-> NoFile]

Answered(code, ref) == dl' = [dl EXCEPT !.pc = "answered", !.status = code, !.served = ref]
Go(pc) == dl' = [dl EXCEPT !.pc = pc]
There(ref) == ref \notin dlSc.missing

\* the owner of the feed publishes the next version
Publish ==
    /\ dlSc.feed /\ published < Len(dlSc.versions)
    /\ published' = published + 1
    /\ UNCHANGED <<dlSc, dl>>

\* resolveNameOrAddress, and the trailing slashes of the path
Trimmed(p) == SubSeq(p, 1, Max({0} \cup {i \in DOMAIN p : p[i] # SlashChar}))
OneSlash(p) == IF p # <<>> /\ Last(p) = SlashChar THEN Trimmed(p) \o Root ELSE p

ResolveAddress ==
    /\ dl.pc = "resolve"
    /\ IF dlSc.name = "unknown" THEN Answered(400, NoFile)
       ELSE dl' = [dl EXCEPT !.path = OneSlash(@), !.from = published,
                             !.pc = IF dlSc.kind = "aisc" THEN "fetch"
                                    ELSE IF dlSc.kind = "feed" THEN "lookup" ELSE "join",
                             !.ref = dlSc.versions[1].files[1].ref]
    /\ UNCHANGED <<dlSc, published>>

-----------------------------------------------------------------------------
\* serveReference

\* manifestFeed: the root entry has an owner and a topic
IsFeed(m) == Root \in DOMAIN m /\ m[Root].feed

Fetch1 ==
    /\ dl.pc = "fetch"
    /\ IF ~There("manifest") THEN Answered(404, NoFile)
       ELSE Go(IF ~dl.via /\ IsFeed(Current) THEN "lookup" ELSE "path")
    /\ UNCHANGED <<dlSc, published>>

\* the feed's update at the time of the request, which is the address to go on with, once
FeedLookup ==
    /\ dl.pc = "lookup"
    /\ CASE published = 0 \/ ~There("update") -> Answered(404, NoFile)
         [] published > 0 /\ There("update") /\ dlSc.kind = "feed" ->
                Answered(200, dlSc.versions[published].files[1].ref)
         [] OTHER -> dl' = [dl EXCEPT !.pc = "fetch", !.via = TRUE, !.version = published]
    /\ UNCHANGED <<dlSc, published>>

\* manifestMetadataLoad
Metadata(m, key) == IF Root \in DOMAIN m THEN m[Root][key] ELSE <<>>
PathJoin(p, name) == IF Trimmed(p) = <<>> THEN name ELSE Trimmed(p) \o Root \o name
HasPath(m, p) == p \in DOMAIN m
HasDir(m, p) == ~IsPrefix(Root, p) /\ \E q \in DOMAIN m : IsPrefix(p \o Root, q)

\* a bug: the error document is shown before the index document is looked for
IndexLast(m, p) ==
    CASE HasPath(m, p) -> [how |-> "serve", path |-> p]
      [] Metadata(m, "error") # <<>> /\ p # Metadata(m, "error")
           /\ HasPath(m, Metadata(m, "error")) ->
             [how |-> "serve", path |-> Metadata(m, "error")]
      [] OTHER -> [how |-> "notFound", path |-> p]

\* what is served for a path that is not empty
Choice(m, p) ==
    LET index == Metadata(m, "index")
        error == Metadata(m, "error")
    IN  CASE HasPath(m, p) -> [how |-> "serve", path |-> p]
          [] ~HasPath(m, p) /\ HasDir(m, p) -> [how |-> "redirect", path |-> p \o Root]
          [] ~HasPath(m, p) /\ ~HasDir(m, p) /\ index # <<>> /\ ~IsSuffix(index, p)
               /\ HasPath(m, PathJoin(p, index)) ->
                 [how |-> "serve", path |-> PathJoin(p, index)]
          [] OTHER ->
               IF error # <<>> /\ p # error /\ HasPath(m, error)
               THEN [how |-> "serve", path |-> error]
               ELSE [how |-> "notFound", path |-> p]

\* ... and for the empty one
IndexChoice(m) ==
    LET index == Metadata(m, "index")
    IN  IF index # <<>> /\ HasPath(m, index) THEN [how |-> "serve", path |-> index]
        ELSE [how |-> "notFound", path |-> <<>>]

ServePath ==
    LET m == Current
        choice == IF dl.path = <<>> THEN IndexChoice(m) ELSE Choice(m, dl.path)
    IN  /\ dl.pc = "path"
        /\ CASE choice.how = "serve" -> dl' = [dl EXCEPT !.pc = "join", !.ref = m[choice.path].ref]
             [] choice.how = "redirect" ->
                  dl' = [dl EXCEPT !.pc = "redirected", !.path = choice.path]
             [] choice.how = "notFound" -> Answered(404, NoFile)
        /\ UNCHANGED <<dlSc, published>>

\* the client follows the redirect: a new request for the same address
Follow ==
    /\ dl.pc = "redirected"
    /\ dl' = [dl EXCEPT !.pc = "resolve", !.hops = @ + 1, !.via = FALSE, !.version = 1]
    /\ UNCHANGED <<dlSc, published>>

\* downloadHandler, bytesHeadHandler, chunkGetHandler: the root chunk is got, and the rest
Join1 ==
    /\ dl.pc = "join"
    /\ IF There(dl.ref) THEN Answered(200, dl.ref) ELSE Answered(404, NoFile)
    /\ UNCHANGED <<dlSc, published>>

DownloadNext ==
    Publish \/ ResolveAddress \/ Fetch1 \/ FeedLookup \/ ServePath \/ Follow \/ Join1

DownloadSpec == DownloadInit /\ [][DownloadNext]_dlVars

-----------------------------------------------------------------------------
\* A website by its documents: a file under the path, else the index document of the
\* directory, else the error document; of the files under one path the last.
FilesAt(v, p) == {i \in DOMAIN v.files : v.files[i].regular /\ v.files[i].path = p}
FileAt(v, p) == IF FilesAt(v, p) = {} THEN NoFile ELSE v.files[Max(FilesAt(v, p))].ref
IndexName(v) == IF v.how = "file" THEN v.files[1].path ELSE v.index
Documents(v, p) ==
    (IF p = <<>> THEN <<>> ELSE <<p>>)
      \o (IF IndexName(v) = <<>> THEN <<>> ELSE <<PathJoin(p, IndexName(v))>>)
      \o (IF p = <<>> \/ v.error = <<>> THEN <<>> ELSE <<v.error>>)
Expected(v, p) ==
    LET found == SelectSeq(Documents(v, p), LAMBDA q : FileAt(v, q) # NoFile)
    IN  IF found = <<>> THEN NoFile ELSE FileAt(v, Head(found))

\* the versions that were the latest while the request ran
Window == IF dlSc.feed THEN {n \in dl.from .. published : n > 0} ELSE {1}

\* the path that was asked for; when the feed moved on, the one of the last redirect
Asked == IF published = dlSc.published THEN dlSc.path ELSE dl.path

\* What the client is served in the end is what the website has under the path it asked for,
\* in a version that was the latest while it asked, or nothing if that cannot be read; a
\* file of a version that is older, of another path, or a document of less precedence never
\* (serveReference, storeDir, fileUploadHandler).
ServedRight ==
    dl.pc = "answered" /\ dlSc.kind = "aisc" /\ dlSc.name # "unknown" =>
        \/ dl.served # NoFile /\ \E n \in Window : dl.served = Expected(dlSc.versions[n], Asked)
        \/ /\ dl.served = NoFile
           /\ \/ dlSc.missing # {} \/ (dlSc.feed /\ dl.from = 0)
              \/ \E n \in Window : Expected(dlSc.versions[n], Asked) = NoFile

\* A client that follows redirects is redirected once at most (serveReference).
RedirectedOnce == dl.hops <= 1
=============================================================================
