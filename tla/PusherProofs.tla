---------------------------- MODULE PusherProofs ----------------------------
(***************************************************************************)
(* Proofs about the pusher: what is marked in flight, what holds the       *)
(* semaphore and what is reported agree, in every scenario.                *)
(***************************************************************************)
EXTENDS Pusher, FiniteSetTheorems, TLAPS

Reports == {"none", "couldNotSync", "stored", "synced"}
Returned == {"none", "ok", "error"}

PusherTypeOK ==
    /\ ops \in [Ops -> OpStates]
    /\ inflight \subseteq PusherChunks
    /\ outcome \in [report : [PusherChunks -> Reports], direct : [PusherChunks -> Returned]]
    /\ ushist \in [joined : SUBSET Ops, faults : Nat, restarts : Nat]

\* the operation the loop has taken waits for the semaphore
TakingWaits == taking # NoOp => taking \in Ops /\ ops[taking] = "sem"

\* a chunk is marked exactly while one of its ways has been taken or is pushed
MarkExact ==
    \A c \in PusherChunks :
        /\ c \in inflight <=> \E w \in Ways : ops[<<c, w>>] \in {"sem", "push"}
        /\ \A v, w \in Ways :
              ops[<<c, v>>] \in {"sem", "push"} /\ ops[<<c, w>>] \in {"sem", "push"} => v = w

\* a deferred operation that is about to end has reported
QuitReported ==
    \A c \in PusherChunks : ops[<<c, "deferred">>] = "quit" => outcome.report[c] # "none"

PusherIInv ==
    /\ PusherTypeOK /\ TakingWaits /\ MarkExact /\ QuitReported /\ ReportedIsThere
    /\ Cardinality(Busy) <= ConcurrentPushes

-----------------------------------------------------------------------------
\* There are finitely many operations, so finitely many goroutines hold the semaphore.
LEMMA OpsFinite == IsFiniteSet(Ops)
  <1>1. IsFiniteSet(Ways)
    <2>1. IsFiniteSet({"deferred"}) BY FS_Singleton
    <2>2. IsFiniteSet({"deferred"} \cup {"direct"}) BY <2>1, FS_AddElement
    <2> QED BY <2>2 DEF Ways
  <1> QED BY <1>1, FS_Product, PusherAssumption DEF Ops

\* What InflightExact says of the ways of a chunk follows from MarkExact.
LEMMA MarkExactCounts ==
  ASSUME MarkExact, NEW c \in PusherChunks
  PROVE  Cardinality({w \in Ways : ops[<<c, w>>] \in {"sem", "push"}})
           = (IF c \in inflight THEN 1 ELSE 0)
  <1> DEFINE S == {w \in Ways : ops[<<c, w>>] \in {"sem", "push"}}
  <1>1. CASE c \in inflight
    <2>1. PICK w \in Ways : ops[<<c, w>>] \in {"sem", "push"} BY <1>1 DEF MarkExact
    <2>2. S = {w} BY <2>1 DEF MarkExact
    <2> QED BY <1>1, <2>2, FS_Singleton
  <1>2. CASE c \notin inflight
    <2>1. S = {} BY <1>2 DEF MarkExact
    <2> QED BY <1>2, <2>1, FS_EmptySet
  <1> QED BY <1>1, <1>2

\* A step that moves one operation: what ops is afterwards.
LEMMA MoveTyped ==
  ASSUME PusherTypeOK, NEW o \in Ops, NEW st \in OpStates, Move(o, st)
  PROVE  /\ ops' \in [Ops -> OpStates] /\ ops'[o] = st
         /\ \A x \in Ops : x # o => ops'[x] = ops[x]
  BY DEF PusherTypeOK, Move

\* The semaphore is not overdrawn by a move that is not the start of a goroutine.
LEMMA MoveKeepsBusy ==
  ASSUME PusherTypeOK, Cardinality(Busy) <= ConcurrentPushes,
         NEW o \in Ops, NEW st \in OpStates, Move(o, st),
         st \in {"push", "again", "quit"} => o \in Busy
  PROVE  Cardinality(Busy') <= ConcurrentPushes
  <1>1. Busy' \subseteq Busy BY MoveTyped DEF Busy
  <1>2. IsFiniteSet(Busy) BY OpsFinite, FS_Subset DEF Busy
  <1>3. Cardinality(Busy') <= Cardinality(Busy) /\ Cardinality(Busy) \in Nat
        /\ Cardinality(Busy') \in Nat
    BY <1>1, <1>2, FS_Subset, FS_CardinalityType
  <1> QED BY <1>3, PusherAssumption

\* An operation is a chunk and the way it is pushed.
LEMMA OpPair ==
  /\ \A o \in Ops : o[1] \in PusherChunks /\ o[2] \in Ways /\ o = <<o[1], o[2]>>
  /\ \A c \in PusherChunks, w \in Ways : <<c, w>> \in Ops /\ <<c, w>>[1] = c /\ <<c, w>>[2] = w
  BY DEF Ops

\* Every chunk may be pushed deferred.
LEMMA DeferredOp == \A c \in PusherChunks : <<c, "deferred">> \in Ops
  BY DEF Ops, Ways

\* A step after which no other operation is about to end, and which takes no report back.
LEMMA KeepsReported ==
  ASSUME QuitReported, \A x \in Ops : ops'[x] = "quit" => ops[x] = "quit",
         \A c \in PusherChunks : outcome.report[c] # "none" => outcome'.report[c] # "none"
  PROVE  QuitReported'
  BY DeferredOp DEF QuitReported

\* A step that moves an operation between states that are neither "sem" nor "push", and leaves
\* the marks alone, keeps what is said of marks.
LEMMA QuietMove ==
  ASSUME PusherIInv, NEW o \in Ops, NEW st \in OpStates, Move(o, st),
         ops[o] \notin {"sem", "push"}, st \notin {"sem", "push"},
         st \in {"again", "quit"} => ops[o] \in {"again", "quit"},
         UNCHANGED <<taking, inflight>>
  PROVE  /\ ops' \in [Ops -> OpStates]
         /\ TakingWaits' /\ MarkExact' /\ Cardinality(Busy') <= ConcurrentPushes
  <1> USE DEF PusherIInv
  <1>1. /\ ops' \in [Ops -> OpStates] /\ ops'[o] = st
        /\ \A x \in Ops : x # o => ops'[x] = ops[x]
    BY MoveTyped
  <1>2. \A x \in Ops : ops'[x] \in {"sem", "push"} <=> ops[x] \in {"sem", "push"}
    BY <1>1
  <1>3. TakingWaits' BY <1>1 DEF TakingWaits
  <1>4. MarkExact' BY <1>2, OpPair DEF MarkExact
  <1>5. Cardinality(Busy') <= ConcurrentPushes
    <2>1. st \in {"push", "again", "quit"} => o \in Busy BY DEF Busy
    <2> QED BY <2>1, MoveKeepsBusy
  <1> QED BY <1>1, <1>3, <1>4, <1>5

\* A chunk comes from the store, or a direct upload, and nothing is marked yet.
LEMMA FeedKeeps ==
  ASSUME PusherIInv, NEW o \in Ops, PusherFeed(o)
  PROVE  PusherIInv'
  <1>1. /\ ops' \in [Ops -> OpStates]
        /\ TakingWaits' /\ MarkExact' /\ Cardinality(Busy') <= ConcurrentPushes
    BY QuietMove DEF PusherFeed, OpStates
  <1>2. \A x \in Ops : x # o => ops'[x] = ops[x]
    BY MoveTyped DEF PusherFeed, OpStates, PusherIInv
  <1>3. ops'[o] = "feed"
    BY MoveTyped DEF PusherFeed, OpStates, PusherIInv
  <1>4. PusherTypeOK' BY <1>1 DEF PusherTypeOK, PusherIInv, PusherFeed
  <1>5. QuitReported'
    <2>1. \A x \in Ops : ops'[x] = "quit" => ops[x] = "quit" BY <1>2, <1>3
    <2>2. UNCHANGED outcome BY DEF PusherFeed
    <2> QED BY <2>1, <2>2, KeepsReported DEF PusherIInv
  <1>6. ReportedIsThere' BY <1>2, <1>3, OpPair DEF ReportedIsThere, PusherIInv, PusherFeed, Ways
  <1> QED BY <1>1, <1>4, <1>5, <1>6 DEF PusherIInv

\* A goroutine ends and gives its place in the semaphore back.
LEMMA ReleaseKeeps ==
  ASSUME PusherIInv, NEW o \in Ops, Release(o)
  PROVE  PusherIInv'
  <1> DEFINE st == IF ops[o] = "again" THEN "cc" ELSE "done"
  <1>0. st \in OpStates /\ st \in {"cc", "done"} /\ Move(o, st) BY DEF Release, OpStates
  <1>1. /\ ops' \in [Ops -> OpStates]
        /\ TakingWaits' /\ MarkExact' /\ Cardinality(Busy') <= ConcurrentPushes
    BY <1>0, QuietMove DEF Release
  <1>2. ops'[o] = st /\ \A x \in Ops : x # o => ops'[x] = ops[x]
    BY <1>0, MoveTyped DEF PusherIInv
  <1>4. PusherTypeOK' BY <1>1 DEF PusherTypeOK, PusherIInv, Release
  <1>5. QuitReported'
    <2>1. \A x \in Ops : ops'[x] = "quit" => ops[x] = "quit" BY <1>0, <1>2
    <2>2. UNCHANGED outcome BY DEF Release
    <2> QED BY <2>1, <2>2, KeepsReported DEF PusherIInv
  <1>6. ReportedIsThere'
    <2>1. ops'[o] = "done" => ops[o] = "quit" BY <1>2 DEF Release
    <2>2. UNCHANGED <<outcome, there, ushist>> BY DEF Release
    <2>3. \A c \in PusherChunks : ops'[<<c, "deferred">>] \in {"done", "dropped"} =>
             ops[<<c, "deferred">>] \in {"done", "dropped", "quit"}
      BY <1>2, <2>1, <1>0, OpPair DEF Ways
    <2> QED BY <2>2, <2>3 DEF ReportedIsThere, QuitReported, PusherIInv
  <1> QED BY <1>1, <1>4, <1>5, <1>6 DEF PusherIInv

\* chunksWorker gets a place in the semaphore and starts the goroutine.
LEMMA StartKeeps ==
  ASSUME PusherIInv, PusherStart
  PROVE  PusherIInv'
  <1>0. taking \in Ops /\ ops[taking] = "sem" BY DEF PusherIInv, TakingWaits, PusherStart
  <1>1. /\ ops' \in [Ops -> OpStates] /\ ops'[taking] = "push"
        /\ \A x \in Ops : x # taking => ops'[x] = ops[x]
    BY <1>0, MoveTyped DEF PusherStart, OpStates, PusherIInv
  <1>2. \A x \in Ops : ops'[x] \in {"sem", "push"} <=> ops[x] \in {"sem", "push"}
    BY <1>0, <1>1
  <1>3. MarkExact' BY <1>2, OpPair DEF MarkExact, PusherIInv, PusherStart
  <1>4. Cardinality(Busy') <= ConcurrentPushes
    <2>1. Busy' = Busy \cup {taking} BY <1>0, <1>1 DEF Busy
    <2>2. taking \notin Busy BY <1>0 DEF Busy
    <2>3. IsFiniteSet(Busy) BY OpsFinite, FS_Subset DEF Busy
    <2>4. Cardinality(Busy') = Cardinality(Busy) + 1 BY <2>1, <2>2, <2>3, FS_AddElement
    <2>5. Cardinality(Busy) \in Nat BY <2>3, FS_CardinalityType
    <2> QED BY <2>4, <2>5, PusherAssumption DEF PusherStart
  <1>5. PusherTypeOK' BY <1>1 DEF PusherTypeOK, PusherIInv, PusherStart
  <1>6. QuitReported' BY <1>1, OpPair DEF QuitReported, PusherIInv, PusherStart, Ways
  <1>7. ReportedIsThere' BY <1>1, OpPair DEF ReportedIsThere, PusherIInv, PusherStart, Ways
  <1>8. TakingWaits' BY DEF TakingWaits, PusherStart
  <1> QED BY <1>3, <1>4, <1>5, <1>6, <1>7, <1>8 DEF PusherIInv

\* The marks after an operation of a chunk that was not marked is taken, or after the one that
\* was pushed comes to its end.
LEMMA TakeKeeps ==
  ASSUME PusherIInv, NEW o \in Ops, TakeOp(o)
  PROVE  PusherIInv'
  <1>1. CASE Marked(o[1])
    <2> DEFINE st == IF o[2] = "direct" THEN "done" ELSE "dropped"
    <2>0. st \in OpStates /\ st \in {"done", "dropped"} /\ Move(o, st)
      BY <1>1 DEF TakeOp, OpStates
    <2>1. UNCHANGED <<taking, inflight, there>> BY <1>1 DEF TakeOp
    <2>2. /\ ops' \in [Ops -> OpStates]
          /\ TakingWaits' /\ MarkExact' /\ Cardinality(Busy') <= ConcurrentPushes
      BY <2>0, <2>1, QuietMove DEF TakeOp
    <2>3. ops'[o] = st /\ \A x \in Ops : x # o => ops'[x] = ops[x]
      BY <2>0, MoveTyped DEF PusherIInv
    <2>4. /\ outcome' = IF o[2] = "direct" THEN [outcome EXCEPT !.direct[o[1]] = "ok"] ELSE outcome
          /\ ushist' = [ushist EXCEPT !.joined = @ \cup {o}]
      BY <1>1 DEF TakeOp
    <2>5. PusherTypeOK'
      BY <2>1, <2>2, <2>4, OpPair DEF PusherTypeOK, PusherIInv, Returned
    <2>6. /\ outcome'.report = outcome.report /\ ushist'.joined = ushist.joined \cup {o}
          /\ \A c \in PusherChunks : outcome'.direct[c] = "ok" =>
                outcome.direct[c] = "ok" \/ o = <<c, "direct">>
      BY <2>4, OpPair DEF PusherTypeOK, PusherIInv
    <2>7. QuitReported'
      <3>1. \A x \in Ops : ops'[x] = "quit" => ops[x] = "quit" BY <2>0, <2>3
      <3> QED BY <3>1, <2>6, KeepsReported DEF PusherIInv
    <2>8. ReportedIsThere'
      <3>1. \A x \in Ops : ops'[x] = ops[x] \/ x \in ushist'.joined BY <2>3, <2>6
      <3> QED BY <3>1, <2>1, <2>6, OpPair DEF ReportedIsThere, PusherIInv, Ways
    <2> QED BY <2>2, <2>5, <2>7, <2>8 DEF PusherIInv
  <1>2. CASE ~Marked(o[1])
    <2>1. /\ Move(o, "sem") /\ taking' = o /\ inflight' = inflight \cup {o[1]}
          /\ UNCHANGED <<outcome, ushist, there>> /\ o[1] \notin inflight
      BY <1>2 DEF TakeOp, Marked
    <2>2. /\ ops' \in [Ops -> OpStates] /\ ops'[o] = "sem"
          /\ \A x \in Ops : x # o => ops'[x] = ops[x]
      BY <2>1, MoveTyped DEF PusherIInv, OpStates
    <2>3. PusherTypeOK' BY <2>1, <2>2, OpPair DEF PusherTypeOK, PusherIInv
    <2>4. TakingWaits' BY <2>1, <2>2 DEF TakingWaits
    <2>5. MarkExact' BY <2>1, <2>2, OpPair DEF MarkExact, PusherIInv
    <2>6. Cardinality(Busy') <= ConcurrentPushes
      BY <2>1, MoveKeepsBusy DEF PusherIInv, OpStates
    <2>7. QuitReported'
      <3>1. \A x \in Ops : ops'[x] = "quit" => ops[x] = "quit" BY <2>2
      <3> QED BY <3>1, <2>1, KeepsReported DEF PusherIInv
    <2>8. ReportedIsThere' BY <2>1, <2>2, OpPair DEF ReportedIsThere, PusherIInv, Ways
    <2> QED BY <2>3, <2>4, <2>5, <2>6, <2>7, <2>8 DEF PusherIInv
  <1> QED BY <1>1, <1>2

\* The end of a push, deferred or direct: the operation leaves "push" for a state in which the
\* goroutine still holds the semaphore, and the mark is gone.
LEMMA PushEnds ==
  ASSUME PusherIInv, NEW o \in Ops, NEW st \in {"again", "quit"}, ops[o] = "push",
         Move(o, st), inflight' = inflight \ {o[1]}, UNCHANGED taking
  PROVE  /\ ops' \in [Ops -> OpStates] /\ ops'[o] = st
         /\ \A x \in Ops : x # o => ops'[x] = ops[x]
         /\ TakingWaits' /\ MarkExact' /\ Cardinality(Busy') <= ConcurrentPushes
  <1>0. st \in OpStates BY DEF OpStates
  <1>1. /\ ops' \in [Ops -> OpStates] /\ ops'[o] = st
        /\ \A x \in Ops : x # o => ops'[x] = ops[x]
    BY <1>0, MoveTyped DEF PusherIInv
  <1>2. TakingWaits' BY <1>1 DEF TakingWaits, PusherIInv
  <1>3. MarkExact'
    <2> SUFFICES ASSUME NEW c \in PusherChunks
                 PROVE  /\ c \in inflight' <=> \E w \in Ways : ops'[<<c, w>>] \in {"sem", "push"}
                        /\ \A v, w \in Ways :
                             ops'[<<c, v>>] \in {"sem", "push"} /\ ops'[<<c, w>>] \in {"sem", "push"}
                               => v = w
      BY DEF MarkExact
    <2>1. CASE c = o[1]
      <3>1. \A w \in Ways : ops'[<<c, w>>] \notin {"sem", "push"}
        BY <1>1, <2>1, OpPair DEF MarkExact, PusherIInv
      <3> QED BY <3>1, <2>1
    <2>2. CASE c # o[1]
      <3>1. \A w \in Ways : ops'[<<c, w>>] = ops[<<c, w>>] BY <1>1, <2>2, OpPair
      <3> QED BY <3>1, <2>2 DEF MarkExact, PusherIInv
    <2> QED BY <2>1, <2>2
  <1>4. Cardinality(Busy') <= ConcurrentPushes
    BY <1>0, MoveKeepsBusy DEF PusherIInv, Busy
  <1> QED BY <1>1, <1>2, <1>3, <1>4

\* A deferred push: what it reports is so, and it reports before it is about to end.
LEMMA DeferredKeeps ==
  ASSUME PusherIInv, NEW o \in Ops, PushDeferred(o)
  PROVE  PusherIInv'
  <1> DEFINE c == o[1]
  <1>0. /\ ops[o] = "push" /\ o[2] = "deferred" /\ inflight' = inflight \ {c} /\ UNCHANGED taking
        /\ c \in PusherChunks /\ o = <<c, "deferred">>
    BY OpPair DEF PushDeferred
  <1>1. PICK st \in {"again", "quit"}, rep \in Reports :
          /\ Move(o, st)
          /\ outcome' = IF st = "quit" THEN [outcome EXCEPT !.report[c] = rep] ELSE outcome
          /\ rep # "none"
          /\ there \subseteq there'
          /\ st = "quit" /\ rep \in {"synced", "stored"} => c \in there'
          /\ ushist'.joined = ushist.joined
          /\ ushist' \in [joined : SUBSET Ops, faults : Nat, restarts : Nat]
    <2>1. CASE c \in ussc.expired
      <3>1. /\ Move(o, "quit") /\ outcome' = [outcome EXCEPT !.report[c] = "couldNotSync"]
            /\ UNCHANGED <<there, ushist>>
        BY <2>1 DEF PushDeferred
      <3> QED BY <3>1 DEF Reports, PusherIInv, PusherTypeOK
    <2>2. CASE c \notin ussc.expired
      <3>1. PICK x \in Results :
              LET good == x.ok /\ CheckReceipt(c, x.r = "shallow") IN
              /\ there' = IF x.ok THEN there \cup {c} ELSE there
              /\ Move(o, IF good THEN "quit" ELSE "again")
              /\ outcome' = IF good
                    THEN [outcome EXCEPT !.report[c] = IF x.r = "self" THEN "stored" ELSE "synced"]
                    ELSE outcome
              /\ ushist' = IF x.ok THEN ushist ELSE [ushist EXCEPT !.faults = @ + 1]
        BY <2>2 DEF PushDeferred
      <3>2. /\ ushist'.joined = ushist.joined
            /\ ushist' \in [joined : SUBSET Ops, faults : Nat, restarts : Nat]
        BY <3>1 DEF PusherIInv, PusherTypeOK
      <3>3. CASE x.ok /\ CheckReceipt(c, x.r = "shallow")
        <4>1. /\ Move(o, "quit") /\ c \in there' /\ there \subseteq there'
              /\ outcome' = [outcome EXCEPT !.report[c] = IF x.r = "self" THEN "stored" ELSE "synced"]
          BY <3>1, <3>3
        <4>2. (IF x.r = "self" THEN "stored" ELSE "synced") \in Reports \ {"none"} BY DEF Reports
        <4> QED BY <3>2, <4>1, <4>2
      <3>4. CASE ~(x.ok /\ CheckReceipt(c, x.r = "shallow"))
        <4>1. Move(o, "again") /\ outcome' = outcome /\ there \subseteq there' BY <3>1, <3>4
        <4>2. "stored" \in Reports /\ "stored" # "none" BY DEF Reports
        <4> QED BY <3>2, <4>1, <4>2
      <3> QED BY <3>3, <3>4
    <2> QED BY <2>1, <2>2
  <1>2. /\ ops' \in [Ops -> OpStates] /\ ops'[o] = st
        /\ \A x \in Ops : x # o => ops'[x] = ops[x]
        /\ TakingWaits' /\ MarkExact' /\ Cardinality(Busy') <= ConcurrentPushes
    BY <1>0, <1>1, PushEnds
  <1>3. /\ outcome' \in [report : [PusherChunks -> Reports], direct : [PusherChunks -> Returned]]
        /\ outcome'.direct = outcome.direct
        /\ \A d \in PusherChunks :
              outcome'.report[d] = IF st = "quit" /\ d = c THEN rep ELSE outcome.report[d]
    BY <1>0, <1>1 DEF PusherIInv, PusherTypeOK
  <1>4. PusherTypeOK' BY <1>0, <1>1, <1>2, <1>3 DEF PusherTypeOK, PusherIInv
  <1>5. QuitReported'
    <2> SUFFICES ASSUME NEW d \in PusherChunks, ops'[<<d, "deferred">>] = "quit"
                 PROVE  outcome'.report[d] # "none"
      BY DEF QuitReported
    <2>1. CASE d = c BY <1>0, <1>1, <1>2, <1>3, <2>1
    <2>2. CASE d # c
      <3>1. <<d, "deferred">> # o BY <1>0, <2>2
      <3>2. ops[<<d, "deferred">>] = "quit" BY <3>1, <1>2, DeferredOp
      <3> QED BY <3>2, <1>3, <2>2 DEF QuitReported, PusherIInv
    <2> QED BY <2>1, <2>2
  <1>6. ReportedIsThere'
    <2> SUFFICES ASSUME NEW d \in PusherChunks
                 PROVE  /\ outcome'.report[d] \in {"synced", "stored"} => d \in there'
                        /\ outcome'.direct[d] = "ok" => d \in there' \/ <<d, "direct">> \in ushist'.joined
                        /\ ops'[<<d, "deferred">>] \in {"done", "dropped"} =>
                              outcome'.report[d] # "none" \/ <<d, "deferred">> \in ushist'.joined
      BY DEF ReportedIsThere
    <2>1. outcome'.report[d] \in {"synced", "stored"} => d \in there'
      BY <1>1, <1>3 DEF ReportedIsThere, PusherIInv
    <2>2. outcome'.direct[d] = "ok" => d \in there' \/ <<d, "direct">> \in ushist'.joined
      BY <1>1, <1>3 DEF ReportedIsThere, PusherIInv
    <2>3. ASSUME ops'[<<d, "deferred">>] \in {"done", "dropped"}
          PROVE  outcome'.report[d] # "none" \/ <<d, "deferred">> \in ushist'.joined
      <3>1. <<d, "deferred">> # o BY <2>3, <1>2
      <3>2. ops[<<d, "deferred">>] \in {"done", "dropped"} BY <2>3, <3>1, <1>2, DeferredOp
      <3> QED BY <3>2, <1>1, <1>3 DEF ReportedIsThere, PusherIInv
    <2> QED BY <2>1, <2>2, <2>3
  <1> QED BY <1>2, <1>4, <1>5, <1>6 DEF PusherIInv

\* A direct push: it returns without an error only when the chunk is there.
LEMMA DirectKeeps ==
  ASSUME PusherIInv, NEW o \in Ops, PushDirect(o)
  PROVE  PusherIInv'
  <1> DEFINE c == o[1]
  <1>0. /\ ops[o] = "push" /\ o[2] = "direct" /\ inflight' = inflight \ {c} /\ UNCHANGED taking
        /\ c \in PusherChunks /\ o = <<c, "direct">>
    BY OpPair DEF PushDirect
  <1>1. PICK st \in {"again", "quit"}, ret \in Returned :
          /\ Move(o, st)
          /\ outcome' = IF st = "quit" THEN [outcome EXCEPT !.direct[c] = ret] ELSE outcome
          /\ there \subseteq there'
          /\ st = "quit" /\ ret = "ok" => c \in there'
          /\ ushist'.joined = ushist.joined
          /\ ushist' \in [joined : SUBSET Ops, faults : Nat, restarts : Nat]
    <2>1. CASE c \in ussc.expired
      <3>1. /\ Move(o, "quit") /\ outcome' = [outcome EXCEPT !.direct[c] = "error"]
            /\ UNCHANGED <<there, ushist>>
        BY <2>1 DEF PushDirect
      <3> QED BY <3>1 DEF Returned, PusherIInv, PusherTypeOK
    <2>2. CASE c \notin ussc.expired
      <3>1. PICK x \in Results :
              LET good == x.ok /\ CheckReceipt(c, x.r = "shallow")
                  retry == ~good /\ x.r \in {"shallow", "notfound"} IN
              /\ there' = IF x.ok THEN there \cup {c} ELSE there
              /\ Move(o, IF retry THEN "again" ELSE "quit")
              /\ outcome' = IF retry THEN outcome
                            ELSE [outcome EXCEPT !.direct[c] = IF good THEN "ok" ELSE "error"]
              /\ ushist' = IF x.ok THEN ushist ELSE [ushist EXCEPT !.faults = @ + 1]
        BY <2>2 DEF PushDirect
      <3>2. /\ ushist'.joined = ushist.joined
            /\ ushist' \in [joined : SUBSET Ops, faults : Nat, restarts : Nat]
        BY <3>1 DEF PusherIInv, PusherTypeOK
      <3>3. CASE x.ok /\ CheckReceipt(c, x.r = "shallow")
        <4>1. /\ Move(o, "quit") /\ c \in there' /\ there \subseteq there'
              /\ outcome' = [outcome EXCEPT !.direct[c] = "ok"]
          BY <3>1, <3>3
        <4> QED BY <3>2, <4>1 DEF Returned
      <3>4. CASE /\ ~(x.ok /\ CheckReceipt(c, x.r = "shallow"))
                 /\ x.r \in {"shallow", "notfound"}
        <4>1. Move(o, "again") /\ outcome' = outcome /\ there \subseteq there' BY <3>1, <3>4
        <4> QED BY <3>2, <4>1 DEF Returned
      <3>5. CASE /\ ~(x.ok /\ CheckReceipt(c, x.r = "shallow"))
                 /\ x.r \notin {"shallow", "notfound"}
        <4>1. /\ Move(o, "quit") /\ there \subseteq there'
              /\ outcome' = [outcome EXCEPT !.direct[c] = "error"]
          BY <3>1, <3>5
        <4> QED BY <3>2, <4>1 DEF Returned
      <3> QED BY <3>3, <3>4, <3>5
    <2> QED BY <2>1, <2>2
  <1>2. /\ ops' \in [Ops -> OpStates] /\ ops'[o] = st
        /\ \A x \in Ops : x # o => ops'[x] = ops[x]
        /\ TakingWaits' /\ MarkExact' /\ Cardinality(Busy') <= ConcurrentPushes
    BY <1>0, <1>1, PushEnds
  <1>3. /\ outcome' \in [report : [PusherChunks -> Reports], direct : [PusherChunks -> Returned]]
        /\ outcome'.report = outcome.report
        /\ \A d \in PusherChunks :
              outcome'.direct[d] = IF st = "quit" /\ d = c THEN ret ELSE outcome.direct[d]
    BY <1>0, <1>1 DEF PusherIInv, PusherTypeOK
  <1>4. PusherTypeOK' BY <1>0, <1>1, <1>2, <1>3 DEF PusherTypeOK, PusherIInv
  <1>5. \A d \in PusherChunks : ops'[<<d, "deferred">>] = ops[<<d, "deferred">>]
    <2>1. \A d \in PusherChunks : <<d, "deferred">> # o BY <1>0
    <2> QED BY <2>1, <1>2, DeferredOp
  <1>6. QuitReported' BY <1>3, <1>5 DEF QuitReported, PusherIInv
  <1>7. ReportedIsThere' BY <1>1, <1>3, <1>5 DEF ReportedIsThere, PusherIInv
  <1> QED BY <1>2, <1>4, <1>6, <1>7 DEF PusherIInv

\* After a restart no goroutine runs and no mark is left.
LEMMA RestartKeeps ==
  ASSUME PusherIInv, PusherRestart
  PROVE  PusherIInv'
  <1>1. /\ ops' = [o \in Ops |-> IF o[2] = "direct" /\ ops[o] # "idle" THEN "done" ELSE "idle"]
        /\ outcome' = [outcome EXCEPT !.direct = [c \in PusherChunks |->
                        IF @[c] = "none" /\ ops[<<c, "direct">>] # "idle" THEN "error" ELSE @[c]]]
        /\ ushist' = [ushist EXCEPT !.restarts = @ + 1]
        /\ taking' = NoOp /\ inflight' = {} /\ UNCHANGED there
    BY DEF PusherRestart
  <1>2. ops' \in [Ops -> OpStates] /\ \A o \in Ops : ops'[o] \in {"done", "idle"}
    BY <1>1 DEF OpStates
  <1>3. /\ outcome' \in [report : [PusherChunks -> Reports], direct : [PusherChunks -> Returned]]
        /\ outcome'.report = outcome.report
        /\ \A d \in PusherChunks : outcome'.direct[d] = "ok" => outcome.direct[d] = "ok"
    BY <1>1 DEF PusherIInv, PusherTypeOK, Returned
  <1>4. /\ ushist'.joined = ushist.joined
        /\ ushist' \in [joined : SUBSET Ops, faults : Nat, restarts : Nat]
    BY <1>1 DEF PusherIInv, PusherTypeOK
  <1>5. PusherTypeOK' BY <1>1, <1>2, <1>3, <1>4 DEF PusherTypeOK
  <1>6. TakingWaits' BY <1>1 DEF TakingWaits
  <1>7. MarkExact' BY <1>1, <1>2, OpPair DEF MarkExact
  <1>8. \A d \in PusherChunks : ops'[<<d, "deferred">>] = "idle"
    BY <1>1, DeferredOp
  <1>9. QuitReported' BY <1>8 DEF QuitReported
  <1>10. ReportedIsThere' BY <1>1, <1>3, <1>4, <1>8 DEF ReportedIsThere, PusherIInv
  <1>11. Cardinality(Busy') <= ConcurrentPushes
    <2>1. Busy' = {} BY <1>2 DEF Busy
    <2>2. Cardinality(Busy') = 0 BY <2>1, FS_EmptySet
    <2> QED BY <2>2, PusherAssumption
  <1> QED BY <1>5, <1>6, <1>7, <1>9, <1>10, <1>11 DEF PusherIInv

\* The pusher starts with nothing marked, running or reported.
LEMMA PusherStarts ==
  ASSUME NEW sc, PusherInit(sc)
  PROVE  PusherIInv
  <1>1. /\ ops = [o \in Ops |-> "idle"] /\ taking = NoOp /\ inflight = {} /\ there = {}
        /\ outcome = [report |-> [c \in PusherChunks |-> "none"],
                      direct |-> [c \in PusherChunks |-> "none"]]
        /\ ushist = [joined |-> {}, faults |-> 0, restarts |-> 0]
    BY DEF PusherInit
  <1>2. PusherTypeOK BY <1>1 DEF PusherTypeOK, OpStates, Reports, Returned
  <1>3. TakingWaits BY <1>1 DEF TakingWaits
  <1>4. \A x \in Ops : ops[x] = "idle" BY <1>1
  <1>5. MarkExact BY <1>1, <1>4, OpPair DEF MarkExact
  <1>6. QuitReported BY <1>4, DeferredOp DEF QuitReported
  <1>7. ReportedIsThere BY <1>1, <1>4, DeferredOp DEF ReportedIsThere
  <1>8. Cardinality(Busy) <= ConcurrentPushes
    <2>1. Busy = {} BY <1>4 DEF Busy
    <2> QED BY <2>1, FS_EmptySet, PusherAssumption
  <1> QED BY <1>2, <1>3, <1>5, <1>6, <1>7, <1>8 DEF PusherIInv

\* Every step of the pusher keeps the invariant.
LEMMA PusherStepKeeps ==
  ASSUME PusherIInv, [PusherNext]_pusherVars
  PROVE  PusherIInv'
  <1>1. CASE PusherStart BY <1>1, StartKeeps
  <1>2. CASE PusherRestart BY <1>2, RestartKeeps
  <1>3. ASSUME NEW o \in Ops, OpStep(o) PROVE PusherIInv'
    BY <1>3, FeedKeeps, TakeKeeps, DeferredKeeps, DirectKeeps, ReleaseKeeps DEF OpStep
  <1>4. CASE UNCHANGED pusherVars
    BY <1>4 DEF pusherVars, PusherIInv, PusherTypeOK, TakingWaits, MarkExact, QuitReported,
             ReportedIsThere, Busy
  <1> QED BY <1>1, <1>2, <1>3, <1>4 DEF PusherNext

\* The books of the pusher are right for any number of chunks and any size of the semaphore
\* (chunksWorker, pushDeferred, pushDirect, inflight.set and delete): a chunk is marked exactly
\* while one goroutine has it, no more goroutines push than there is room for, and what is
\* reported of a chunk is so.
THEOREM PusherBooksRight == PusherSpec => []PusherSound
  <1>1. (\E sc \in PusherScenarios : PusherInit(sc)) => PusherIInv BY PusherStarts
  <1>2. PusherIInv /\ [PusherNext]_pusherVars => PusherIInv' BY PusherStepKeeps
  <1>3. PusherIInv => PusherSound
    BY MarkExactCounts DEF PusherIInv, PusherSound, InflightExact
  <1> QED BY <1>1, <1>2, <1>3, PTL DEF PusherSpec
=============================================================================
