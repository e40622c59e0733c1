----------------------------- MODULE SharkyCalls -----------------------------
(***************************************************************************)
(* The inductive invariant of a shard of the blob store, and the steps of  *)
(* its callers: Write, Read and Release begin, are served, return or give  *)
(* up.  The steps of the free slots, the shutdown, the crash and the start *)
(* are in SharkyProofs.                                                    *)
(***************************************************************************)
EXTENDS Sharky, SetLemmas, FiniteSetTheorems

CallRecords ==
    [op : {"idle", "write", "written", "read", "reading", "fetched", "release"},
     slot : Nat \cup {NoSlot}, blob : Nat, val : Int, cancelled : BOOLEAN]

ShardRecords ==
    [pc : {"select", "reply", "done"}, slot : Nat \cup {NoSlot}, reader : SUBSET Clients, val : Int]

SharkyTyped ==
    /\ status \in {"open", "closing", "closed", "down"}
    /\ slotCount \in Nat /\ head \in 0 .. slotCount
    /\ \A s \in freeSlots : s \in 0 .. (slotCount - 1)
    /\ sp \in [pc : {"run", "drain", "done"}, pending : Nat \cup {NoSlot}]
    /\ sh \in ShardRecords
    /\ limbo \in Nat \cup {NoSlot}
    /\ in \in {"open", "closed"}
    /\ saved \in [free : SUBSET Nat, size : Nat]
    /\ \A s \in saved.free : s \in 0 .. (saved.size - 1)
    /\ calls \in [Clients -> CallRecords]
    /\ inUse \subseteq Nat \X Nat
    /\ lost \subseteq Nat
    /\ writes \in Nat

\* the goroutines end in turn: the shard, then the slots, then the channel in is closed; what
\* Close saves is what is free then, and nothing is known after a crash
Phases ==
    /\ sp.pc = "run" <=> sp.pending # NoSlot
    /\ sh.pc # "done" => sp.pc = "run" /\ limbo = NoSlot
    /\ sh.pc = "done" => sh.slot = NoSlot
    /\ sp.pc = "run" => in = "open"
    /\ sp.pc = "done" => in = "closed"
    /\ in = "closed" => limbo = NoSlot
    /\ status = "down" => /\ \A c \in Clients : calls[c] = Idle
                          /\ lost = {} /\ sp.pc = "done" /\ sh.pc = "done"
    /\ status = "closed" => /\ \A c \in Clients : calls[c].op # "written"
                            /\ sp.pc = "done" /\ sh.pc = "done"
                            /\ saved.free = freeSlots /\ saved.size = slotCount

\* the file holds the blobs of the locations in use
FileSound ==
    /\ file \in [DOMAIN file -> Int]
    /\ \E b \in Nat : DOMAIN file \subseteq 0 .. b
    /\ \A loc \in inUse :
          loc[1] \in DOMAIN file /\ file[loc[1]] = loc[2] /\ loc[2] \in 1 .. writes
    /\ \A k, l \in inUse : k[1] = l[1] => k = l

\* its context is cancelled
Gone(call) == call.cancelled

\* v is what a reader may get
MayGet(c, v) ==
    <<calls[c].slot, calls[c].blob>> \in inUse =>
        v = calls[c].blob \/ (v = CtxErr /\ Gone(calls[c]))

\* the blob of a Write that has not returned is nobody else's
BlobOwn(c) ==
    calls[c].op \in {"write", "written"} =>
        /\ calls[c].blob >= 1
        /\ \A loc \in inUse : loc[2] # calls[c].blob
        /\ \A d \in Clients : d # c => calls[d].blob # calls[c].blob

\* what it has written is in the file
WroteIt(c) ==
    calls[c].op = "written" =>
        /\ calls[c].slot \in DOMAIN file /\ file[calls[c].slot] = calls[c].val
        /\ calls[c].val \in {calls[c].blob, Torn}

\* the shard has the result of the one Read it has taken
ReadSound(c) ==
    /\ calls[c].op = "reading" =>
          sh.pc = "done" \/ (sh.pc = "reply" /\ sh.reader = {c} /\ MayGet(c, sh.val))
    /\ calls[c].op = "fetched" => MayGet(c, calls[c].val)

CallSound(c) ==
    /\ calls[c].blob <= writes
    /\ calls[c].op = "write" => calls[c].slot = NoSlot
    /\ calls[c].op \in {"read", "reading"} => calls[c].slot \in DOMAIN file
    /\ BlobOwn(c) /\ WroteIt(c) /\ ReadSound(c)

Carries(c, s) == calls[c].op \in {"written", "release"} /\ calls[c].slot = s
CarriedAt(s) == \E c \in Clients : Carries(c, s)
HeldAt(s) == \E loc \in inUse : loc[1] = s

\* a slot has one of the owners a slot may have
OwnedOnce(s) ==
    /\ \/ s \in freeSlots \/ s = sp.pending \/ s = sh.slot \/ s = limbo \/ s \in lost
       \/ CarriedAt(s) \/ HeldAt(s)
    /\ s \in freeSlots => s # sp.pending /\ s # sh.slot /\ s # limbo /\ s \notin lost
    /\ s = sp.pending => s # sh.slot /\ s # limbo /\ s \notin lost
    /\ s = sh.slot => s # limbo /\ s \notin lost
    /\ s = limbo => s \notin lost
    /\ CarriedAt(s) \/ HeldAt(s) =>
          s \notin freeSlots /\ s # sp.pending /\ s # sh.slot /\ s # limbo /\ s \notin lost
    /\ ~(CarriedAt(s) /\ HeldAt(s))

\* every slot there is has one, and nobody has another
SlotsOwned ==
    /\ \A s \in 0 .. (slotCount - 1) : OwnedOnce(s)
    /\ \A s \in {sp.pending, sh.slot, limbo} : s = NoSlot \/ s \in 0 .. (slotCount - 1)
    /\ \A s \in lost : s \in 0 .. (slotCount - 1)
    /\ \A c \in Clients : calls[c].op \in {"written", "release"} => calls[c].slot \in 0 .. (slotCount - 1)
    /\ \A loc \in inUse : loc[1] \in 0 .. (slotCount - 1)
    /\ \A c, d \in Clients, s \in Nat : Carries(c, s) /\ Carries(d, s) => c = d

VectorSound ==
    /\ head = slotCount \/ head \in freeSlots
    /\ \E k \in Nat : slotCount = k * ByteSlots

SharkyIInv ==
    /\ SharkyTyped /\ Phases /\ FileSound
    /\ \A c \in Clients : CallSound(c)
    /\ VectorSound
    /\ status # "down" => SlotsOwned

-----------------------------------------------------------------------------
(* The free vector                                                         *)

\* next: a free slot, or the size.
LEMMA NextFound ==
  ASSUME NEW start \in Nat, NEW sz \in Nat, NEW fr, \A i \in fr : i \in 0 .. (sz - 1)
  PROVE  /\ next(start, fr, sz) \in 0 .. sz
         /\ next(start, fr, sz) = sz \/ next(start, fr, sz) \in fr
  <1> DEFINE above == {i \in fr : start <= i /\ i < sz}
  <1>1. next(start, fr, sz) = IF above = {} THEN sz ELSE Min(above) BY DEF next
  <1>2. \A i \in above : i \in Nat /\ i \in fr OBVIOUS
  <1> HIDE DEF above
  <1>3. above # {} => Min(above) \in above
    <2>1. above \subseteq Nat BY <1>2
    <2> QED BY <2>1, MinIsMember
  <1>4. above # {} => Min(above) \in fr BY <1>2, <1>3
  <1>5. CASE above = {} BY <1>1, <1>5
  <1>6. CASE above # {} BY <1>1, <1>4, <1>6
  <1> QED BY <1>5, <1>6

\* pop: the head is taken, of a vector that is extended when there is no free slot.
LEMMA PopTakes ==
  ASSUME NEW sz \in Nat, NEW fr, \A i \in fr : i \in 0 .. (sz - 1), NEW h, h = sz \/ h \in fr
  PROVE  /\ PopSize(h, sz) \in Nat /\ sz <= PopSize(h, sz) /\ h \in 0 .. (PopSize(h, sz) - 1)
         /\ \A s : s \in PopFree(h, fr, sz) <=>
               s \in 0 .. (PopSize(h, sz) - 1) /\ s # h /\ (s \in fr \/ s >= sz)
         /\ LET n == next(h + 1, PopFree(h, fr, sz), PopSize(h, sz))
            IN  n \in 0 .. PopSize(h, sz) /\ (n = PopSize(h, sz) \/ n \in PopFree(h, fr, sz))
  <1>1. PopSize(h, sz) \in Nat /\ sz <= PopSize(h, sz) /\ h \in 0 .. (PopSize(h, sz) - 1)
    <2>1. CASE h = sz BY <2>1, SharkyAssumption DEF PopSize
    <2>2. CASE h # sz
      <3>1. h \in 0 .. (sz - 1) BY <2>2
      <3> QED BY <2>2, <3>1 DEF PopSize
    <2> QED BY <2>1, <2>2
  <1>2. ASSUME NEW s
        PROVE  s \in PopFree(h, fr, sz) <=>
                  s \in 0 .. (PopSize(h, sz) - 1) /\ s # h /\ (s \in fr \/ s >= sz)
    <2>1. CASE h = sz
      <3>1. s \in PopFree(h, fr, sz) <=> s # h /\ (s \in fr \/ s \in sz .. (sz + ByteSlots - 1))
        BY <2>1 DEF PopFree, extended
      <3>2. s \in fr => s \in 0 .. (sz - 1) OBVIOUS
      <3> QED BY <2>1, <3>1, <3>2, SharkyAssumption DEF PopSize
    <2>2. CASE h # sz
      <3>1. s \in PopFree(h, fr, sz) <=> s # h /\ s \in fr BY <2>2 DEF PopFree
      <3>2. s \in fr => s \in 0 .. (sz - 1) OBVIOUS
      <3> QED BY <2>2, <3>1, <3>2 DEF PopSize
    <2> QED BY <2>1, <2>2
  <1>3. h + 1 \in Nat BY <1>1
  <1>4. \A i \in PopFree(h, fr, sz) : i \in 0 .. (PopSize(h, sz) - 1) BY <1>2
  <1> QED BY <1>1, <1>2, <1>3, <1>4, NextFound

\* The slots of a vector and of a longer one.
LEMMA RangeGrows ==
  ASSUME NEW m \in Nat, NEW n \in Nat, m <= n
  PROVE  /\ \A s \in 0 .. (m - 1) : s \in 0 .. (n - 1)
         /\ \A s \in 0 .. (n - 1) : s \notin 0 .. (m - 1) => s >= m
  OBVIOUS

\* Whole bytes and one more are whole bytes.
LEMMA ByteMore ==
  ASSUME NEW sz \in Nat, \E k \in Nat : sz = k * ByteSlots, NEW h
  PROVE  \E k \in Nat : PopSize(h, sz) = k * ByteSlots
  <1>1. PICK k \in Nat : sz = k * ByteSlots OBVIOUS
  <1>2. sz + ByteSlots = (k + 1) * ByteSlots BY <1>1, SharkyAssumption
  <1> QED BY <1>1, <1>2 DEF PopSize

\* Whole bytes leave no remainder.
LEMMA ByteWhole ==
  ASSUME NEW k \in Nat
  PROVE  (k * ByteSlots) % ByteSlots = 0
  <1> DEFINE n == k * ByteSlots
             q == n \div ByteSlots
             r == n % ByteSlots
  <1>1. n \in Nat /\ q \in Int /\ r \in 0 .. (ByteSlots - 1) /\ n = ByteSlots * q + r
    BY SharkyAssumption
  <1>2. r = ByteSlots * (k - q) BY <1>1, SharkyAssumption
  <1>3. k - q >= 1 => ByteSlots * (k - q) >= ByteSlots BY <1>1, SharkyAssumption
  <1>4. k - q <= -1 => ByteSlots * (k - q) <= -ByteSlots BY <1>1, SharkyAssumption
  <1> HIDE DEF q, r
  <1>5. k - q = 0 BY <1>1, <1>2, <1>3, <1>4, SharkyAssumption
  <1> QED BY <1>2, <1>5, SharkyAssumption DEF r

\* A slot is in the byte its number divided by the slots of a byte gives.
LEMMA ByteHolds ==
  ASSUME NEW s \in Nat, NEW m \in Nat, (s \div ByteSlots) + 1 <= m
  PROVE  s < m * ByteSlots
  <1> DEFINE q == s \div ByteSlots
  <1>1. q \in Nat /\ s < (q + 1) * ByteSlots BY SharkyAssumption
  <1> HIDE DEF q
  <1>2. (q + 1) * ByteSlots <= m * ByteSlots BY <1>1, SharkyAssumption DEF q
  <1>3. (q + 1) * ByteSlots \in Int /\ m * ByteSlots \in Int BY <1>1, SharkyAssumption
  <1> QED BY <1>1, <1>2, <1>3

-----------------------------------------------------------------------------
(* What a step leaves                                                      *)

\* A call that is made.
LEMMA CallMade ==
  ASSUME NEW op \in {"write", "read", "release"}, NEW slot, slot = NoSlot \/ slot \in Nat, NEW blob \in Nat
  PROVE  /\ Called(op, slot, blob) \in CallRecords
         /\ Called(op, slot, blob).op = op /\ Called(op, slot, blob).slot = slot
         /\ Called(op, slot, blob).blob = blob
  <1>1. NoBlob \in Int BY DEF NoBlob
  <1>2. /\ op \in {"idle", "write", "written", "read", "reading", "fetched", "release"}
        /\ slot \in Nat \cup {NoSlot}
    OBVIOUS
  <1> QED BY <1>1, <1>2, Zenon DEF Called, CallRecords

\* A Write that is made.
LEMMA WriteMade ==
  ASSUME NEW blob \in Nat
  PROVE  /\ Called("write", NoSlot, blob) \in CallRecords
         /\ Called("write", NoSlot, blob).op = "write" /\ Called("write", NoSlot, blob).slot = NoSlot
         /\ Called("write", NoSlot, blob).blob = blob
  <1>1. NoBlob \in Int /\ NoSlot \in Nat \cup {NoSlot} BY DEF NoBlob
  <1>2. "write" \in {"idle", "write", "written", "read", "reading", "fetched", "release"} OBVIOUS
  <1> QED BY <1>1, <1>2, Zenon DEF Called, CallRecords

\* No call.
LEMMA NoCall == Idle \in CallRecords /\ Idle.op = "idle" /\ Idle.slot = NoSlot /\ Idle.blob = 0
  <1>1. NoBlob \in Int /\ NoBlob \in Nat /\ NoBlob = 0 BY DEF NoBlob
  <1>2. NoSlot \in Nat \cup {NoSlot} OBVIOUS
  <1>3. Idle \in CallRecords BY <1>1, <1>2, Zenon DEF Idle, CallRecords
  <1>4. Idle.op = "idle" /\ Idle.slot = NoSlot /\ Idle.blob = NoBlob BY Zenon DEF Idle
  <1> QED BY <1>1, <1>3, <1>4

\* A shard that has done nothing yet.
LEMMA ShardNew ==
  /\ ShardIdle \in ShardRecords /\ ShardIdle.pc = "select" /\ ShardIdle.slot = NoSlot
  /\ ShardIdle.reader = {} /\ ShardIdle.val = NoBlob
  <1>1. NoBlob \in Int BY DEF NoBlob
  <1> QED BY <1>1 DEF ShardIdle, ShardRecords

\* What is known of a call.
LEMMA CallKnown ==
  ASSUME SharkyIInv, NEW c \in Clients
  PROVE  /\ calls[c] \in CallRecords /\ calls[c].blob \in Nat /\ writes \in Nat
         /\ calls[c].blob <= writes
         /\ calls[c].op = "write" => calls[c].slot = NoSlot
         /\ calls[c].op \in {"read", "reading"} => calls[c].slot \in DOMAIN file
         /\ calls[c].op # "idle" => status # "down"
  <1>1. calls[c] \in CallRecords /\ writes \in Nat BY DEF SharkyIInv, SharkyTyped
  <1>2. calls[c].blob \in Nat BY <1>1 DEF CallRecords
  <1>3. CallSound(c) BY DEF SharkyIInv
  <1>4. status = "down" => calls[c] = Idle BY DEF SharkyIInv, Phases
  <1> QED BY <1>1, <1>2, <1>3, <1>4, NoCall DEF CallSound

\* The blob of a Write that has not returned is nobody else's.
LEMMA BlobApart ==
  ASSUME SharkyIInv, NEW d \in Clients, calls[d].op \in {"write", "written"}
  PROVE  /\ calls[d].blob >= 1 /\ calls[d].blob # 0
         /\ \A c \in Clients : d # c => calls[c].blob # calls[d].blob
         /\ \A loc \in inUse : loc[2] # calls[d].blob
  <1>1. CallSound(d) BY DEF SharkyIInv
  <1>2. BlobOwn(d) BY <1>1 DEF CallSound
  <1>3. calls[d].blob \in Nat BY CallKnown
  <1> QED BY <1>2, <1>3 DEF BlobOwn

\* A Read the shard has taken is the only one.
LEMMA ReaderAlone ==
  ASSUME SharkyIInv, NEW c \in Clients, calls[c].op = "reading", sh.pc # "done"
  PROVE  sh.pc = "reply" /\ sh.reader = {c} /\ MayGet(c, sh.val)
  <1>1. CallSound(c) BY DEF SharkyIInv
  <1>2. ReadSound(c) BY <1>1 DEF CallSound
  <1> QED BY <1>2 DEF ReadSound

\* A call changes: who carries a slot afterwards.
LEMMA CallChanges ==
  ASSUME SharkyTyped, NEW c \in Clients, NEW q \in CallRecords, calls' = [calls EXCEPT ![c] = q]
  PROVE  /\ calls' \in [Clients -> CallRecords]
         /\ calls'[c] = q /\ \A d \in Clients : d # c => calls'[d] = calls[d]
         /\ \A s : Carries(c, s)' <=> q.op \in {"written", "release"} /\ q.slot = s
         /\ \A d \in Clients : d # c => \A s : Carries(d, s)' <=> Carries(d, s)
  BY DEF SharkyTyped, Carries

\* The calls of others: a step of one call leaves them sound that writes nowhere where others have
\* written, brings no location with the blob of another and takes no result from a reader.
LEMMA OtherCalls ==
  ASSUME SharkyIInv, NEW c \in Clients, NEW q \in CallRecords, calls' = [calls EXCEPT ![c] = q],
         writes' \in Nat, writes' >= writes,
         \A loc \in inUse' : loc \in inUse \/ \A d \in Clients : d # c => loc[2] # calls[d].blob,
         DOMAIN file \subseteq DOMAIN file',
         \A d \in Clients : d # c /\ calls[d].op = "written" => file'[calls[d].slot] = file[calls[d].slot],
         \A d \in Clients : d # c /\ calls[d].op \in {"write", "written"} => q.blob # calls[d].blob,
         \A d \in Clients : d # c /\ calls[d].op = "reading" => sh' = sh \/ sh'.pc = "done",
         NEW d \in Clients, d # c
  PROVE  CallSound(d)'
  <1>0. SharkyTyped /\ CallSound(d) BY DEF SharkyIInv
  <1>1. calls'[d] = calls[d] /\ \A e \in Clients : calls'[e] = IF e = c THEN q ELSE calls[e]
    BY <1>0, CallChanges
  <1>2. calls[d].blob <= writes'
    <2>1. calls[d].blob \in Nat /\ writes \in Nat BY <1>0 DEF SharkyTyped, CallRecords
    <2>2. calls[d].blob <= writes BY <1>0 DEF CallSound
    <2> QED BY <2>1, <2>2
  <1>3. BlobOwn(d)'
    <2>1. BlobOwn(d) BY <1>0 DEF CallSound
    <2> QED BY <1>1, <2>1 DEF BlobOwn
  <1>4. WroteIt(d)'
    <2>1. WroteIt(d) BY <1>0 DEF CallSound
    <2> QED BY <1>1, <2>1 DEF WroteIt
  <1>5. <<calls[d].slot, calls[d].blob>> \in inUse' => <<calls[d].slot, calls[d].blob>> \in inUse
    OBVIOUS
  <1>6. ReadSound(d)'
    <2>1. ReadSound(d) BY <1>0 DEF CallSound
    <2> QED BY <1>1, <1>5, <2>1 DEF ReadSound, MayGet
  <1> QED BY <1>0, <1>1, <1>2, <1>3, <1>4, <1>6 DEF CallSound

\* No slot changes hands.
LEMMA SlotsStay ==
  ASSUME SlotsOwned, UNCHANGED <<freeSlots, slotCount, limbo, lost, inUse>>,
         sp'.pending = sp.pending, sh'.slot = sh.slot,
         \A c \in Clients : /\ calls'[c].op \in {"written", "release"} <=> calls[c].op \in {"written", "release"}
                            /\ calls[c].op \in {"written", "release"} => calls'[c].slot = calls[c].slot
  PROVE  SlotsOwned'
  <1>1. \A c \in Clients : \A s : Carries(c, s)' <=> Carries(c, s) BY DEF Carries
  <1>2. \A s : CarriedAt(s)' <=> CarriedAt(s) BY <1>1 DEF CarriedAt
  <1>3. \A s : HeldAt(s)' <=> HeldAt(s) BY DEF HeldAt
  <1>4. \A s \in 0 .. (slotCount' - 1) : OwnedOnce(s)' BY <1>2, <1>3 DEF OwnedOnce, SlotsOwned
  <1>5. \A c \in Clients : calls'[c].op \in {"written", "release"} => calls'[c].slot \in 0 .. (slotCount' - 1)
    BY DEF SlotsOwned
  <1>6. \A c, d \in Clients, s \in Nat : Carries(c, s)' /\ Carries(d, s)' => c = d
    BY <1>1 DEF SlotsOwned
  <1> QED BY <1>4, <1>5, <1>6 DEF SlotsOwned

\* One slot changes hands.
LEMMA SlotMoves ==
  ASSUME SlotsOwned, slotCount' = slotCount, NEW x,
         \A s \in 0 .. (slotCount - 1) : s # x =>
            /\ s \in freeSlots' <=> s \in freeSlots
            /\ s = sp'.pending <=> s = sp.pending
            /\ s = sh'.slot <=> s = sh.slot
            /\ s = limbo' <=> s = limbo
            /\ s \in lost' <=> s \in lost
            /\ CarriedAt(s)' <=> CarriedAt(s)
            /\ HeldAt(s)' <=> HeldAt(s),
         x \in 0 .. (slotCount - 1) => OwnedOnce(x)'
  PROVE  \A s \in 0 .. (slotCount' - 1) : OwnedOnce(s)'
  <1> SUFFICES ASSUME NEW s \in 0 .. (slotCount - 1) PROVE OwnedOnce(s)' OBVIOUS
  <1>1. CASE s = x BY <1>1
  <1>2. CASE s # x BY <1>2 DEF OwnedOnce, SlotsOwned
  <1> QED BY <1>1, <1>2

\* A step of one call in which no slot changes hands.
LEMMA QuietCall ==
  ASSUME SharkyIInv, NEW c \in Clients, NEW q \in CallRecords, calls' = [calls EXCEPT ![c] = q],
         status # "down", UNCHANGED <<status, freeVars, sp, limbo, in, file, saved, inUse, lost>>,
         writes' \in Nat, writes' >= writes,
         sh' \in ShardRecords,
         sh'.slot = sh.slot, sh'.pc = "done" <=> sh.pc = "done",
         q.op \in {"written", "release"} <=> calls[c].op \in {"written", "release"},
         q.op \in {"written", "release"} => q.slot = calls[c].slot,
         q.op = "written" => calls[c].op = "written",
         \A d \in Clients : d # c /\ calls[d].op \in {"write", "written"} => q.blob # calls[d].blob,
         \A d \in Clients : d # c /\ calls[d].op = "reading" => sh' = sh,
         CallSound(c)'
  PROVE  SharkyIInv'
  <1>0. SharkyTyped BY DEF SharkyIInv
  <1>1. /\ calls' \in [Clients -> CallRecords]
        /\ calls'[c] = q /\ \A d \in Clients : d # c => calls'[d] = calls[d]
    BY <1>0, CallChanges
  <1>2. SharkyTyped' BY <1>0, <1>1 DEF SharkyTyped, freeVars
  <1>3. Phases' BY <1>1 DEF SharkyIInv, Phases, freeVars
  <1>4. FileSound'
    <2>1. 1 .. writes \subseteq 1 .. writes' BY <1>0 DEF SharkyTyped
    <2> QED BY <2>1 DEF SharkyIInv, FileSound
  <1>5. ASSUME NEW d \in Clients PROVE CallSound(d)'
    <2>1. CASE d = c BY <2>1
    <2>2. CASE d # c
      <3>1. inUse' = inUse /\ DOMAIN file \subseteq DOMAIN file' /\ file' = file OBVIOUS
      <3> QED BY <2>2, <3>1, OtherCalls
    <2> QED BY <2>1, <2>2
  <1>6. VectorSound' BY DEF SharkyIInv, VectorSound, freeVars
  <1>7. SlotsOwned'
    <2>1. SlotsOwned BY DEF SharkyIInv
    <2> QED BY <1>1, <2>1, SlotsStay DEF freeVars
  <1> QED BY <1>2, <1>3, <1>4, <1>5, <1>6, <1>7 DEF SharkyIInv

-----------------------------------------------------------------------------
(* Steps in which no slot changes hands                                    *)

\* Write is called with a blob of its own.
LEMMA WriteCalled ==
  ASSUME SharkyIInv, NEW c \in Clients, SharkyWrite(c)
  PROVE  SharkyIInv'
  <1> DEFINE q == Called("write", NoSlot, writes + 1)
  <1>1. /\ calls[c].op = "idle" /\ status # "down" /\ calls' = [calls EXCEPT ![c] = q]
        /\ writes' = writes + 1
        /\ UNCHANGED <<status, freeVars, sp, sh, limbo, in, file, saved, inUse, lost>>
    BY DEF SharkyWrite, CanCall
  <1>2. writes \in Nat BY CallKnown
  <1>3. q \in CallRecords /\ q.op = "write" /\ q.slot = NoSlot /\ q.blob = writes + 1
    BY <1>2, WriteMade
  <1> HIDE DEF q
  <1>4. \A d \in Clients : calls[d].blob # writes + 1
    <2> SUFFICES ASSUME NEW d \in Clients PROVE calls[d].blob # writes + 1 OBVIOUS
    <2>1. calls[d].blob \in Nat /\ calls[d].blob <= writes BY CallKnown
    <2> QED BY <1>2, <2>1
  <1>5. \A loc \in inUse : loc[2] # writes + 1 BY <1>2 DEF SharkyIInv, FileSound
  <1>6. calls'[c] = q /\ \A d \in Clients : d # c => calls'[d] = calls[d]
    BY <1>1, <1>3, CallChanges DEF SharkyIInv
  <1>7. CallSound(c)'
    <2>1. BlobOwn(c)' BY <1>1, <1>2, <1>3, <1>4, <1>5, <1>6 DEF BlobOwn
    <2>2. WroteIt(c)' /\ ReadSound(c)' BY <1>3, <1>6 DEF WroteIt, ReadSound
    <2> QED BY <1>1, <1>2, <1>3, <1>6, <2>1, <2>2 DEF CallSound
  <1>8. sh' \in ShardRecords
    BY <1>1 DEF SharkyIInv, SharkyTyped
  <1>9. sh' = sh /\ writes' \in Nat /\ writes' >= writes BY <1>1, <1>2
  <1> QED BY <1>1, <1>3, <1>4, <1>7, <1>8, <1>9, QuietCall

\* Read is called with a location in use.
LEMMA ReadCalled ==
  ASSUME SharkyIInv, NEW c \in Clients, NEW loc \in inUse, Read(c, loc)
  PROVE  SharkyIInv'
  <1> DEFINE q == Called("read", loc[1], loc[2])
  <1>1. /\ calls[c].op = "idle" /\ status # "down" /\ calls' = [calls EXCEPT ![c] = q]
        /\ UNCHANGED <<status, freeVars, sp, sh, limbo, in, file, saved, inUse, lost, writes>>
    BY DEF Read, CanCall
  <1>2. loc[1] \in Nat /\ loc[2] \in Nat /\ loc[2] <= writes /\ loc[1] \in DOMAIN file
    BY DEF SharkyIInv, SharkyTyped, FileSound
  <1>3. q \in CallRecords /\ q.op = "read" /\ q.slot = loc[1] /\ q.blob = loc[2]
    BY <1>2, CallMade
  <1> HIDE DEF q
  <1>4. \A d \in Clients : d # c /\ calls[d].op \in {"write", "written"} => q.blob # calls[d].blob
    BY <1>3, BlobApart
  <1>5. calls'[c] = q BY <1>1, <1>3, CallChanges DEF SharkyIInv
  <1>6. CallSound(c)' BY <1>1, <1>2, <1>3, <1>5 DEF CallSound, BlobOwn, WroteIt, ReadSound
  <1>7. sh' \in ShardRecords
    BY <1>1 DEF SharkyIInv, SharkyTyped
  <1>8. sh' = sh /\ writes' \in Nat /\ writes' >= writes BY <1>1, CallKnown
  <1> QED BY <1>1, <1>3, <1>4, <1>6, <1>7, <1>8, QuietCall

\* The context of a call is cancelled.
LEMMA Cancelled ==
  ASSUME SharkyIInv, NEW c \in Clients, CancelCall(c)
  PROVE  SharkyIInv'
  <1> DEFINE q == [calls[c] EXCEPT !.cancelled = TRUE]
  <1>0. calls[c] \in CallRecords /\ CallSound(c) BY CallKnown DEF SharkyIInv
  <1>1. /\ calls[c].op # "idle" /\ calls' = [calls EXCEPT ![c] = q]
        /\ UNCHANGED <<status, freeVars, sp, sh, limbo, in, file, saved, inUse, lost, writes>>
    BY DEF CancelCall
  <1>2. status # "down" BY <1>1, CallKnown
  <1>3. /\ q \in CallRecords /\ q.op = calls[c].op /\ q.slot = calls[c].slot
        /\ q.blob = calls[c].blob /\ q.val = calls[c].val
    BY <1>0 DEF CallRecords
  <1>9. Gone(q) BY <1>0, Zenon DEF CallRecords, Gone
  <1> HIDE DEF q
  <1>4. calls'[c] = q /\ \A d \in Clients : d # c => calls'[d] = calls[d]
    BY <1>1, <1>3, CallChanges DEF SharkyIInv
  <1>5. CallSound(c)'
    <2>1. BlobOwn(c)' BY <1>0, <1>1, <1>3, <1>4 DEF BlobOwn, CallSound
    <2>2. WroteIt(c)' BY <1>0, <1>1, <1>3, <1>4 DEF WroteIt, CallSound
    <2>3. inUse' = inUse /\ sh' = sh BY <1>1
    <2>4. /\ calls'[c].op = calls[c].op /\ calls'[c].slot = calls[c].slot
          /\ calls'[c].blob = calls[c].blob /\ calls'[c].val = calls[c].val
      BY <1>3, <1>4
    <2>5. \A v : MayGet(c, v) => MayGet(c, v)' BY <1>4, <1>9, <2>3, <2>4, Zenon DEF MayGet
    <2>6. ReadSound(c) BY <1>0 DEF CallSound
    <2>7. ReadSound(c)' BY <2>3, <2>4, <2>5, <2>6, Zenon DEF ReadSound
    <2> QED BY <1>0, <1>1, <1>3, <1>4, <2>1, <2>2, <2>7 DEF CallSound
  <1>6. sh' \in ShardRecords
    BY <1>1 DEF SharkyIInv, SharkyTyped
  <1>7. \A d \in Clients : d # c /\ calls[d].op \in {"write", "written"} => q.blob # calls[d].blob
    BY <1>3, BlobApart
  <1>8. sh' = sh /\ writes' \in Nat /\ writes' >= writes BY <1>1, CallKnown
  <1> QED BY <1>1, <1>2, <1>3, <1>5, <1>6, <1>7, <1>8, QuietCall

\* a call ends, and nothing else changes
OnlyCallEnds(c) ==
    /\ calls' = [calls EXCEPT ![c] = Idle]
    /\ UNCHANGED <<status, freeVars, sp, limbo, in, file, saved, inUse, lost>>
    /\ sh' = sh /\ writes' = writes

\* A call that has no slot ends.
LEMMA QuietReturn ==
  ASSUME SharkyIInv, NEW c \in Clients, calls[c].op \in {"read", "reading", "fetched", "write"},
         OnlyCallEnds(c)
  PROVE  SharkyIInv'
  <1>1. status # "down" BY CallKnown
  <1>2. /\ calls' = [calls EXCEPT ![c] = Idle] /\ sh' = sh /\ writes' = writes
        /\ UNCHANGED <<status, freeVars, sp, limbo, in, file, saved, inUse, lost>>
    BY Zenon DEF OnlyCallEnds
  <1>3. calls'[c] = Idle BY <1>2, NoCall, CallChanges DEF SharkyIInv
  <1>4. writes' \in Nat /\ writes' >= writes BY <1>2, CallKnown
  <1>5. CallSound(c)'
    <2>1. calls'[c].op = "idle" /\ calls'[c].blob <= writes' BY <1>3, <1>4, NoCall
    <2> QED BY <2>1 DEF CallSound, BlobOwn, WroteIt, ReadSound
  <1>6. sh' \in ShardRecords BY <1>2 DEF SharkyIInv, SharkyTyped
  <1>7. \A d \in Clients : d # c /\ calls[d].op \in {"write", "written"} => Idle.blob # calls[d].blob
    BY NoCall, BlobApart
  <1>8. /\ Idle \in CallRecords /\ Idle.op \notin {"written", "release"}
        /\ calls[c].op \notin {"written", "release"}
    BY NoCall
  <1> QED BY <1>1, <1>2, <1>4, <1>5, <1>6, <1>7, <1>8, QuietCall

\* The shard takes a read and reads the file: what it has is the blob of a location in use.
LEMMA ReadTaken ==
  ASSUME SharkyIInv, NEW c \in Clients, TakeRead(c)
  PROVE  SharkyIInv'
  <1> DEFINE q == [calls[c] EXCEPT !.op = "reading"]
  <1>0. calls[c] \in CallRecords /\ FileSound BY CallKnown DEF SharkyIInv
  <1>1. /\ calls[c].op = "read" /\ calls' = [calls EXCEPT ![c] = q] /\ sh.pc = "select"
        /\ sh' = [sh EXCEPT !.pc = "reply", !.reader = {c}, !.val = file[calls[c].slot]]
        /\ UNCHANGED <<status, freeVars, sp, limbo, in, file, saved, inUse, lost, writes>>
    BY DEF TakeRead
  <1>2. status # "down" /\ calls[c].slot \in DOMAIN file BY <1>1, CallKnown
  <1>3. /\ q \in CallRecords /\ q.op = "reading" /\ q.slot = calls[c].slot
        /\ q.blob = calls[c].blob
    BY <1>0 DEF CallRecords
  <1> HIDE DEF q
  <1>4. calls'[c] = q BY <1>1, <1>3, CallChanges DEF SharkyIInv
  <1>5. file[calls[c].slot] \in Int BY <1>0, <1>2 DEF FileSound
  <1>6. /\ sh' \in ShardRecords
        /\ sh'.pc = "reply" /\ sh'.reader = {c} /\ sh'.val = file[calls[c].slot] /\ sh'.slot = sh.slot
    BY <1>1, <1>5 DEF SharkyIInv, SharkyTyped, ShardRecords
  <1>7. MayGet(c, sh.val)' BY <1>0, <1>1, <1>3, <1>4, <1>6 DEF MayGet, FileSound
  <1>8. CallSound(c)'
    <2>1. calls[c].blob <= writes BY CallKnown
    <2> QED BY <1>1, <1>2, <1>3, <1>4, <1>6, <1>7, <2>1 DEF CallSound, BlobOwn, WroteIt, ReadSound
  <1>9. \A d \in Clients : d # c /\ calls[d].op \in {"write", "written"} => q.blob # calls[d].blob
    BY <1>3, BlobApart
  <1>10. \A d \in Clients : calls[d].op # "reading" BY <1>1, ReaderAlone
  <1>11. writes' \in Nat /\ writes' >= writes BY <1>1, CallKnown
  <1> QED BY <1>1, <1>2, <1>3, <1>6, <1>8, <1>9, <1>10, <1>11, QuietCall

\* The reader fetches the result: there is only one that waits.
LEMMA Replied ==
  ASSUME SharkyIInv, NEW c \in Clients, Reply(c)
  PROVE  SharkyIInv'
  <1> DEFINE q == [calls[c] EXCEPT !.op = "fetched", !.val = sh.val]
  <1>0. calls[c] \in CallRecords /\ sh.val \in Int BY CallKnown DEF SharkyIInv, SharkyTyped, ShardRecords
  <1>1. /\ calls[c].op = "reading" /\ calls' = [calls EXCEPT ![c] = q] /\ sh.pc = "reply"
        /\ sh' = [sh EXCEPT !.pc = "select", !.reader = {}, !.val = NoBlob]
        /\ UNCHANGED <<status, freeVars, sp, limbo, in, file, saved, inUse, lost, writes>>
    BY DEF Reply
  <1>2. status # "down" BY <1>1, CallKnown
  <1>3. /\ q \in CallRecords /\ q.op = "fetched" /\ q.slot = calls[c].slot
        /\ q.blob = calls[c].blob /\ q.val = sh.val
    BY <1>0 DEF CallRecords
  <1>12. Gone(calls[c]) => Gone(q) BY <1>0, Zenon DEF CallRecords, Gone
  <1> HIDE DEF q
  <1>4. calls'[c] = q BY <1>1, <1>3, CallChanges DEF SharkyIInv
  <1>5. sh' \in ShardRecords /\ sh'.pc = "select" /\ sh'.slot = sh.slot
    <2>1. sh \in ShardRecords /\ NoBlob \in Int BY DEF SharkyIInv, SharkyTyped, NoBlob
    <2> QED BY <1>1, <2>1 DEF ShardRecords
  <1>6. sh.reader = {c} /\ MayGet(c, sh.val) BY <1>1, ReaderAlone
  <1>7. MayGet(c, calls[c].val)'
    <2>1. inUse' = inUse BY <1>1
    <2>2. calls'[c].slot = calls[c].slot /\ calls'[c].blob = calls[c].blob /\ calls'[c].val = sh.val
      BY <1>3, <1>4
    <2> QED BY <1>4, <1>6, <1>12, <2>1, <2>2, Zenon DEF MayGet
  <1>8. CallSound(c)'
    <2>1. calls[c].blob <= writes BY CallKnown
    <2> QED BY <1>1, <1>3, <1>4, <1>7, <2>1 DEF CallSound, BlobOwn, WroteIt, ReadSound
  <1>9. \A d \in Clients : d # c /\ calls[d].op \in {"write", "written"} => q.blob # calls[d].blob
    BY <1>3, BlobApart
  <1>10. \A d \in Clients : d # c => calls[d].op # "reading" BY <1>1, <1>6, ReaderAlone
  <1>11. writes' \in Nat /\ writes' >= writes BY <1>1, CallKnown
  <1> QED BY <1>1, <1>2, <1>3, <1>5, <1>8, <1>9, <1>10, <1>11, QuietCall

\* The shard gives a reader whose context is cancelled the error.
LEMMA ReplyLost ==
  ASSUME SharkyIInv, ReplyCancelled
  PROVE  SharkyIInv'
  <1>1. PICK c \in sh.reader : Gone(calls[c]) BY DEF ReplyCancelled, Gone
  <1>2. c \in Clients BY <1>1 DEF SharkyIInv, SharkyTyped, ShardRecords
  <1>3. /\ sh.pc = "reply" /\ sh' = [sh EXCEPT !.val = CtxErr] /\ calls' = calls
        /\ UNCHANGED <<status, freeVars, sp, limbo, in, file, saved, inUse, lost, writes>>
    BY DEF ReplyCancelled
  <1>4. status # "down" BY <1>3 DEF SharkyIInv, Phases
  <1>5. /\ sh' \in ShardRecords
        /\ sh'.pc = sh.pc /\ sh'.slot = sh.slot /\ sh'.reader = sh.reader /\ sh'.val = CtxErr
    BY <1>3 DEF SharkyIInv, SharkyTyped, ShardRecords, CtxErr
  <1>6. calls[c] \in CallRecords /\ calls' = [calls EXCEPT ![c] = calls[c]]
    BY <1>2, <1>3, CallKnown DEF SharkyIInv, SharkyTyped
  <1>7. CallSound(c)'
    <2>1. CallSound(c) BY <1>2 DEF SharkyIInv
    <2>2. BlobOwn(c)' /\ WroteIt(c)' BY <1>3, <2>1 DEF CallSound, BlobOwn, WroteIt
    <2>3. ReadSound(c)' BY <1>1, <1>3, <1>5, <2>1 DEF CallSound, ReadSound, MayGet
    <2> QED BY <1>3, <2>1, <2>2, <2>3 DEF CallSound
  <1>8. \A d \in Clients : d # c /\ calls[d].op \in {"write", "written"} => calls[c].blob # calls[d].blob
    BY <1>2, BlobApart
  <1>9. \A d \in Clients : d # c => calls[d].op # "reading" BY <1>1, <1>3, ReaderAlone
  <1>10. writes' \in Nat /\ writes' >= writes BY <1>2, <1>3, CallKnown
  <1> QED BY <1>2, <1>3, <1>4, <1>5, <1>6, <1>7, <1>8, <1>9, <1>10, QuietCall

\* Nothing of a call, a location or the file changes.
LEMMA CallsStay ==
  ASSUME SharkyIInv, UNCHANGED <<calls, file, inUse, writes>>,
         sh' = sh \/ sh'.pc = "done" \/ \A c \in Clients : calls[c].op # "reading"
  PROVE  FileSound' /\ \A c \in Clients : CallSound(c)'
  <1>1. FileSound' BY DEF SharkyIInv, FileSound
  <1>2. ASSUME NEW c \in Clients PROVE CallSound(c)'
    <2>1. CallSound(c) BY DEF SharkyIInv
    <2>2. \A v : MayGet(c, v) <=> MayGet(c, v)' BY DEF MayGet
    <2>3. calls[c].op = "reading" =>
             sh'.pc = "done" \/ (sh'.pc = "reply" /\ sh'.reader = {c} /\ MayGet(c, sh.val)')
      BY <2>1 DEF CallSound, BlobOwn, WroteIt, ReadSound, MayGet
    <2>4. calls[c].op = "fetched" => MayGet(c, calls[c].val)' BY <2>1 DEF CallSound, BlobOwn, WroteIt, ReadSound, MayGet
    <2> QED BY <2>1, <2>3, <2>4 DEF CallSound, BlobOwn, WroteIt, ReadSound
  <1> QED BY <1>1, <1>2

\* The goroutines end, Close begins and ends.
LEMMA ShutdownKeeps ==
  ASSUME SharkyIInv, Close \/ StoreClosed \/ CloseIn \/ SlotsDone
  PROVE  SharkyIInv'
  <1>1. UNCHANGED <<calls, file, inUse, writes, sh, freeVars, limbo, lost>> /\ sp'.pending = sp.pending
    BY DEF Close, StoreClosed, CloseIn, SlotsDone, SharkyIInv, SharkyTyped
  <1>2. FileSound' /\ \A c \in Clients : CallSound(c)' BY <1>1, CallsStay
  <1>3. SharkyTyped'
    BY DEF Close, StoreClosed, CloseIn, SlotsDone, SharkyIInv, SharkyTyped, freeVars
  <1>4. status # "down" /\ status' # "down"
    BY DEF Close, StoreClosed, CloseIn, SlotsDone, SharkyIInv, Phases
  <1>5. Phases'
    BY <1>4 DEF Close, StoreClosed, CloseIn, SlotsDone, SharkyIInv, Phases, freeVars, SharkyTyped
  <1>6. VectorSound' BY <1>1 DEF SharkyIInv, VectorSound, freeVars
  <1>7. SlotsOwned'
    <2>1. SlotsOwned BY <1>4 DEF SharkyIInv
    <2> QED BY <1>1, <2>1, SlotsStay DEF freeVars
  <1> QED BY <1>2, <1>3, <1>5, <1>6, <1>7 DEF SharkyIInv

-----------------------------------------------------------------------------
(* Steps in which a slot changes hands                                     *)

\* A call that has no slot gets one that no call has.
LEMMA CarryBegins ==
  ASSUME SharkyIInv, SlotsOwned, NEW c \in Clients, NEW q \in CallRecords, calls' = [calls EXCEPT ![c] = q],
         calls[c].op \notin {"written", "release"}, q.op \in {"written", "release"},
         q.slot \in 0 .. (slotCount - 1), ~CarriedAt(q.slot), slotCount' = slotCount
  PROVE  /\ \A s : CarriedAt(s)' <=> CarriedAt(s) \/ s = q.slot
         /\ \A d \in Clients : calls'[d].op \in {"written", "release"} => calls'[d].slot \in 0 .. (slotCount' - 1)
         /\ \A d, e \in Clients, s \in Nat : Carries(d, s)' /\ Carries(e, s)' => d = e
  <1>1. /\ calls'[c] = q /\ \A d \in Clients : d # c => calls'[d] = calls[d]
        /\ \A s : Carries(c, s)' <=> q.slot = s
        /\ \A d \in Clients : d # c => \A s : Carries(d, s)' <=> Carries(d, s)
    BY CallChanges DEF SharkyIInv
  <1>2. \A s : ~Carries(c, s) BY DEF Carries
  <1>3. \A s : CarriedAt(s)' <=> CarriedAt(s) \/ s = q.slot BY <1>1, <1>2 DEF CarriedAt
  <1>4. \A d \in Clients : ~Carries(d, q.slot) BY DEF CarriedAt
  <1>5. \A d, e \in Clients, s \in Nat : Carries(d, s)' /\ Carries(e, s)' => d = e
    BY <1>1, <1>4 DEF SlotsOwned
  <1>6. \A d \in Clients : calls'[d].op \in {"written", "release"} => calls'[d].slot \in 0 .. (slotCount' - 1)
    BY <1>1 DEF SlotsOwned
  <1> QED BY <1>3, <1>5, <1>6

\* A call gives away the slot it has.
LEMMA CarryEnds ==
  ASSUME SharkyIInv, SlotsOwned, NEW c \in Clients, calls' = [calls EXCEPT ![c] = Idle],
         calls[c].op \in {"written", "release"}, slotCount' = slotCount
  PROVE  /\ calls[c].slot \in 0 .. (slotCount - 1)
         /\ \A s \in Nat : CarriedAt(s)' <=> CarriedAt(s) /\ s # calls[c].slot
         /\ \A d \in Clients : calls'[d].op \in {"written", "release"} => calls'[d].slot \in 0 .. (slotCount' - 1)
         /\ \A d, e \in Clients, s \in Nat : Carries(d, s)' /\ Carries(e, s)' => d = e
  <1>1. /\ calls'[c] = Idle /\ \A d \in Clients : d # c => calls'[d] = calls[d]
        /\ \A s : ~Carries(c, s)'
        /\ \A d \in Clients : d # c => \A s : Carries(d, s)' <=> Carries(d, s)
    BY NoCall, CallChanges DEF SharkyIInv
  <1>2. calls[c].slot \in 0 .. (slotCount - 1) /\ Carries(c, calls[c].slot) BY DEF SlotsOwned, Carries
  <1>3. \A s : Carries(c, s) => s = calls[c].slot BY DEF Carries
  <1>4. \A d \in Clients : d # c => ~Carries(d, calls[c].slot) BY <1>2 DEF SlotsOwned
  <1>5. \A s \in Nat : CarriedAt(s)' <=> CarriedAt(s) /\ s # calls[c].slot
    BY <1>1, <1>3, <1>4 DEF CarriedAt
  <1>6. \A d, e \in Clients, s \in Nat : Carries(d, s)' /\ Carries(e, s)' => d = e
    BY <1>1 DEF SlotsOwned
  <1>7. \A d \in Clients : calls'[d].op \in {"written", "release"} => calls'[d].slot \in 0 .. (slotCount' - 1)
    BY <1>1, NoCall DEF SlotsOwned
  <1> QED BY <1>2, <1>5, <1>6, <1>7

\* A call ends: every call is sound still.
LEMMA EndSound ==
  ASSUME SharkyIInv, NEW c \in Clients, calls' = [calls EXCEPT ![c] = Idle], writes' = writes,
         \A loc \in inUse' : loc \in inUse \/ \A d \in Clients : d # c => loc[2] # calls[d].blob,
         file' = file, sh' = sh
  PROVE  calls' \in [Clients -> CallRecords] /\ \A d \in Clients : CallSound(d)'
  <1>1. calls' \in [Clients -> CallRecords] /\ calls'[c] = Idle BY NoCall, CallChanges DEF SharkyIInv
  <1>2. writes \in Nat BY CallKnown
  <1>3. CallSound(c)'
    <2>1. calls'[c].op = "idle" /\ calls'[c].blob <= writes' BY <1>1, <1>2, NoCall
    <2> QED BY <2>1 DEF CallSound, BlobOwn, WroteIt, ReadSound
  <1>4. ASSUME NEW d \in Clients, d # c PROVE CallSound(d)'
    <2>1. \A e \in Clients : calls[e].op \in {"write", "written"} => Idle.blob # calls[e].blob
      BY NoCall, BlobApart
    <2>2. writes' \in Nat /\ writes' >= writes /\ DOMAIN file \subseteq DOMAIN file' BY <1>2
    <2> QED BY <1>4, <2>1, <2>2, NoCall, OtherCalls
  <1> QED BY <1>1, <1>3, <1>4

\* What is known of a slot.
LEMMA SlotKnown ==
  ASSUME SharkyIInv, status # "down"
  PROVE  /\ SlotsOwned /\ slotCount \in Nat /\ \A s \in 0 .. (slotCount - 1) : s \in Nat
         /\ NoSlot \notin 0 .. (slotCount - 1)
         /\ \A loc \in inUse : loc[1] \in 0 .. (slotCount - 1) /\ ~CarriedAt(loc[1])
         /\ \A c \in Clients : calls[c].op \in {"written", "release"} =>
               calls[c].slot \in 0 .. (slotCount - 1) /\ ~HeldAt(calls[c].slot)
  <1>1. SlotsOwned /\ slotCount \in Nat BY DEF SharkyIInv, SharkyTyped
  <1>2. NoSlot \notin 0 .. (slotCount - 1) BY <1>1 DEF NoSlot
  <1>3. ASSUME NEW loc \in inUse PROVE loc[1] \in 0 .. (slotCount - 1) /\ ~CarriedAt(loc[1])
    <2>1. loc[1] \in 0 .. (slotCount - 1) BY <1>1 DEF SlotsOwned
    <2>2. OwnedOnce(loc[1]) /\ HeldAt(loc[1]) BY <1>1, <2>1 DEF SlotsOwned, HeldAt
    <2> QED BY <2>1, <2>2 DEF OwnedOnce
  <1>4. ASSUME NEW c \in Clients, calls[c].op \in {"written", "release"}
        PROVE  calls[c].slot \in 0 .. (slotCount - 1) /\ ~HeldAt(calls[c].slot)
    <2>1. calls[c].slot \in 0 .. (slotCount - 1) BY <1>1, <1>4 DEF SlotsOwned
    <2>2. OwnedOnce(calls[c].slot) /\ CarriedAt(calls[c].slot)
      BY <1>1, <1>4, <2>1 DEF SlotsOwned, CarriedAt, Carries
    <2> QED BY <2>1, <2>2 DEF OwnedOnce
  <1> QED BY <1>1, <1>2, <1>3, <1>4

\* Release is called: the slot goes from its location to the call.
LEMMA Released ==
  ASSUME SharkyIInv, NEW c \in Clients, NEW loc \in inUse, Release(c, loc)
  PROVE  SharkyIInv'
  <1> DEFINE q == Called("release", loc[1], loc[2])
  <1>1. /\ calls[c].op = "idle" /\ status # "down" /\ calls' = [calls EXCEPT ![c] = q]
        /\ inUse' = inUse \ {loc}
        /\ UNCHANGED <<status, freeVars, sp, sh, limbo, in, file, saved, lost, writes>>
    BY DEF Release, CanCall
  <1>2. loc[1] \in Nat /\ loc[2] \in Nat /\ loc[2] <= writes /\ writes \in Nat
    BY DEF SharkyIInv, SharkyTyped, FileSound
  <1>3. q \in CallRecords /\ q.op = "release" /\ q.slot = loc[1] /\ q.blob = loc[2]
    BY <1>2, CallMade
  <1> HIDE DEF q
  <1>4. SlotsOwned /\ loc[1] \in 0 .. (slotCount - 1) /\ ~CarriedAt(loc[1]) /\ slotCount \in Nat
    BY <1>1, SlotKnown
  <1>5. calls' \in [Clients -> CallRecords] /\ calls'[c] = q /\ \A d \in Clients : d # c => calls'[d] = calls[d]
    BY <1>1, <1>3, CallChanges DEF SharkyIInv
  <1>6. SharkyTyped' BY <1>1, <1>5 DEF SharkyIInv, SharkyTyped, freeVars
  <1>7. Phases' BY <1>1, <1>3, <1>5 DEF SharkyIInv, Phases, freeVars
  <1>8. FileSound' BY <1>1 DEF SharkyIInv, FileSound
  <1>9. ASSUME NEW d \in Clients PROVE CallSound(d)'
    <2>1. CASE d = c BY <1>1, <1>2, <1>3, <1>5, <2>1 DEF CallSound, BlobOwn, WroteIt, ReadSound
    <2>2. CASE d # c
      <3>1. \A e \in Clients : calls[e].op \in {"write", "written"} => q.blob # calls[e].blob
        BY <1>3, BlobApart
      <3>2. (\A k \in inUse' : k \in inUse) /\ DOMAIN file \subseteq DOMAIN file' /\ file' = file /\ sh' = sh
        BY <1>1
      <3>3. writes' \in Nat /\ writes' >= writes BY <1>1, <1>2
      <3> QED BY <1>1, <1>3, <2>2, <3>1, <3>2, <3>3, OtherCalls
    <2> QED BY <2>1, <2>2
  <1>10. VectorSound' BY <1>1 DEF SharkyIInv, VectorSound, freeVars
  <1>11. SlotsOwned'
    <2>1. /\ \A s : CarriedAt(s)' <=> CarriedAt(s) \/ s = loc[1]
          /\ \A d \in Clients : calls'[d].op \in {"written", "release"} => calls'[d].slot \in 0 .. (slotCount' - 1)
          /\ \A d, e \in Clients, s \in Nat : Carries(d, s)' /\ Carries(e, s)' => d = e
      BY <1>1, <1>3, <1>4, CarryBegins DEF freeVars
    <2>2. \A k \in inUse : k[1] = loc[1] => k = loc BY DEF SharkyIInv, FileSound
    <2>3. ~HeldAt(loc[1])' BY <1>1, <2>2 DEF HeldAt
    <2>4. \A s : s # loc[1] => (HeldAt(s)' <=> HeldAt(s)) BY <1>1 DEF HeldAt
    <2>5. HeldAt(loc[1]) /\ OwnedOnce(loc[1]) BY <1>4 DEF HeldAt, SlotsOwned
    <2>6. OwnedOnce(loc[1])' BY <1>1, <2>1, <2>3, <2>5 DEF OwnedOnce, freeVars
    <2>7. \A s \in 0 .. (slotCount' - 1) : OwnedOnce(s)'
      BY <1>1, <1>4, <2>1, <2>4, <2>6, SlotMoves DEF freeVars
    <2> QED BY <1>1, <1>4, <2>1, <2>7 DEF SlotsOwned, freeVars
  <1> QED BY <1>1, <1>6, <1>7, <1>8, <1>9, <1>10, <1>11 DEF SharkyIInv

\* Write returns: the slot goes from the call to the location.
LEMMA WriteReturned ==
  ASSUME SharkyIInv, NEW c \in Clients, WriteReturns(c)
  PROVE  SharkyIInv'
  <1>0. PICK x, b : x = calls[c].slot /\ b = calls[c].blob OBVIOUS
  <1>1. /\ calls[c].op = "written" /\ calls[c].val # Torn /\ calls' = [calls EXCEPT ![c] = Idle]
        /\ inUse' = inUse \cup {<<x, b>>}
        /\ UNCHANGED <<status, freeVars, sp, sh, limbo, in, file, saved, lost, writes>>
    BY <1>0 DEF WriteReturns
  <1>2. /\ status # "down" /\ b \in Nat /\ b <= writes /\ writes \in Nat
        /\ b >= 1 /\ \A d \in Clients : c # d => calls[d].blob # b
    BY <1>0, <1>1, CallKnown, BlobApart
  <1>3. x \in DOMAIN file /\ file[x] = b
    <2>1. WroteIt(c) BY DEF SharkyIInv, CallSound
    <2> QED BY <1>0, <1>1, <2>1 DEF WroteIt
  <1>4. SlotsOwned /\ slotCount \in Nat /\ x \in 0 .. (slotCount - 1) /\ ~HeldAt(x)
    BY <1>0, <1>1, <1>2, SlotKnown
  <1>5. calls' \in [Clients -> CallRecords] /\ \A d \in Clients : CallSound(d)'
    <2>1. \A k \in inUse' : k \in inUse \/ k[2] = b BY <1>1
    <2>2. \A k \in inUse' : k \in inUse \/ \A d \in Clients : d # c => k[2] # calls[d].blob BY <1>2, <2>1
    <2> QED BY <1>1, <2>2, EndSound
  <1>6. SharkyTyped' BY <1>1, <1>2, <1>4, <1>5 DEF SharkyIInv, SharkyTyped, freeVars
  <1>7. Phases'
    <2>1. \A d \in Clients : calls'[d].op # "idle" => calls'[d].op = calls[d].op
      BY <1>1, NoCall, CallChanges DEF SharkyIInv
    <2> QED BY <1>1, <1>2, <2>1 DEF SharkyIInv, Phases, freeVars
  <1>8. FileSound'
    <2>1. \A k \in inUse : k[1] # x BY <1>4 DEF HeldAt
    <2>2. <<x, b>>[1] = x /\ <<x, b>>[2] = b OBVIOUS
    <2> QED BY <1>1, <1>2, <1>3, <2>1, <2>2 DEF SharkyIInv, FileSound
  <1>9. VectorSound' BY <1>1 DEF SharkyIInv, VectorSound, freeVars
  <1>10. SlotsOwned'
    <2>1. /\ \A s \in Nat : CarriedAt(s)' <=> CarriedAt(s) /\ s # x
          /\ \A d \in Clients : calls'[d].op \in {"written", "release"} => calls'[d].slot \in 0 .. (slotCount' - 1)
          /\ \A d, e \in Clients, s \in Nat : Carries(d, s)' /\ Carries(e, s)' => d = e
      BY <1>0, <1>1, <1>4, CarryEnds DEF freeVars
    <2>2. \A s : HeldAt(s)' <=> HeldAt(s) \/ s = x
      <3>1. <<x, b>> \in inUse' /\ <<x, b>>[1] = x /\ \A k \in inUse : k \in inUse' BY <1>1
      <3>2. \A k \in inUse' : k \in inUse \/ k[1] = x BY <1>1
      <3> QED BY <3>1, <3>2 DEF HeldAt
    <2>3. CarriedAt(x) /\ OwnedOnce(x) BY <1>0, <1>1, <1>4 DEF CarriedAt, Carries, SlotsOwned
    <2>4. OwnedOnce(x)' BY <1>1, <1>4, <2>1, <2>2, <2>3, SMTT(40) DEF OwnedOnce, freeVars
    <2>5. \A s \in 0 .. (slotCount' - 1) : OwnedOnce(s)'
      BY <1>1, <1>4, <2>1, <2>2, <2>4, SlotMoves DEF freeVars
    <2> QED BY <1>1, <1>4, <2>1, <2>5 DEF SlotsOwned, freeVars
  <1> QED BY <1>1, <1>5, <1>6, <1>7, <1>8, <1>9, <1>10 DEF SharkyIInv

\* A call gives up with a slot in its hands: the slot is lost.
LEMMA SlotIsLost ==
  ASSUME SharkyIInv, NEW c \in Clients, calls[c].op \in {"written", "release"},
         calls' = [calls EXCEPT ![c] = Idle], lost' = lost \cup {calls[c].slot},
         UNCHANGED <<status, freeVars, sp, sh, limbo, in, file, saved, inUse, writes>>
  PROVE  SharkyIInv'
  <1>0. PICK x : x = calls[c].slot OBVIOUS
  <1>2. status # "down" BY CallKnown
  <1>4. SlotsOwned /\ slotCount \in Nat /\ x \in 0 .. (slotCount - 1) BY <1>0, <1>2, SlotKnown
  <1>5. calls' \in [Clients -> CallRecords] /\ \A d \in Clients : CallSound(d)'
    <2>1. (\A k \in inUse' : k \in inUse) /\ file' = file /\ sh' = sh /\ writes' = writes OBVIOUS
    <2> QED BY <2>1, EndSound
  <1>6. SharkyTyped'
    <2>1. lost \subseteq Nat /\ x \in Nat BY <1>4 DEF SharkyIInv, SharkyTyped
    <2>2. lost' \subseteq Nat BY <1>0, <2>1
    <2> QED BY <1>5, <2>2 DEF SharkyIInv, SharkyTyped, freeVars
  <1>7. Phases'
    <2>1. \A d \in Clients : calls'[d].op # "idle" => calls'[d].op = calls[d].op
      BY NoCall, CallChanges DEF SharkyIInv
    <2> QED BY <1>2, <2>1 DEF SharkyIInv, Phases, freeVars
  <1>8. FileSound' BY DEF SharkyIInv, FileSound
  <1>9. VectorSound' BY DEF SharkyIInv, VectorSound, freeVars
  <1>10. SlotsOwned'
    <2>1. /\ \A s \in Nat : CarriedAt(s)' <=> CarriedAt(s) /\ s # x
          /\ \A d \in Clients : calls'[d].op \in {"written", "release"} => calls'[d].slot \in 0 .. (slotCount' - 1)
          /\ \A d, e \in Clients, s \in Nat : Carries(d, s)' /\ Carries(e, s)' => d = e
      BY <1>0, <1>4, CarryEnds DEF freeVars
    <2>2. \A s : HeldAt(s)' <=> HeldAt(s) BY DEF HeldAt
    <2>3. CarriedAt(x) /\ OwnedOnce(x) BY <1>0, <1>4 DEF CarriedAt, Carries, SlotsOwned
    <2>4. OwnedOnce(x)' BY <1>0, <1>4, <2>1, <2>2, <2>3, SMTT(40) DEF OwnedOnce, freeVars
    <2>5. \A s \in 0 .. (slotCount' - 1) : OwnedOnce(s)'
      BY <1>0, <1>4, <2>1, <2>2, <2>4, SlotMoves DEF freeVars
    <2> QED BY <1>0, <1>4, <2>1, <2>5 DEF SlotsOwned, freeVars
  <1> QED BY <1>5, <1>6, <1>7, <1>8, <1>9, <1>10 DEF SharkyIInv

\* Write, Read and Release give up, and Read returns.
LEMMA CallFailed ==
  ASSUME SharkyIInv, NEW c \in Clients,
         ShardWriteFails(c) \/ ReleaseFails(c) \/ ReadReturns(c) \/ ReadFails(c)
  PROVE  SharkyIInv'
  <1>1. CASE ReadReturns(c) \/ ReadFails(c)
    <2>1. OnlyCallEnds(c) BY <1>1 DEF ReadReturns, ReadFails, OnlyCallEnds
    <2>2. calls[c].op \in {"read", "reading", "fetched"} BY <1>1 DEF ReadReturns, ReadFails
    <2> QED BY <2>1, <2>2, QuietReturn
  <1>2. CASE ReleaseFails(c)
    <2>1. /\ calls[c].op = "release" /\ calls' = [calls EXCEPT ![c] = Idle] /\ lost' = lost \cup {calls[c].slot}
          /\ UNCHANGED <<status, freeVars, sp, sh, limbo, in, file, saved, inUse, writes>>
      BY <1>2 DEF ReleaseFails
    <2> QED BY <2>1, SlotIsLost
  <1>3. CASE ShardWriteFails(c)
    <2>1. /\ calls[c].op \in {"write", "written"} /\ calls' = [calls EXCEPT ![c] = Idle]
          /\ lost' = lost \cup ({calls[c].slot} \ {NoSlot})
          /\ UNCHANGED <<status, freeVars, sp, sh, limbo, in, file, saved, inUse, writes>>
      BY <1>3 DEF ShardWriteFails
    <2>2. CASE calls[c].op = "write"
      <3>1. calls[c].slot = NoSlot BY <2>2, CallKnown
      <3>2. lost' = lost BY <2>1, <3>1
      <3>3. OnlyCallEnds(c) BY <2>1, <3>2 DEF OnlyCallEnds
      <3> QED BY <2>2, <3>3, QuietReturn
    <2>3. CASE calls[c].op = "written"
      <3>1. status # "down" BY <2>3, CallKnown
      <3>2. calls[c].slot # NoSlot BY <2>3, <3>1, SlotKnown
      <3>3. lost' = lost \cup {calls[c].slot} BY <2>1, <3>2
      <3> QED BY <2>1, <2>3, <3>3, SlotIsLost
    <2> QED BY <2>1, <2>2, <2>3
  <1> QED BY <1>1, <1>2, <1>3
==============================================================================
