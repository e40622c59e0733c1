---------------------------- MODULE SharkyProofs ----------------------------
(***************************************************************************)
(* Proofs about a shard of the blob store: a slot is never in two hands, a *)
(* reader gets what is in its location, and the store implements BlobStore *)
(* through any number of calls, shutdowns, crashes and recoveries.         *)
(***************************************************************************)
EXTENDS SharkyCalls

-----------------------------------------------------------------------------
(* Slots come back and are taken                                           *)

\* The vector after a slot comes back to it.
LEMMA PushKeeps ==
  ASSUME SharkyIInv, NEW i \in 0 .. (slotCount - 1), push(i)
  PROVE  /\ slotCount' = slotCount /\ freeSlots' = freeSlots \cup {i}
         /\ slotCount' \in Nat /\ head' \in 0 .. slotCount'
         /\ \A s \in freeSlots' : s \in 0 .. (slotCount' - 1)
         /\ VectorSound'
  <1>1. /\ slotCount' = slotCount /\ freeSlots' = freeSlots \cup {i}
        /\ head' = IF head > i THEN i ELSE head
    BY DEF push
  <1>2. slotCount \in Nat /\ head \in 0 .. slotCount /\ \A s \in freeSlots : s \in 0 .. (slotCount - 1)
    BY DEF SharkyIInv, SharkyTyped
  <1>3. head' \in 0 .. slotCount' /\ \A s \in freeSlots' : s \in 0 .. (slotCount' - 1) BY <1>1, <1>2
  <1>4. VectorSound' BY <1>1, <1>2 DEF SharkyIInv, VectorSound
  <1> QED BY <1>1, <1>2, <1>3, <1>4

\* slots.process receives a released slot.
LEMMA ReleaseReceived ==
  ASSUME SharkyIInv, NEW c \in Clients, ReceiveRelease(c)
  PROVE  SharkyIInv'
  <1>0. PICK x : x = calls[c].slot OBVIOUS
  <1>1. /\ calls[c].op = "release" /\ sp.pc # "done" /\ calls' = [calls EXCEPT ![c] = Idle] /\ push(x)
        /\ UNCHANGED <<status, sp, sh, limbo, in, file, saved, inUse, lost, writes>>
    BY <1>0 DEF ReceiveRelease
  <1>2. status # "down" /\ status # "closed" BY <1>1, CallKnown DEF SharkyIInv, Phases
  <1>4. SlotsOwned /\ slotCount \in Nat /\ x \in 0 .. (slotCount - 1) BY <1>0, <1>1, <1>2, SlotKnown
  <1>5. calls' \in [Clients -> CallRecords] /\ \A d \in Clients : CallSound(d)'
    <2>1. (\A k \in inUse' : k \in inUse) /\ file' = file /\ sh' = sh /\ writes' = writes BY <1>1
    <2> QED BY <1>1, <2>1, EndSound
  <1>11. /\ slotCount' = slotCount /\ freeSlots' = freeSlots \cup {x}
         /\ slotCount' \in Nat /\ head' \in 0 .. slotCount'
         /\ \A s \in freeSlots' : s \in 0 .. (slotCount' - 1)
         /\ VectorSound'
    BY <1>1, <1>4, PushKeeps
  <1>6. SharkyTyped' BY <1>1, <1>5, <1>11 DEF SharkyIInv, SharkyTyped
  <1>7. Phases'
    <2>1. \A d \in Clients : calls'[d].op # "idle" => calls'[d].op = calls[d].op
      BY <1>1, NoCall, CallChanges DEF SharkyIInv
    <2> QED BY <1>1, <1>2, <2>1 DEF SharkyIInv, Phases
  <1>8. FileSound' BY <1>1 DEF SharkyIInv, FileSound
  <1>10. SlotsOwned'
    <2>1. /\ \A s \in Nat : CarriedAt(s)' <=> CarriedAt(s) /\ s # x
          /\ \A d \in Clients : calls'[d].op \in {"written", "release"} => calls'[d].slot \in 0 .. (slotCount' - 1)
          /\ \A d, e \in Clients, s \in Nat : Carries(d, s)' /\ Carries(e, s)' => d = e
      BY <1>0, <1>1, <1>4, <1>11, CarryEnds
    <2>2. \A s : HeldAt(s)' <=> HeldAt(s) BY <1>1 DEF HeldAt
    <2>3. CarriedAt(x) /\ OwnedOnce(x) BY <1>0, <1>1, <1>4 DEF CarriedAt, Carries, SlotsOwned
    <2>4. OwnedOnce(x)' BY <1>1, <1>4, <1>11, <2>1, <2>2, <2>3 DEF OwnedOnce
    <2>5. \A s \in 0 .. (slotCount' - 1) : OwnedOnce(s)'
      BY <1>1, <1>4, <1>11, <2>1, <2>2, <2>4, SlotMoves
    <2> QED BY <1>1, <1>4, <1>11, <2>1, <2>5 DEF SlotsOwned
  <1> QED BY <1>2, <1>5, <1>6, <1>7, <1>8, <1>11, <1>10 DEF SharkyIInv

\* The calls and the locations have what they had.
LEMMA OutsideStays ==
  ASSUME SlotsOwned, calls' = calls, inUse' = inUse, slotCount' \in Nat, slotCount \in Nat, slotCount' >= slotCount
  PROVE  /\ \A s : (CarriedAt(s)' <=> CarriedAt(s)) /\ (HeldAt(s)' <=> HeldAt(s))
         /\ \A d \in Clients : calls'[d].op \in {"written", "release"} => calls'[d].slot \in 0 .. (slotCount' - 1)
         /\ \A loc \in inUse' : loc[1] \in 0 .. (slotCount' - 1)
         /\ \A d, e \in Clients, s \in Nat : Carries(d, s)' /\ Carries(e, s)' => d = e
  <1>1. \A s : \A d \in Clients : Carries(d, s)' <=> Carries(d, s) BY DEF Carries
  <1>2. \A s : (CarriedAt(s)' <=> CarriedAt(s)) /\ (HeldAt(s)' <=> HeldAt(s)) BY <1>1 DEF CarriedAt, HeldAt
  <1>3. \A s \in 0 .. (slotCount - 1) : s \in 0 .. (slotCount' - 1) BY RangeGrows
  <1>4. \A d \in Clients : calls'[d].op \in {"written", "release"} => calls'[d].slot \in 0 .. (slotCount' - 1)
    BY <1>3 DEF SlotsOwned
  <1>5. \A loc \in inUse' : loc[1] \in 0 .. (slotCount' - 1) BY <1>3 DEF SlotsOwned
  <1>6. \A d, e \in Clients, s \in Nat : Carries(d, s)' /\ Carries(e, s)' => d = e
    BY <1>1 DEF SlotsOwned
  <1> QED BY <1>2, <1>4, <1>5, <1>6

\* shard.process returns: the slot it took goes into limbo.
LEMMA ShardQuitKeeps ==
  ASSUME SharkyIInv, ShardQuits
  PROVE  SharkyIInv'
  <1>0. PICK x : x = sh.slot OBVIOUS
  <1>1. /\ status # "open" /\ sh.pc # "done" /\ limbo' = x
        /\ sh' = [pc |-> "done", slot |-> NoSlot, reader |-> {}, val |-> NoBlob]
        /\ UNCHANGED <<status, freeVars, sp, in, file, saved, calls, inUse, lost, writes>>
    BY <1>0 DEF ShardQuits, quit
  <1>2. /\ status # "down" /\ status # "closed" /\ limbo = NoSlot /\ sp.pc = "run" /\ in = "open"
        /\ x \in Nat \cup {NoSlot}
    BY <1>0, <1>1 DEF SharkyIInv, Phases, SharkyTyped, ShardRecords
  <1>3. sh' \in ShardRecords /\ sh'.pc = "done" /\ sh'.slot = NoSlot BY <1>1 DEF ShardRecords, NoBlob
  <1>4. SlotsOwned /\ slotCount \in Nat /\ NoSlot \notin 0 .. (slotCount - 1) BY <1>2, SlotKnown
  <1>5. SharkyTyped' BY <1>1, <1>2, <1>3 DEF SharkyIInv, SharkyTyped, freeVars
  <1>6. Phases' BY <1>1, <1>2, <1>3 DEF SharkyIInv, Phases, freeVars
  <1>7. FileSound' /\ \A c \in Clients : CallSound(c)' BY <1>1, <1>3, CallsStay
  <1>8. VectorSound' BY <1>1 DEF SharkyIInv, VectorSound, freeVars
  <1>9. SlotsOwned'
    <2>0. calls' = calls /\ inUse' = inUse /\ slotCount' = slotCount /\ freeSlots' = freeSlots /\ sp' = sp /\ lost' = lost
      BY <1>1 DEF freeVars
    <2>1. /\ \A s : (CarriedAt(s)' <=> CarriedAt(s)) /\ (HeldAt(s)' <=> HeldAt(s))
          /\ \A d \in Clients : calls'[d].op \in {"written", "release"} => calls'[d].slot \in 0 .. (slotCount' - 1)
          /\ \A loc \in inUse' : loc[1] \in 0 .. (slotCount' - 1)
          /\ \A d, e \in Clients, s \in Nat : Carries(d, s)' /\ Carries(e, s)' => d = e
      BY <1>4, <2>0, OutsideStays
    <2>2. \A s \in 0 .. (slotCount - 1) : OwnedOnce(s) BY <1>4 DEF SlotsOwned
    <2>3. \A s \in 0 .. (slotCount' - 1) : OwnedOnce(s)'
      BY <1>0, <1>1, <1>2, <1>3, <1>4, <2>0, <2>1, <2>2 DEF OwnedOnce
    <2> QED BY <1>0, <1>1, <1>3, <1>4, <2>0, <2>1, <2>3 DEF SlotsOwned
  <1> QED BY <1>5, <1>6, <1>7, <1>8, <1>9 DEF SharkyIInv

\* slots.process receives the slot in limbo, or takes back the one it offers.
LEMMA SlotComesBack ==
  ASSUME SharkyIInv, ReceiveLimbo \/ SlotsQuit
  PROVE  SharkyIInv'
  <1>0. PICK x : x = IF ReceiveLimbo THEN limbo ELSE sp.pending OBVIOUS
  <1>1. /\ sp.pc # "done" /\ x # NoSlot /\ push(x)
        /\ UNCHANGED <<status, sh, in, file, saved, calls, inUse, lost, writes>>
        /\ \/ x = limbo /\ limbo' = NoSlot /\ sp' = sp /\ in = "open"
           \/ /\ x = sp.pending /\ sp.pc = "run" /\ sh.pc = "done"
              /\ sp' = [pc |-> "drain", pending |-> NoSlot] /\ limbo' = limbo
    BY <1>0 DEF ReceiveLimbo, SlotsQuit, SharkyIInv, Phases
  <1>2. status # "down" /\ status # "closed" BY <1>1 DEF SharkyIInv, Phases
  <1>4. SlotsOwned /\ slotCount \in Nat /\ NoSlot \notin 0 .. (slotCount - 1) BY <1>2, SlotKnown
  <1>5. x \in 0 .. (slotCount - 1) BY <1>1, <1>4 DEF SlotsOwned
  <1>11. /\ slotCount' = slotCount /\ freeSlots' = freeSlots \cup {x}
         /\ slotCount' \in Nat /\ head' \in 0 .. slotCount'
         /\ \A s \in freeSlots' : s \in 0 .. (slotCount' - 1)
         /\ VectorSound'
    BY <1>1, <1>5, PushKeeps
  <1>6. SharkyTyped' BY <1>1, <1>11 DEF SharkyIInv, SharkyTyped
  <1>7. Phases' BY <1>1, <1>2 DEF SharkyIInv, Phases
  <1>8. FileSound' /\ \A c \in Clients : CallSound(c)' BY <1>1, CallsStay
  <1>9. SlotsOwned'
    <2>1. /\ \A s : (CarriedAt(s)' <=> CarriedAt(s)) /\ (HeldAt(s)' <=> HeldAt(s))
          /\ \A d \in Clients : calls'[d].op \in {"written", "release"} => calls'[d].slot \in 0 .. (slotCount' - 1)
          /\ \A loc \in inUse' : loc[1] \in 0 .. (slotCount' - 1)
          /\ \A d, e \in Clients, s \in Nat : Carries(d, s)' /\ Carries(e, s)' => d = e
      BY <1>1, <1>4, <1>11, OutsideStays
    <2>2. \A s \in 0 .. (slotCount - 1) : OwnedOnce(s) BY <1>4 DEF SlotsOwned
    <2>3. sh' = sh /\ lost' = lost BY <1>1
    <2>4. CASE x = limbo /\ limbo' = NoSlot /\ sp' = sp
      <3>1. \A s \in 0 .. (slotCount' - 1) : OwnedOnce(s)'
        BY <1>4, <1>11, <2>1, <2>2, <2>3, <2>4 DEF OwnedOnce
      <3> QED BY <1>4, <1>11, <2>1, <2>3, <2>4, <3>1 DEF SlotsOwned
    <2>5. CASE x = sp.pending /\ sp' = [pc |-> "drain", pending |-> NoSlot] /\ limbo' = limbo
      <3>1. \A s \in 0 .. (slotCount' - 1) : OwnedOnce(s)'
        BY <1>4, <1>11, <2>1, <2>2, <2>3, <2>5 DEF OwnedOnce
      <3> QED BY <1>4, <1>11, <2>1, <2>3, <2>5, <3>1 DEF SlotsOwned
    <2> QED BY <1>1, <2>4, <2>5
  <1> QED BY <1>6, <1>7, <1>8, <1>9, <1>11 DEF SharkyIInv

\* The shard takes the slot that is offered, and slots.process offers the next.
LEMMA SlotTaken ==
  ASSUME SharkyIInv, TakeSlot
  PROVE  SharkyIInv'
  <1>0. PICK p, h, sz, fr : p = sp.pending /\ h = head /\ sz = slotCount /\ fr = freeSlots OBVIOUS
  <1>1. /\ sh.pc = "select" /\ sh.slot = NoSlot /\ sp.pc = "run"
        /\ sh' = [sh EXCEPT !.slot = p] /\ sp' = [sp EXCEPT !.pending = h]
        /\ UNCHANGED <<status, limbo, in, file, saved, calls, inUse, lost, writes>>
    BY <1>0 DEF TakeSlot
  <1>2. /\ freeSlots' = PopFree(h, fr, sz) /\ slotCount' = PopSize(h, sz)
        /\ head' = next(h + 1, PopFree(h, fr, sz), PopSize(h, sz))
    BY <1>0 DEF TakeSlot, pop, popped
  <1>3. /\ status # "down" /\ status # "closed" /\ limbo = NoSlot /\ in = "open" /\ p # NoSlot
        /\ sz \in Nat /\ (\A i \in fr : i \in 0 .. (sz - 1)) /\ (h = sz \/ h \in fr)
    BY <1>0, <1>1 DEF SharkyIInv, Phases, SharkyTyped, VectorSound
  <1>4. /\ SlotsOwned /\ NoSlot \notin 0 .. (sz - 1) /\ p \in 0 .. (sz - 1)
        /\ \A s \in 0 .. (sz - 1) : OwnedOnce(s)
    <2>1. SlotsOwned BY <1>3, SlotKnown
    <2> QED BY <1>0, <1>3, <2>1, SlotKnown DEF SlotsOwned
  <1>5. /\ slotCount' \in Nat /\ sz <= slotCount' /\ h \in 0 .. (slotCount' - 1)
        /\ \A s : s \in freeSlots' <=>
              s \in 0 .. (slotCount' - 1) /\ s # h /\ (s \in fr \/ s >= sz)
        /\ head' \in 0 .. slotCount' /\ (head' = slotCount' \/ head' \in freeSlots')
    BY <1>2, <1>3, PopTakes
  <1>6. /\ sh' \in ShardRecords /\ sh'.pc = "select" /\ sh'.slot = p
        /\ sp' \in [pc : {"run", "drain", "done"}, pending : Nat \cup {NoSlot}] /\ sp'.pc = "run" /\ sp'.pending = h
    <2>1. p \in Nat \cup {NoSlot} /\ h \in Nat \cup {NoSlot} BY <1>4, <1>5
    <2> QED BY <1>1, <2>1 DEF SharkyIInv, SharkyTyped, ShardRecords
  <1>7. SharkyTyped' BY <1>1, <1>5, <1>6 DEF SharkyIInv, SharkyTyped
  <1>8. Phases'
    <2>1. h # NoSlot BY <1>5 DEF NoSlot
    <2> QED BY <1>1, <1>3, <1>6, <2>1 DEF SharkyIInv, Phases
  <1>9. FileSound' /\ \A c \in Clients : CallSound(c)'
    <2>1. \A c \in Clients : calls[c].op # "reading" BY <1>1, ReaderAlone
    <2> QED BY <1>1, <2>1, CallsStay
  <1>10. VectorSound'
    <2>1. \E k \in Nat : slotCount' = k * ByteSlots
      BY <1>0, <1>2, <1>3, ByteMore DEF SharkyIInv, VectorSound
    <2> QED BY <1>5, <2>1 DEF VectorSound
  <1>11. SlotsOwned'
    <2>1. /\ \A s : (CarriedAt(s)' <=> CarriedAt(s)) /\ (HeldAt(s)' <=> HeldAt(s))
          /\ \A d \in Clients : calls'[d].op \in {"written", "release"} => calls'[d].slot \in 0 .. (slotCount' - 1)
          /\ \A loc \in inUse' : loc[1] \in 0 .. (slotCount' - 1)
          /\ \A d, e \in Clients, s \in Nat : Carries(d, s)' /\ Carries(e, s)' => d = e
      BY <1>0, <1>1, <1>3, <1>4, <1>5, OutsideStays
    <2>2. limbo' = NoSlot /\ lost' = lost BY <1>1, <1>3
    <2>3. \A s : CarriedAt(s) \/ HeldAt(s) \/ s \in lost => s \in 0 .. (sz - 1)
      BY <1>0, <1>4 DEF SlotsOwned, CarriedAt, Carries, HeldAt
    <2>4. ASSUME NEW s \in 0 .. (slotCount' - 1) PROVE OwnedOnce(s)'
      <3>1. s # NoSlot /\ s \in Nat BY <1>5 DEF NoSlot
      <3>2. CASE s \in 0 .. (sz - 1)
        <4>1. OwnedOnce(s) BY <1>4, <3>2
        <4>2. s \in freeSlots' <=> s # h /\ s \in fr BY <1>3, <1>5, <3>2
        <4> QED BY <1>0, <1>1, <1>3, <1>6, <2>1, <2>2, <3>1, <3>2, <4>1, <4>2 DEF OwnedOnce
      <3>3. CASE s \notin 0 .. (sz - 1)
        <4>3. s >= sz BY <1>3, <1>5, <3>3, RangeGrows
        <4>1. s \in freeSlots' <=> s # h BY <1>5, <4>3
        <4>2. ~CarriedAt(s) /\ ~HeldAt(s) /\ s \notin lost /\ s # p BY <1>4, <2>3, <3>3
        <4> QED BY <1>6, <2>1, <2>2, <3>1, <4>1, <4>2 DEF OwnedOnce
      <3> QED BY <3>2, <3>3
    <2>5. \A s \in 0 .. (sz - 1) : s \in 0 .. (slotCount' - 1) BY <1>3, <1>5, RangeGrows
    <2>6. \A s \in lost' : s \in 0 .. (slotCount' - 1) BY <2>2, <2>3, <2>5
    <2>7. \A s \in {sp'.pending, sh'.slot, limbo'} : s = NoSlot \/ s \in 0 .. (slotCount' - 1)
      BY <1>4, <1>5, <1>6, <2>2, <2>5
    <2> QED BY <2>1, <2>4, <2>6, <2>7 DEF SlotsOwned
  <1> QED BY <1>7, <1>8, <1>9, <1>10, <1>11 DEF SharkyIInv

\* The shard takes a write: the slot it has goes to the call, with the blob or what is left of it.
LEMMA WriteTaken ==
  ASSUME SharkyIInv, NEW c \in Clients, NEW b, TakeWrite(c, b)
  PROVE  SharkyIInv'
  <1>0. PICK x : x = sh.slot OBVIOUS
  <1> DEFINE q == [calls[c] EXCEPT !.op = "written", !.slot = x, !.val = b]
  <1>1. /\ sh.pc = "select" /\ x # NoSlot /\ calls[c].op = "write" /\ b \in {calls[c].blob, Torn}
        /\ file' = [s \in DOMAIN file \cup {x} |-> IF s = x THEN b ELSE file[s]]
        /\ calls' = [calls EXCEPT ![c] = q] /\ sh' = [sh EXCEPT !.slot = NoSlot]
        /\ UNCHANGED <<status, freeVars, sp, limbo, in, saved, inUse, lost, writes>>
    BY <1>0 DEF TakeWrite
  <1>2. /\ status # "down" /\ status # "closed" /\ calls[c] \in CallRecords /\ writes \in Nat
        /\ calls[c].blob \in Nat /\ calls[c].blob <= writes
    BY <1>1, CallKnown DEF SharkyIInv, Phases
  <1>3. /\ SlotsOwned /\ slotCount \in Nat /\ NoSlot \notin 0 .. (slotCount - 1)
        /\ x \in 0 .. (slotCount - 1) /\ OwnedOnce(x)
    <2>1. SlotsOwned /\ slotCount \in Nat /\ NoSlot \notin 0 .. (slotCount - 1) BY <1>2, SlotKnown
    <2> QED BY <1>0, <1>1, <2>1 DEF SlotsOwned
  <1>4. ~CarriedAt(x) /\ ~HeldAt(x) BY <1>0, <1>3 DEF OwnedOnce
  <1>5. b \in Int /\ x \in Nat BY <1>1, <1>2, <1>3 DEF Torn
  <1>6. /\ q \in CallRecords /\ q.op = "written" /\ q.slot = x
        /\ q.blob = calls[c].blob /\ q.val = b
    BY <1>2, <1>5 DEF CallRecords
  <1> HIDE DEF q
  <1>7. /\ calls' \in [Clients -> CallRecords] /\ calls'[c] = q
        /\ \A d \in Clients : d # c => calls'[d] = calls[d]
    BY <1>1, <1>6, CallChanges DEF SharkyIInv
  <1>8. sh' \in ShardRecords /\ sh'.pc = "select" /\ sh'.slot = NoSlot
    BY <1>1 DEF SharkyIInv, SharkyTyped, ShardRecords
  <1>9. SharkyTyped' BY <1>1, <1>7, <1>8 DEF SharkyIInv, SharkyTyped, freeVars
  <1>10. Phases' BY <1>1, <1>2, <1>8 DEF SharkyIInv, Phases, freeVars
  <1>11. /\ DOMAIN file' = DOMAIN file \cup {x} /\ file'[x] = b
         /\ \A s \in DOMAIN file : s # x => file'[s] = file[s]
    BY <1>1
  <1>12. FileSound'
    <2>1. file' \in [DOMAIN file' -> Int]
      <3>1. \A s \in DOMAIN file : file[s] \in Int BY DEF SharkyIInv, FileSound
      <3> QED BY <1>1, <1>5, <3>1
    <2>2. \E n \in Nat : DOMAIN file' \subseteq 0 .. n
      <3>1. PICK m \in Nat : DOMAIN file \subseteq 0 .. m BY DEF SharkyIInv, FileSound
      <3>2. m + x \in Nat /\ x \in 0 .. (m + x) /\ \A s \in 0 .. m : s \in 0 .. (m + x) BY <1>5
      <3> QED BY <1>11, <3>1, <3>2
    <2>3. \A loc \in inUse' : loc[1] \in DOMAIN file' /\ file'[loc[1]] = loc[2] /\ loc[2] \in 1 .. writes'
      <3>1. \A loc \in inUse : loc[1] # x BY <1>4 DEF HeldAt
      <3> QED BY <1>1, <1>11, <3>1 DEF SharkyIInv, FileSound
    <2>4. \A k, l \in inUse' : k[1] = l[1] => k = l BY <1>1 DEF SharkyIInv, FileSound
    <2> QED BY <2>1, <2>2, <2>3, <2>4 DEF FileSound
  <1>13. ASSUME NEW d \in Clients PROVE CallSound(d)'
    <2>1. CASE d = c
      <3>1. BlobOwn(c)'
        <4>1. calls[c].blob >= 1 /\ \A e \in Clients : c # e => calls[e].blob # calls[c].blob BY <1>1, BlobApart
        <4>2. \A loc \in inUse' : loc[2] # calls[c].blob BY <1>1, BlobApart
        <4> QED BY <1>6, <1>7, <4>1, <4>2 DEF BlobOwn
      <3>2. WroteIt(c)' BY <1>1, <1>6, <1>7, <1>11 DEF WroteIt
      <3>3. ReadSound(c)' BY <1>6, <1>7 DEF ReadSound
      <3> QED BY <1>1, <1>2, <1>6, <1>7, <2>1, <3>1, <3>2, <3>3 DEF CallSound
    <2>2. CASE d # c
      <3>1. \A e \in Clients : e # c /\ calls[e].op \in {"write", "written"} => q.blob # calls[e].blob
        BY <1>6, BlobApart
      <3>2. \A e \in Clients : calls[e].op # "reading" BY <1>1, ReaderAlone
      <3>3. \A e \in Clients : calls[e].op = "written" => calls[e].slot \in DOMAIN file /\ calls[e].slot # x
        <4> SUFFICES ASSUME NEW e \in Clients, calls[e].op = "written"
                     PROVE  calls[e].slot \in DOMAIN file /\ calls[e].slot # x
          OBVIOUS
        <4>1. CallSound(e) BY DEF SharkyIInv
        <4> QED BY <1>4, <4>1 DEF CallSound, WroteIt, CarriedAt, Carries
      <3>4. \A e \in Clients : calls[e].op = "written" => file'[calls[e].slot] = file[calls[e].slot]
        BY <1>11, <3>3
      <3>5. writes' \in Nat /\ writes' >= writes /\ inUse' = inUse /\ DOMAIN file \subseteq DOMAIN file'
        BY <1>1, <1>2, <1>11
      <3> QED BY <1>1, <1>6, <2>2, <3>1, <3>2, <3>4, <3>5, OtherCalls
    <2> QED BY <2>1, <2>2
  <1>14. VectorSound' BY <1>1 DEF SharkyIInv, VectorSound, freeVars
  <1>15. SlotsOwned'
    <2>0. slotCount' = slotCount /\ freeSlots' = freeSlots /\ sp' = sp /\ limbo' = limbo /\ lost' = lost /\ inUse' = inUse
      BY <1>1 DEF freeVars
    <2>1. /\ \A s : CarriedAt(s)' <=> CarriedAt(s) \/ s = x
          /\ \A d \in Clients : calls'[d].op \in {"written", "release"} => calls'[d].slot \in 0 .. (slotCount' - 1)
          /\ \A d, e \in Clients, s \in Nat : Carries(d, s)' /\ Carries(e, s)' => d = e
      BY <1>1, <1>3, <1>4, <1>6, <2>0, CarryBegins
    <2>2. \A s : HeldAt(s)' <=> HeldAt(s) BY <2>0 DEF HeldAt
    <2>3. OwnedOnce(x)' BY <1>0, <1>1, <1>3, <1>4, <1>8, <2>0, <2>1, <2>2 DEF OwnedOnce
    <2>4. \A s \in 0 .. (slotCount' - 1) : OwnedOnce(s)'
      BY <1>0, <1>3, <1>8, <2>0, <2>1, <2>2, <2>3, SlotMoves
    <2> QED BY <1>3, <1>8, <2>0, <2>1, <2>4 DEF SlotsOwned
  <1> QED BY <1>9, <1>10, <1>12, <1>13, <1>14, <1>15 DEF SharkyIInv

-----------------------------------------------------------------------------
(* Crash and start                                                         *)

\* Nobody is in a call.
LEMMA NobodyCalls ==
  ASSUME calls' = [c \in Clients |-> Idle], writes' \in Nat
  PROVE  /\ calls' \in [Clients -> CallRecords]
         /\ \A c \in Clients : calls'[c] = Idle /\ calls'[c].op = "idle" /\ CallSound(c)'
         /\ \A s : ~CarriedAt(s)' /\ \A c \in Clients : ~Carries(c, s)'
  <1>1. calls' \in [Clients -> CallRecords] /\ \A c \in Clients : calls'[c] = Idle BY NoCall
  <1>2. \A c \in Clients : calls'[c].op = "idle" /\ calls'[c].blob <= writes' BY <1>1, NoCall
  <1>3. \A c \in Clients : CallSound(c)' BY <1>2 DEF CallSound, BlobOwn, WroteIt, ReadSound
  <1>4. \A s : \A c \in Clients : ~Carries(c, s)' BY <1>2 DEF Carries
  <1>5. \A s : ~CarriedAt(s)' BY <1>4 DEF CarriedAt
  <1> QED BY <1>1, <1>2, <1>3, <1>4, <1>5

\* The process ends without saving.
LEMMA DeathKeeps ==
  ASSUME SharkyIInv, Dies
  PROVE  SharkyIInv'
  <1>1. /\ status' = "down" /\ calls' = [c \in Clients |-> Idle]
        /\ sp' = [pc |-> "done", pending |-> NoSlot] /\ sh' = [ShardIdle EXCEPT !.pc = "done"]
        /\ limbo' = NoSlot /\ in' = "closed"
        /\ freeSlots' = {} /\ slotCount' = 0 /\ head' = 0 /\ lost' = {}
        /\ file' = file /\ saved' = saved /\ inUse' = inUse /\ writes' = writes
    BY DEF Dies
  <1>2. sh' \in ShardRecords /\ sh'.pc = "done" /\ sh'.slot = NoSlot
    BY <1>1, ShardNew DEF ShardRecords
  <1>3. writes' \in Nat BY <1>1 DEF SharkyIInv, SharkyTyped
  <1>4. /\ calls' \in [Clients -> CallRecords]
        /\ \A c \in Clients : calls'[c] = Idle /\ calls'[c].op = "idle" /\ CallSound(c)'
    BY <1>1, <1>3, NobodyCalls
  <1>5. SharkyTyped' BY <1>1, <1>2, <1>3, <1>4 DEF SharkyIInv, SharkyTyped
  <1>6. Phases' BY <1>1, <1>2, <1>4 DEF Phases
  <1>7. FileSound' BY <1>1 DEF SharkyIInv, FileSound
  <1>8. VectorSound'
    <2>1. slotCount' = 0 * ByteSlots BY <1>1, SharkyAssumption
    <2> QED BY <1>1, <2>1 DEF VectorSound
  <1> QED BY <1>1, <1>4, <1>5, <1>6, <1>7, <1>8 DEF SharkyIInv

\* A Release panics on the closed channel, and takes the process down with it.
LEMMA PanicKeeps ==
  ASSUME SharkyIInv, NEW c \in Clients, ReleasePanics(c)
  PROVE  SharkyIInv'
  <1>1. CASE Dies BY <1>1, DeathKeeps
  <1>2. CASE ~Dies
    <2>1. /\ status = "closed" /\ calls' = [d \in Clients |-> Idle] /\ lost' = lost \cup Carried
          /\ UNCHANGED <<status, freeVars, sp, sh, limbo, in, file, saved, inUse, writes>>
      BY <1>2 DEF ReleasePanics
    <2>2. writes' \in Nat BY <2>1 DEF SharkyIInv, SharkyTyped
    <2>3. /\ calls' \in [Clients -> CallRecords]
          /\ \A d \in Clients : calls'[d] = Idle /\ calls'[d].op = "idle" /\ CallSound(d)'
          /\ \A s : ~CarriedAt(s)' /\ \A d \in Clients : ~Carries(d, s)'
      BY <2>1, <2>2, NobodyCalls
    <2>4. \A s : s \in Carried <=> CarriedAt(s) BY DEF Carried, CarriedAt, Carries
    <2>5. SlotsOwned /\ slotCount \in Nat /\ \A s \in 0 .. (slotCount - 1) : OwnedOnce(s) BY <2>1, SlotKnown DEF SlotsOwned
    <2>6. \A s \in Carried : s \in 0 .. (slotCount - 1) /\ s \in Nat
      BY <2>4, <2>5 DEF CarriedAt, Carries, SlotsOwned
    <2>7. SharkyTyped'
      <3>1. lost' \subseteq Nat BY <2>1, <2>6 DEF SharkyIInv, SharkyTyped
      <3> QED BY <2>1, <2>3, <3>1 DEF SharkyIInv, SharkyTyped, freeVars
    <2>8. Phases' BY <2>1, <2>3 DEF SharkyIInv, Phases, freeVars
    <2>9. FileSound' BY <2>1 DEF SharkyIInv, FileSound
    <2>10. VectorSound' BY <2>1 DEF SharkyIInv, VectorSound, freeVars
    <2>11. SlotsOwned'
      <3>1. /\ freeSlots' = freeSlots /\ slotCount' = slotCount /\ sp' = sp /\ sh' = sh /\ limbo' = limbo
            /\ inUse' = inUse /\ lost' = lost \cup Carried
        BY <2>1 DEF freeVars
      <3>2. \A s : HeldAt(s)' <=> HeldAt(s) BY <3>1 DEF HeldAt
      <3>3. \A s \in 0 .. (slotCount' - 1) : OwnedOnce(s)'
        BY <2>3, <2>4, <2>5, <3>1, <3>2 DEF OwnedOnce
      <3> QED BY <2>3, <2>5, <2>6, <3>1, <3>3 DEF SlotsOwned
    <2> QED BY <2>3, <2>7, <2>8, <2>9, <2>10, <2>11 DEF SharkyIInv
  <1> QED BY <1>1, <1>2

\* A store is opened on a free vector that has the slots nobody has.
LEMMA OpenedSound ==
  ASSUME SharkyIInv, NEW fr, NEW sz \in Nat, \A i \in fr : i \in 0 .. (sz - 1), \E k \in Nat : sz = k * ByteSlots,
         \A s \in 0 .. (sz - 1) : s \in fr <=> ~HeldAt(s) /\ s \notin lost,
         \A s : HeldAt(s) => s \in 0 .. (sz - 1) /\ s \notin lost, \A s \in lost : s \in 0 .. (sz - 1),
         lost' = lost, saved' \in [free : SUBSET Nat, size : Nat],
         \A s \in saved'.free : s \in 0 .. (saved'.size - 1), Opened(fr, sz)
  PROVE  SharkyIInv'
  <1>0. PICK h : h = next(0, fr, sz) OBVIOUS
  <1>1. /\ status' = "open" /\ popped(h, fr, sz) /\ sp' = [pc |-> "run", pending |-> h] /\ sh' = ShardIdle
        /\ limbo' = NoSlot /\ in' = "open" /\ calls' = [c \in Clients |-> Idle]
        /\ file' = file /\ inUse' = inUse /\ writes' = writes
    BY <1>0 DEF Opened
  <1>2. h = sz \/ h \in fr BY <1>0, NextFound
  <1>3. /\ freeSlots' = PopFree(h, fr, sz) /\ slotCount' = PopSize(h, sz)
        /\ head' = next(h + 1, PopFree(h, fr, sz), PopSize(h, sz))
    BY <1>1 DEF popped
  <1>5. /\ slotCount' \in Nat /\ sz <= slotCount' /\ h \in 0 .. (slotCount' - 1)
        /\ \A s : s \in freeSlots' <=>
              s \in 0 .. (slotCount' - 1) /\ s # h /\ (s \in fr \/ s >= sz)
        /\ head' \in 0 .. slotCount' /\ (head' = slotCount' \/ head' \in freeSlots')
    BY <1>2, <1>3, PopTakes
  <1>6. /\ sh' \in ShardRecords /\ sh'.pc = "select" /\ sh'.slot = NoSlot
        /\ sp' \in [pc : {"run", "drain", "done"}, pending : Nat \cup {NoSlot}] /\ sp'.pc = "run" /\ sp'.pending = h
    <2>1. h \in Nat BY <1>5
    <2> QED BY <1>1, <2>1, ShardNew
  <1>7. writes' \in Nat BY <1>1 DEF SharkyIInv, SharkyTyped
  <1>8. /\ calls' \in [Clients -> CallRecords]
        /\ \A d \in Clients : calls'[d] = Idle /\ calls'[d].op = "idle" /\ CallSound(d)'
        /\ \A s : ~CarriedAt(s)' /\ \A d \in Clients : ~Carries(d, s)'
    BY <1>1, <1>7, NobodyCalls
  <1>9. SharkyTyped' BY <1>1, <1>5, <1>6, <1>8 DEF SharkyIInv, SharkyTyped
  <1>10. Phases'
    <2>1. h # NoSlot BY <1>5 DEF NoSlot
    <2> QED BY <1>1, <1>6, <2>1 DEF Phases
  <1>11. FileSound' BY <1>1 DEF SharkyIInv, FileSound
  <1>12. VectorSound'
    <2>1. \E k \in Nat : slotCount' = k * ByteSlots BY <1>3, ByteMore
    <2> QED BY <1>5, <2>1 DEF VectorSound
  <1>13. SlotsOwned'
    <2>1. \A s : HeldAt(s)' <=> HeldAt(s) BY <1>1 DEF HeldAt
    <2>2. (\A s \in 0 .. (sz - 1) : s \in 0 .. (slotCount' - 1))
          /\ \A s \in 0 .. (slotCount' - 1) : s \notin 0 .. (sz - 1) => s >= sz
      BY <1>5, RangeGrows
    <2>3. ASSUME NEW s \in 0 .. (slotCount' - 1) PROVE OwnedOnce(s)'
      <3>1. s # NoSlot BY <1>5 DEF NoSlot
      <3>2. CASE s \in 0 .. (sz - 1)
        <4>1. s \in freeSlots' <=> s # h /\ s \in fr BY <1>5, <3>2
        <4>2. s \in fr <=> ~HeldAt(s) /\ s \notin lost BY <3>2
        <4>3. s = h => s \in fr BY <1>2, <3>2
        <4> QED BY <1>1, <1>6, <1>8, <2>1, <3>1, <4>1, <4>2, <4>3 DEF OwnedOnce
      <3>3. CASE s \notin 0 .. (sz - 1)
        <4>1. s \in freeSlots' <=> s # h BY <1>5, <2>2, <3>3
        <4>2. ~HeldAt(s) /\ s \notin lost BY <3>3
        <4> QED BY <1>1, <1>6, <1>8, <2>1, <3>1, <4>1, <4>2 DEF OwnedOnce
      <3> QED BY <3>2, <3>3
    <2>4. \A loc \in inUse' : loc[1] \in 0 .. (slotCount' - 1) BY <1>1, <2>2 DEF HeldAt
    <2>5. \A s \in lost' : s \in 0 .. (slotCount' - 1) BY <2>2
    <2>6. \A s \in {sp'.pending, sh'.slot, limbo'} : s = NoSlot \/ s \in 0 .. (slotCount' - 1)
      BY <1>1, <1>5, <1>6
    <2> QED BY <1>8, <2>3, <2>4, <2>5, <2>6 DEF SlotsOwned
  <1> QED BY <1>8, <1>9, <1>10, <1>11, <1>12, <1>13 DEF SharkyIInv

\* Start after a clean shutdown: what Close saved as free is what nobody has.
LEMMA StartKeeps ==
  ASSUME SharkyIInv, SharkyStart
  PROVE  SharkyIInv'
  <1>0. PICK fr, sz : fr = saved.free /\ sz = saved.size OBVIOUS
  <1>1. /\ status = "closed" /\ (\A c \in Clients : calls[c] = Idle) /\ Opened(fr, sz)
        /\ saved' = saved /\ lost' = lost
    BY <1>0 DEF SharkyStart
  <1>2. /\ fr = freeSlots /\ sz = slotCount /\ sp.pending = NoSlot /\ sh.slot = NoSlot /\ limbo = NoSlot
    BY <1>0, <1>1 DEF SharkyIInv, Phases
  <1>3. /\ sz \in Nat /\ (\A i \in fr : i \in 0 .. (sz - 1)) /\ \E k \in Nat : sz = k * ByteSlots
    BY <1>2 DEF SharkyIInv, SharkyTyped, VectorSound
  <1>4. SlotsOwned /\ NoSlot \notin 0 .. (sz - 1) /\ \A s \in 0 .. (sz - 1) : OwnedOnce(s)
    BY <1>1, <1>2, SlotKnown DEF SlotsOwned
  <1>5. \A s : ~CarriedAt(s) BY <1>1, NoCall DEF CarriedAt, Carries
  <1>6. \A s \in 0 .. (sz - 1) : (s \in fr <=> ~HeldAt(s) /\ s \notin lost) /\ (HeldAt(s) => s \notin lost)
    BY <1>2, <1>4, <1>5 DEF OwnedOnce
  <1>7. /\ \A s : HeldAt(s) => s \in 0 .. (sz - 1) /\ s \notin lost
        /\ \A s \in lost : s \in 0 .. (sz - 1)
    BY <1>2, <1>4, <1>6 DEF SlotsOwned, HeldAt
  <1>8. saved' \in [free : SUBSET Nat, size : Nat] /\ \A s \in saved'.free : s \in 0 .. (saved'.size - 1)
    BY <1>1 DEF SharkyIInv, SharkyTyped
  <1> QED BY <1>1, <1>3, <1>6, <1>7, <1>8, OpenedSound

\* The recovered vector has whole bytes and every location of the index.
LEMMA RecoveredWhole ==
  ASSUME SharkyIInv, NEW full \in Nat
  PROVE  /\ RecoveredSize(full) \in Nat /\ \E k \in Nat : RecoveredSize(full) = k * ByteSlots
         /\ \A loc \in inUse : loc[1] \in 0 .. (RecoveredSize(full) - 1)
  <1> DEFINE bytes == {full \div ByteSlots} \cup {(loc[1] \div ByteSlots) + 1 : loc \in inUse}
  <1>1. RecoveredSize(full) = Max(bytes) * ByteSlots BY DEF RecoveredSize
  <1>2. PICK m \in Nat : DOMAIN file \subseteq 0 .. m BY DEF SharkyIInv, FileSound
  <1>3. \A loc \in inUse : loc[1] \in Nat /\ loc[1] <= m BY <1>2 DEF SharkyIInv, FileSound
  <1>4. \A n \in Nat : n \div ByteSlots \in Nat /\ n \div ByteSlots <= n BY SharkyAssumption
  <1>5. \A x \in bytes : x \in Nat /\ x <= full + m + 1 BY <1>3, <1>4
  <1>6. full \div ByteSlots \in bytes /\ \A loc \in inUse : (loc[1] \div ByteSlots) + 1 \in bytes OBVIOUS
  <1> HIDE DEF bytes
  <1>7. Max(bytes) \in Nat /\ \A x \in bytes : x <= Max(bytes)
    <2>1. bytes # {} /\ bytes \subseteq Nat /\ full + m + 1 \in Nat BY <1>5, <1>6
    <2>2. \A x \in bytes : x <= full + m + 1 BY <1>5
    <2>3. Max(bytes) \in bytes /\ \A x \in bytes : x <= Max(bytes) BY <2>1, <2>2, MaxIsMember
    <2> QED BY <1>5, <2>3
  <1>8. Max(bytes) * ByteSlots \in Nat BY <1>7, SharkyAssumption
  <1>9. ASSUME NEW loc \in inUse PROVE loc[1] \in 0 .. (RecoveredSize(full) - 1)
    <2>1. loc[1] \in Nat /\ (loc[1] \div ByteSlots) + 1 <= Max(bytes) BY <1>3, <1>6, <1>7
    <2>2. loc[1] < Max(bytes) * ByteSlots BY <1>7, <2>1, ByteHolds
    <2> QED BY <1>1, <1>8, <2>1, <2>2
  <1> QED BY <1>1, <1>7, <1>8, <1>9

\* Recovery: what the index does not hold is free.
LEMMA RecoverKeeps ==
  ASSUME SharkyIInv, NEW full, SharkyRecover(full)
  PROVE  SharkyIInv'
  <1>0. PICK fr, sz : fr = RecoveredFree(RecoveredSize(full)) /\ sz = RecoveredSize(full) OBVIOUS
  <1>1. /\ status = "down" /\ full \in Nat /\ saved' = [free |-> fr, size |-> sz] /\ lost' = lost
        /\ Opened(saved'.free, saved'.size)
    BY <1>0 DEF SharkyRecover
  <1>2. saved'.free = fr /\ saved'.size = sz BY <1>1
  <1>3. Opened(fr, sz) BY <1>1, <1>2
  <1>4. /\ sz \in Nat /\ (\E k \in Nat : sz = k * ByteSlots)
        /\ \A loc \in inUse : loc[1] \in 0 .. (sz - 1)
    BY <1>0, <1>1, RecoveredWhole
  <1>5. \A s : s \in fr <=> s \in 0 .. (sz - 1) /\ ~HeldAt(s) BY <1>0 DEF RecoveredFree, HeldAt
  <1>6. lost = {} BY <1>1 DEF SharkyIInv, Phases
  <1>7. \A s : HeldAt(s) => s \in 0 .. (sz - 1) BY <1>4 DEF HeldAt
  <1>8. saved' \in [free : SUBSET Nat, size : Nat] /\ \A s \in saved'.free : s \in 0 .. (saved'.size - 1)
    <2>1. fr \subseteq Nat BY <1>4, <1>5
    <2> QED BY <1>1, <1>2, <1>4, <1>5, <2>1
  <1> QED BY <1>1, <1>3, <1>4, <1>5, <1>6, <1>7, <1>8, OpenedSound

\* A new store.
LEMMA SharkyStarts == SharkyInit => SharkyIInv
  <1> SUFFICES ASSUME SharkyInit PROVE SharkyIInv OBVIOUS
  <1>1. /\ status = "open" /\ slotCount = PopSize(0, 0) /\ freeSlots = PopFree(0, {}, 0)
        /\ head = next(1, PopFree(0, {}, 0), PopSize(0, 0))
        /\ sp = [pc |-> "run", pending |-> 0] /\ sh = ShardIdle /\ limbo = NoSlot /\ in = "open"
        /\ file = << >> /\ saved = [free |-> {}, size |-> 0] /\ calls = [c \in Clients |-> Idle]
        /\ inUse = {} /\ lost = {} /\ writes = 0
    BY DEF SharkyInit
  <1>2. /\ slotCount \in Nat /\ 0 \in 0 .. (slotCount - 1)
        /\ \A s : s \in freeSlots <=> s \in 0 .. (slotCount - 1) /\ s # 0 /\ (s \in {} \/ s >= 0)
        /\ head \in 0 .. slotCount /\ (head = slotCount \/ head \in freeSlots)
    <2>1. PICK z, fr : z = 0 /\ fr = {} OBVIOUS
    <2>2. /\ z \in Nat /\ (\A i \in fr : i \in 0 .. (z - 1))
          /\ slotCount = PopSize(z, z) /\ freeSlots = PopFree(z, fr, z)
          /\ head = next(z + 1, PopFree(z, fr, z), PopSize(z, z))
      <3>1. z + 1 = 1 BY <2>1
      <3> QED BY <1>1, <2>1, <3>1
    <2>3. /\ slotCount \in Nat /\ z \in 0 .. (slotCount - 1)
          /\ \A s : s \in freeSlots <=> s \in 0 .. (slotCount - 1) /\ s # z /\ (s \in fr \/ s >= z)
          /\ head \in 0 .. slotCount /\ (head = slotCount \/ head \in freeSlots)
      BY <2>2, PopTakes
    <2> QED BY <2>1, <2>3
  <1>3. sh \in ShardRecords /\ sh.pc = "select" /\ sh.slot = NoSlot BY <1>1, ShardNew
  <1>4. calls \in [Clients -> CallRecords] /\ \A c \in Clients : calls[c].op = "idle" /\ calls[c].blob = 0
    BY <1>1, NoCall
  <1>5. SharkyTyped BY <1>1, <1>2, <1>3, <1>4 DEF SharkyTyped
  <1>6. Phases BY <1>1, <1>3 DEF Phases, NoSlot
  <1>7. FileSound
    <2>1. DOMAIN file = {} BY <1>1
    <2>2. file \in [DOMAIN file -> Int] BY <1>1
    <2> QED BY <1>1, <2>1, <2>2 DEF FileSound
  <1>8. \A c \in Clients : CallSound(c)
    <2>1. writes = 0 BY <1>1
    <2> QED BY <1>4, <2>1 DEF CallSound, BlobOwn, WroteIt, ReadSound
  <1>9. VectorSound
    <2>1. slotCount = 1 * ByteSlots BY <1>1, SharkyAssumption DEF PopSize
    <2> QED BY <1>2, <2>1 DEF VectorSound
  <1>10. SlotsOwned
    <2>1. \A s : ~CarriedAt(s) /\ ~HeldAt(s) /\ \A c \in Clients : ~Carries(c, s)
      BY <1>1, <1>4 DEF CarriedAt, Carries, HeldAt
    <2>2. ASSUME NEW s \in 0 .. (slotCount - 1) PROVE OwnedOnce(s)
      <3>1. s # NoSlot /\ s >= 0 BY <1>2 DEF NoSlot
      <3> QED BY <1>1, <1>2, <1>3, <2>1, <3>1 DEF OwnedOnce
    <2> QED BY <1>1, <1>2, <1>3, <1>4, <2>1, <2>2 DEF SlotsOwned
  <1> QED BY <1>5, <1>6, <1>7, <1>8, <1>9, <1>10 DEF SharkyIInv

-----------------------------------------------------------------------------
(* The theorems                                                            *)

\* Every step keeps the invariant.
LEMMA SharkySteps == SharkyIInv /\ [SharkyNext]_sharkyVars => SharkyIInv'
  <1> SUFFICES ASSUME SharkyIInv, [SharkyNext]_sharkyVars PROVE SharkyIInv' OBVIOUS
  <1>1. CASE UNCHANGED sharkyVars
    <2>1. /\ UNCHANGED <<status, freeSlots, slotCount, head, sp, sh, limbo, in, file, saved, calls,
                         inUse, lost, writes>>
      BY <1>1 DEF sharkyVars
    <2>2. FileSound' /\ \A c \in Clients : CallSound(c)' BY <2>1, CallsStay
    <2>3. SharkyTyped' /\ Phases' /\ VectorSound' BY <2>1 DEF SharkyIInv, SharkyTyped, Phases, VectorSound
    <2>4. status # "down" => SlotsOwned' BY <2>1, SlotsStay DEF SharkyIInv
    <2> QED BY <2>1, <2>2, <2>3, <2>4 DEF SharkyIInv
  <1>2. ASSUME NEW c \in Clients, SharkyWrite(c) PROVE SharkyIInv' BY <1>2, WriteCalled
  <1>3. ASSUME NEW c \in Clients, CancelCall(c) PROVE SharkyIInv' BY <1>3, Cancelled
  <1>4. ASSUME NEW c \in Clients, Returns(c) PROVE SharkyIInv'
    BY <1>4, WriteReturned, CallFailed, PanicKeeps DEF Returns
  <1>5. ASSUME NEW c \in Clients, NEW loc \in inUse, Read(c, loc) \/ Release(c, loc) PROVE SharkyIInv'
    BY <1>5, ReadCalled, Released
  <1>6. CASE ShardStep
    <2>1. CASE TakeSlot \/ ReplyCancelled \/ ShardQuits BY <2>1, SlotTaken, ReplyLost, ShardQuitKeeps
    <2>2. ASSUME NEW c \in Clients, TakeRead(c) \/ Reply(c) PROVE SharkyIInv' BY <2>2, ReadTaken, Replied
    <2>3. ASSUME NEW c \in Clients, NEW b, TakeWrite(c, b) PROVE SharkyIInv' BY <2>3, WriteTaken
    <2> QED BY <1>6, <2>1, <2>2, <2>3 DEF ShardStep
  <1>7. CASE SlotsStep
    BY <1>7, SlotComesBack, ShutdownKeeps, ReleaseReceived DEF SlotsStep
  <1>8. CASE Close \/ StoreClosed BY <1>8, ShutdownKeeps
  <1>9. CASE SharkyCrash BY <1>9, DeathKeeps DEF SharkyCrash
  <1>10. CASE SharkyStart BY <1>10, StartKeeps
  <1>11. ASSUME NEW full, SharkyRecover(full) PROVE SharkyIInv' BY <1>11, RecoverKeeps
  <1> QED BY <1>1, <1>2, <1>3, <1>4, <1>5, <1>6, <1>7, <1>8, <1>9, <1>10, <1>11 DEF SharkyNext

\* A set with one member.
LEMMA OneIn ==
  ASSUME NEW S, NEW x, x \in S, \A o \in S : o = x
  PROVE  Cardinality(S) = 1
  <1>1. S = {x} OBVIOUS
  <1> QED BY <1>1, FS_Singleton

\* A slot of a store that is not down has exactly one owner.
LEMMA OwnerAlone ==
  ASSUME SharkyIInv, status # "down", NEW s \in 0 .. (slotCount - 1)
  PROVE  Cardinality(Owners(s)) = 1
  <1>1. SlotsOwned /\ OwnedOnce(s) /\ s \in Nat BY SlotKnown DEF SlotsOwned
  <1>2. \A o : o \in Owners(s) <=>
           \/ o = <<"free", s>> /\ s \in freeSlots
           \/ o = <<"pending", s>> /\ s = sp.pending
           \/ o = <<"shard", s>> /\ s = sh.slot
           \/ o = <<"limbo", s>> /\ s = limbo
           \/ o = <<"lost", s>> /\ s \in lost
           \/ \E c \in Clients : Carries(c, s) /\ o = <<"call", c>>
           \/ \E loc \in inUse : loc[1] = s /\ o = <<"held", loc[2]>>
    BY DEF Owners, Carries
  <1>3. \A c, d \in Clients : Carries(c, s) /\ Carries(d, s) => c = d BY <1>1 DEF SlotsOwned
  <1>4. \A k, l \in inUse : k[1] = s /\ l[1] = s => k = l BY DEF SharkyIInv, FileSound
  <1>5. (\A c \in Clients : ~Carries(c, s)) \/ CarriedAt(s) BY DEF CarriedAt
  <1>6. (\A loc \in inUse : loc[1] # s) \/ HeldAt(s) BY DEF HeldAt
  <1>7. Cardinality(Owners(s)) = 1
    <2>1. CASE CarriedAt(s)
      <3>1. PICK c \in Clients : Carries(c, s) BY <2>1 DEF CarriedAt
      <3>2. \A o : o \in Owners(s) <=> o = <<"call", c>>
        BY <1>1, <1>2, <1>3, <1>6, <2>1, <3>1 DEF OwnedOnce
      <3>3. <<"call", c>> \in Owners(s) /\ \A o \in Owners(s) : o = <<"call", c>> BY <3>2
      <3> QED BY <3>3, OneIn
    <2>2. CASE HeldAt(s)
      <3>1. PICK loc \in inUse : loc[1] = s BY <2>2 DEF HeldAt
      <3>2. \A o : o \in Owners(s) <=> o = <<"held", loc[2]>>
        BY <1>1, <1>2, <1>4, <1>5, <2>2, <3>1 DEF OwnedOnce
      <3>3. <<"held", loc[2]>> \in Owners(s) /\ \A o \in Owners(s) : o = <<"held", loc[2]>> BY <3>2
      <3> QED BY <3>3, OneIn
    <2>3. CASE ~CarriedAt(s) /\ ~HeldAt(s)
      <3>1. \A o : o \in Owners(s) <=>
               \/ o = <<"free", s>> /\ s \in freeSlots
               \/ o = <<"pending", s>> /\ s = sp.pending
               \/ o = <<"shard", s>> /\ s = sh.slot
               \/ o = <<"limbo", s>> /\ s = limbo
               \/ o = <<"lost", s>> /\ s \in lost
        BY <1>2, <2>3 DEF CarriedAt, HeldAt
      <3>2. CASE s \in freeSlots
        <4>1. \A o : o \in Owners(s) <=> o = <<"free", s>> BY <1>1, <3>1, <3>2 DEF OwnedOnce
        <4>2. <<"free", s>> \in Owners(s) /\ \A o \in Owners(s) : o = <<"free", s>> BY <4>1
        <4> QED BY <4>2, OneIn
      <3>3. CASE s = sp.pending
        <4>1. \A o : o \in Owners(s) <=> o = <<"pending", s>> BY <1>1, <3>1, <3>3 DEF OwnedOnce
        <4>2. <<"pending", s>> \in Owners(s) /\ \A o \in Owners(s) : o = <<"pending", s>> BY <4>1
        <4> QED BY <4>2, OneIn
      <3>4. CASE s = sh.slot
        <4>1. \A o : o \in Owners(s) <=> o = <<"shard", s>> BY <1>1, <3>1, <3>4 DEF OwnedOnce
        <4>2. <<"shard", s>> \in Owners(s) /\ \A o \in Owners(s) : o = <<"shard", s>> BY <4>1
        <4> QED BY <4>2, OneIn
      <3>5. CASE s = limbo
        <4>1. \A o : o \in Owners(s) <=> o = <<"limbo", s>> BY <1>1, <3>1, <3>5 DEF OwnedOnce
        <4>2. <<"limbo", s>> \in Owners(s) /\ \A o \in Owners(s) : o = <<"limbo", s>> BY <4>1
        <4> QED BY <4>2, OneIn
      <3>6. CASE s \in lost
        <4>1. \A o : o \in Owners(s) <=> o = <<"lost", s>> BY <1>1, <3>1, <3>6 DEF OwnedOnce
        <4>2. <<"lost", s>> \in Owners(s) /\ \A o \in Owners(s) : o = <<"lost", s>> BY <4>1
        <4> QED BY <4>2, OneIn
      <3> QED BY <1>1, <2>3, <3>2, <3>3, <3>4, <3>5, <3>6 DEF OwnedOnce
    <2> QED BY <2>1, <2>2, <2>3
  <1> QED BY <1>7

\* What the invariant says to the callers.
LEMMA SharkyMeans == SharkyIInv => SharkySound
  <1> SUFFICES ASSUME SharkyIInv PROVE SharkySound OBVIOUS
  <1>1. SharkyTypeOK
    <2>1. slotCount % ByteSlots = 0 BY ByteWhole DEF SharkyIInv, VectorSound
    <2>2. \A c \in Clients : calls[c].op \in {"idle", "write", "written", "read", "reading", "fetched", "release"}
      BY DEF SharkyIInv, SharkyTyped, CallRecords
    <2>3. freeSlots \subseteq 0 .. (slotCount - 1) /\ saved.free \subseteq 0 .. (saved.size - 1)
      BY DEF SharkyIInv, SharkyTyped
    <2>4. \A s \in {sp.pending, sh.slot, limbo} : s \in {NoSlot} \cup Nat
      BY DEF SharkyIInv, SharkyTyped, ShardRecords
    <2>5. \A loc \in inUse : loc[1] \in DOMAIN file /\ loc[2] \in 1 .. writes BY DEF SharkyIInv, FileSound
    <2>6. /\ status \in {"open", "closing", "closed", "down"} /\ head \in 0 .. slotCount
          /\ sp.pc \in {"run", "drain", "done"} /\ sh.pc \in {"select", "reply", "done"}
          /\ in \in {"open", "closed"}
      BY DEF SharkyIInv, SharkyTyped, ShardRecords
    <2> QED BY <2>1, <2>2, <2>3, <2>4, <2>5, <2>6 DEF SharkyTypeOK
  <1>2. OneOwner BY OwnerAlone DEF OneOwner
  <1>3. ReadsOwnBlob
    <2>1. ASSUME NEW c \in Clients, calls[c].op = "fetched" PROVE MayGet(c, calls[c].val)
      <3>1. CallSound(c) BY DEF SharkyIInv
      <3> QED BY <2>1, <3>1 DEF CallSound, ReadSound
    <2> QED BY <2>1 DEF ReadsOwnBlob, MayGet, Gone
  <1>4. SavedFree
    <2> SUFFICES ASSUME status = "closed"
                 PROVE  saved.free = (0 .. (saved.size - 1)) \ ({loc[1] : loc \in inUse} \cup lost \cup Carried)
      BY DEF SavedFree
    <2>1. /\ saved.free = freeSlots /\ saved.size = slotCount
          /\ sp.pending = NoSlot /\ sh.slot = NoSlot /\ limbo = NoSlot
      BY DEF SharkyIInv, Phases
    <2>2. SlotsOwned /\ NoSlot \notin 0 .. (slotCount - 1) /\ \A s \in 0 .. (slotCount - 1) : OwnedOnce(s)
      BY SlotKnown DEF SlotsOwned
    <2>3. \A s : (s \in Carried <=> CarriedAt(s)) /\ (s \in {loc[1] : loc \in inUse} <=> HeldAt(s))
      BY DEF Carried, CarriedAt, Carries, HeldAt
    <2>4. \A s \in 0 .. (slotCount - 1) : s \in freeSlots <=> ~CarriedAt(s) /\ ~HeldAt(s) /\ s \notin lost
      BY <2>1, <2>2 DEF OwnedOnce
    <2>5. \A s \in freeSlots : s \in 0 .. (slotCount - 1) BY DEF SharkyIInv, SharkyTyped
    <2> QED BY <2>1, <2>3, <2>4, <2>5
  <1> QED BY <1>1, <1>2, <1>3, <1>4 DEF SharkySound

\* A slot of the blob store never has two owners, a Read of a location in use gets that location's
\* blob or the error of its own context, and the free slots Close saves are those nobody has: for
\* any number of callers and slots, and whatever writes, cancellations, shutdowns, panics, crashes
\* and recoveries come between (shard.process, slots.process, Store.Close, NewRecovery).
THEOREM SlotsHaveOneOwner == SharkySpec => []SharkySound
  <1>1. SharkySpec => []SharkyIInv BY SharkyStarts, SharkySteps, PTL DEF SharkySpec
  <1> QED BY <1>1, SharkyMeans, PTL

\* A step of the store is a step of BlobStore, or none: the location a Write returns is new, a
\* Release gives one back, and the shard writes where no location in use is.
LEMMA StepsRefine ==
  ASSUME SharkyIInv, [SharkyNext]_sharkyVars
  PROVE  [Blobs!Next]_<<inUse, file>>
  <1>1. ASSUME NEW c \in Clients, WriteReturns(c) PROVE Blobs!Next
    <2>0. PICK x, b : x = calls[c].slot /\ b = calls[c].blob OBVIOUS
    <2>1. /\ calls[c].op = "written" /\ calls[c].val # Torn
          /\ inUse' = inUse \cup {<<x, b>>} /\ file' = file
      BY <1>1, <2>0 DEF WriteReturns
    <2>2. x \in DOMAIN file /\ file[x] = b
      <3>1. WroteIt(c) BY DEF SharkyIInv, CallSound
      <3> QED BY <2>0, <2>1, <3>1 DEF WroteIt
    <2>3. ~HeldAt(x) BY <2>0, <2>1, CallKnown, SlotKnown
    <2>4. x \notin Blobs!Taken BY <2>3 DEF HeldAt, Blobs!Taken
    <2>5. Blobs!HandOut(x, file[x]) BY <2>1, <2>2, <2>4 DEF Blobs!HandOut
    <2> QED BY <2>2, <2>5 DEF Blobs!Next
  <1>2. ASSUME NEW c \in Clients, NEW loc \in inUse, Release(c, loc) PROVE Blobs!Next
    <2>1. Blobs!GiveBack(loc) BY <1>2 DEF Release, Blobs!GiveBack
    <2> QED BY <2>1 DEF Blobs!Next
  <1>3. ASSUME NEW c \in Clients, NEW b, TakeWrite(c, b) PROVE Blobs!Next
    <2>0. PICK x : x = sh.slot OBVIOUS
    <2>1. /\ x # NoSlot /\ calls[c].op = "write" /\ inUse' = inUse
          /\ file' = [s \in DOMAIN file \cup {x} |-> IF s = x THEN b ELSE file[s]]
      BY <1>3, <2>0 DEF TakeWrite
    <2>2. status # "down" BY <2>1, CallKnown
    <2>3. SlotsOwned BY <2>2, SlotKnown
    <2>4. OwnedOnce(x) BY <2>0, <2>1, <2>3 DEF SlotsOwned
    <2>5. ~HeldAt(x) BY <2>0, <2>4 DEF OwnedOnce
    <2>6. \A s \in Blobs!Taken : s # x /\ s \in DOMAIN file
      BY <2>5 DEF HeldAt, Blobs!Taken, SharkyIInv, FileSound
    <2>7. DOMAIN file \subseteq DOMAIN file' /\ \A s \in DOMAIN file : s # x => file'[s] = file[s] BY <2>1
    <2>8. Blobs!Scribble BY <2>1, <2>6, <2>7 DEF Blobs!Scribble
    <2> QED BY <2>8 DEF Blobs!Next
  <1>4. CASE /\ \A c \in Clients : ~WriteReturns(c) /\ \A loc \in inUse : ~Release(c, loc)
             /\ \A c \in Clients : \A b : ~TakeWrite(c, b)
    <2>1. inUse' = inUse /\ file' = file
      <3>1. CASE UNCHANGED sharkyVars BY <3>1 DEF sharkyVars
      <3>2. ASSUME NEW c \in Clients, SharkyWrite(c) \/ CancelCall(c) PROVE inUse' = inUse /\ file' = file
        BY <3>2 DEF SharkyWrite, CancelCall
      <3>3. ASSUME NEW c \in Clients, Returns(c) PROVE inUse' = inUse /\ file' = file
        BY <1>4, <3>3 DEF Returns, ShardWriteFails, ReadReturns, ReadFails, ReleaseFails, ReleasePanics, Dies
      <3>4. ASSUME NEW c \in Clients, NEW loc \in inUse, Read(c, loc) PROVE inUse' = inUse /\ file' = file
        BY <3>4 DEF Read
      <3>5. ASSUME ShardStep PROVE inUse' = inUse /\ file' = file
        BY <1>4, <3>5 DEF ShardStep, TakeSlot, ReplyCancelled, ShardQuits, TakeRead, Reply
      <3>6. ASSUME SlotsStep PROVE inUse' = inUse /\ file' = file
        BY <3>6 DEF SlotsStep, ReceiveLimbo, SlotsQuit, CloseIn, SlotsDone, ReceiveRelease
      <3>7. ASSUME Close \/ StoreClosed \/ SharkyCrash \/ SharkyStart PROVE inUse' = inUse /\ file' = file
        BY <3>7 DEF Close, StoreClosed, SharkyCrash, Dies, SharkyStart, Opened
      <3>8. ASSUME NEW full, SharkyRecover(full) PROVE inUse' = inUse /\ file' = file
        BY <3>8 DEF SharkyRecover, Opened
      <3> QED BY <1>4, <3>1, <3>2, <3>3, <3>4, <3>5, <3>6, <3>7, <3>8 DEF SharkyNext
    <2> QED BY <2>1
  <1> QED BY <1>1, <1>2, <1>3, <1>4

\* The store implements BlobStore: a location Write has returned is nobody else's and keeps its
\* blob until it is given to Release, through the writes of others, cancellations, shutdowns,
\* crashes and recoveries (Store.Write, Store.Release, shard.write, Recovery.Save).
THEOREM LocationsKeepTheirBlobs == SharkySpec => BlobSpec
  <1>1. SharkyInit => Blobs!Init BY DEF SharkyInit, Blobs!Init
  <1>2. SharkyIInv /\ [SharkyNext]_sharkyVars => [Blobs!Next]_<<inUse, file>> BY StepsRefine
  <1>3. SharkySpec => []SharkyIInv BY SharkyStarts, SharkySteps, PTL DEF SharkySpec
  <1> QED BY <1>1, <1>2, <1>3, PTL DEF SharkySpec, BlobSpec, Blobs!Spec
=============================================================================
