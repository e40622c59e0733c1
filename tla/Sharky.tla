------------------------------- MODULE Sharky -------------------------------
(***************************************************************************)
(* One shard of the sharded blob store, pkg/sharky: the goroutine that     *)
(* serves reads and writes (shard.process), the goroutine that keeps the   *)
(* free slots (slots.process), the callers of Read, Write and Release, the *)
(* shutdown, and the recovery of the free slots after a dirty exit.        *)
(*                                                                         *)
(* The channels reads, writes, errc, out and in are unbuffered, so a send  *)
(* and its receive are one step of two goroutines.  The result channel of  *)
(* a Write has one place: the shard never waits for the writer.  Shards    *)
(* share only the writes channel and the quit channel; a write another     *)
(* shard takes is, to this one, a write that never came.                   *)
(*                                                                         *)
(* inUse stands for the index above the store: the locations a Write has   *)
(* returned and nobody has given to Release, each with its blob.           *)
(***************************************************************************)
EXTENDS Integers, FiniteSets, FiniteSetsExt

CONSTANTS
    Clients,      \* the goroutines that call the store
    Cancellable,  \* those whose contexts may be cancelled
    ByteSlots,    \* slots in one byte of the free vector: 8 in the code
    MaxWrites,    \* bound: calls of Write; the n-th writes blob n
    MaxStarts,    \* bound: how often the store is opened
    LateCalls,    \* whether calls still begin after Close has begun
    WriteFaults   \* whether WriteAt may fail

ASSUME SharkyAssumption ==
    /\ Cancellable \subseteq Clients
    /\ ByteSlots \in Nat \ {0}
    /\ MaxWrites \in Nat
    /\ MaxStarts \in Nat \ {0}
    /\ LateCalls \in BOOLEAN
    /\ WriteFaults \in BOOLEAN

VARIABLES
    status,   \* the store: "open", "closing", "closed" (saved) or "down"
    freeSlots, \* slots.data: the slots whose bit is set
    slotCount, \* slots.size
    head,     \* slots.head
    sp,       \* slots.process: [pc, pending], the slot offered on out
    sh,       \* shard.process: [pc, slot, reader, val]
    limbo,    \* the slot the goroutine shard.process leaves behind sends
    in,       \* the channel in: "open", or "closed"
    file,     \* the shard file: written slots and the blob in each
    saved,    \* the free file: [free, size] as last saved
    calls,    \* the call each client is in
    inUse,    \* the locations in use, <<slot, blob>>
    lost,     \* slots that are neither free nor known to anybody
    writes,   \* calls of Write so far
    starts    \* times the store was opened

sharkyVars == <<status, freeSlots, slotCount, head, sp, sh, limbo, in, file, saved, calls,
                inUse, lost, writes, starts>>

freeVars == <<freeSlots, slotCount, head>>

NoSlot == -1
NoBlob == 0
Torn   == -1   \* what a failed WriteAt leaves in a slot
CtxErr == -2   \* the error of a cancelled context, as the result of a read

quit == status # "open"

Idle == [op |-> "idle", slot |-> NoSlot, blob |-> NoBlob, val |-> NoBlob,
         cancelled |-> FALSE]

Called(op, slot, blob) ==
    [op |-> op, slot |-> slot, blob |-> blob, val |-> NoBlob,
     cancelled |-> FALSE]

\* A call may begin: the process lives and the caller is free.
CanCall(c) ==
    /\ calls[c].op = "idle"
    /\ status # "down"
    /\ status = "open" \/ LateCalls

-----------------------------------------------------------------------------
(* slots: the free vector                                                  *)

\* next: the lowest free slot from start on, or the size of the vector
next(start, fr, sz) ==
    LET above == {i \in fr : start <= i /\ i < sz}
    IN  IF above = {} THEN sz ELSE Min(above)

extended(sz) == sz..(sz + ByteSlots - 1)

\* pop: the vector fr of sz slots after its head h was taken; when every slot
\* is in use it is first extended by a byte

\* seeded fault: the vector is not extended
PopSizeUnextended(h, sz) == sz

PopSize(h, sz) == IF h = sz THEN sz + ByteSlots ELSE sz

PopFree(h, fr, sz) == (IF h = sz THEN fr \cup extended(sz) ELSE fr) \ {h}

popped(h, fr, sz) ==
    /\ freeSlots' = PopFree(h, fr, sz)
    /\ slotCount' = PopSize(h, sz)
    /\ head' = next(h + 1, PopFree(h, fr, sz), PopSize(h, sz))

pop == popped(head, freeSlots, slotCount)

\* push
push(i) ==
    /\ head' = IF head > i THEN i ELSE head
    /\ freeSlots' = freeSlots \cup {i}
    /\ UNCHANGED slotCount

-----------------------------------------------------------------------------
(* A new store on an empty directory; slots.process has popped slot 0.      *)

ShardIdle == [pc |-> "select", slot |-> NoSlot, reader |-> {}, val |-> NoBlob]

SharkyInit ==
    /\ status = "open"
    /\ slotCount = PopSize(0, 0)
    /\ freeSlots = PopFree(0, {}, 0)
    /\ head = next(1, PopFree(0, {}, 0), PopSize(0, 0))
    /\ sp = [pc |-> "run", pending |-> 0]
    /\ sh = ShardIdle
    /\ limbo = NoSlot
    /\ in = "open"
    /\ file = << >>
    /\ saved = [free |-> {}, size |-> 0]
    /\ calls = [c \in Clients |-> Idle]
    /\ inUse = {}
    /\ lost = {}
    /\ writes = 0
    /\ starts = 1

-----------------------------------------------------------------------------
(* Calls                                                                   *)

\* Write, up to the send on writes
SharkyWrite(c) ==
    /\ CanCall(c)
    /\ writes < MaxWrites
    /\ writes' = writes + 1
    /\ calls' = [calls EXCEPT ![c] = Called("write", NoSlot, writes + 1)]
    /\ UNCHANGED <<status, freeVars, sp, sh, limbo, in, file, saved, inUse,
                   lost, starts>>

\* Read of a location in use, up to the send on reads
Read(c, loc) ==
    /\ CanCall(c)
    /\ loc \in inUse
    /\ calls' = [calls EXCEPT ![c] = Called("read", loc[1], loc[2])]
    /\ UNCHANGED <<status, freeVars, sp, sh, limbo, in, file, saved, inUse,
                   lost, writes, starts>>

\* Release of a location in use, up to the send on in
Release(c, loc) ==
    /\ CanCall(c)
    /\ loc \in inUse
    /\ inUse' = inUse \ {loc}
    /\ calls' = [calls EXCEPT ![c] = Called("release", loc[1], loc[2])]
    /\ UNCHANGED <<status, freeVars, sp, sh, limbo, in, file, saved, lost,
                   writes, starts>>

\* the context of a call is cancelled
CancelCall(c) ==
    /\ c \in Cancellable
    /\ calls[c].op \in {"write", "written", "read", "reading", "release"}
    /\ ~calls[c].cancelled
    /\ calls' = [calls EXCEPT ![c].cancelled = TRUE]
    /\ UNCHANGED <<status, freeVars, sp, sh, limbo, in, file, saved, inUse,
                   lost, writes, starts>>

-----------------------------------------------------------------------------
(* shard.process                                                           *)

\* the case that takes a free slot
TakeSlot ==
    /\ sh.pc = "select" /\ sh.slot = NoSlot
    /\ sp.pc = "run"
    /\ sh' = [sh EXCEPT !.slot = sp.pending]
    /\ sp' = [sp EXCEPT !.pending = head]
    /\ pop
    /\ UNCHANGED <<status, limbo, in, file, saved, calls, inUse, lost, writes,
                   starts>>

\* seeded fault: a blob that is too long runs into the next slot
TakeWriteTooLong(c, blob) ==
    /\ sh.pc = "select" /\ sh.slot # NoSlot
    /\ calls[c].op = "write"
    /\ blob = calls[c].blob \/ (WriteFaults /\ blob = Torn)
    /\ file' = [s \in DOMAIN file \cup {sh.slot} |->
                  IF s \in {sh.slot, sh.slot + 1} THEN blob ELSE file[s]]
    /\ calls' = [calls EXCEPT ![c].op = "written", ![c].slot = sh.slot,
                              ![c].val = blob]
    /\ sh' = [sh EXCEPT !.slot = NoSlot]
    /\ UNCHANGED <<status, freeVars, sp, limbo, in, saved, inUse, lost, writes,
                   starts>>

\* the case that takes a write, writes the blob into the slot it holds and
\* leaves the location, or the error, in the result channel
TakeWrite(c, blob) ==
    /\ sh.pc = "select" /\ sh.slot # NoSlot
    /\ calls[c].op = "write"
    /\ blob = calls[c].blob \/ (WriteFaults /\ blob = Torn)
    /\ file' = [s \in DOMAIN file \cup {sh.slot} |-> IF s = sh.slot THEN blob ELSE file[s]]
    /\ calls' = [calls EXCEPT ![c].op = "written", ![c].slot = sh.slot,
                              ![c].val = blob]
    /\ sh' = [sh EXCEPT !.slot = NoSlot]
    /\ UNCHANGED <<status, freeVars, sp, limbo, in, saved, inUse, lost, writes,
                   starts>>

\* seeded fault: a second read is served while the first waits for its result
TakeReadConcurrently(c) ==
    /\ sh.pc \in {"select", "reply"}
    /\ calls[c].op = "read"
    /\ calls' = [calls EXCEPT ![c].op = "reading"]
    /\ sh' = [sh EXCEPT !.pc = "reply", !.reader = {c},
                        !.val = file[calls[c].slot]]
    /\ UNCHANGED <<status, freeVars, sp, limbo, in, file, saved, inUse, lost,
                   writes, starts>>

\* the case that takes a read: the file is read before the shard waits for
\* the reader to fetch the result
TakeRead(c) ==
    /\ sh.pc = "select"
    /\ calls[c].op = "read"
    /\ calls' = [calls EXCEPT ![c].op = "reading"]
    /\ sh' = [sh EXCEPT !.pc = "reply", !.reader = {c},
                        !.val = file[calls[c].slot]]
    /\ UNCHANGED <<status, freeVars, sp, limbo, in, file, saved, inUse, lost,
                   writes, starts>>

\* the reader's context is cancelled while the shard waits: it sends the
\* error instead
ReplyCancelled ==
    /\ sh.pc = "reply"
    /\ sh.val # CtxErr
    /\ \E c \in sh.reader : calls[c].cancelled
    /\ sh' = [sh EXCEPT !.val = CtxErr]
    /\ UNCHANGED <<status, freeVars, sp, limbo, in, file, saved, calls, inUse,
                   lost, writes, starts>>

\* whoever waits on errc gets the result
Reply(c) ==
    /\ sh.pc = "reply"
    /\ calls[c].op = "reading"
    /\ calls' = [calls EXCEPT ![c].op = "fetched", ![c].val = sh.val]
    /\ sh' = [sh EXCEPT !.pc = "select", !.reader = {}, !.val = NoBlob]
    /\ UNCHANGED <<status, freeVars, sp, limbo, in, file, saved, inUse, lost,
                   writes, starts>>

\* seeded fault: the slot in limbo is forgotten
ShardQuitsForgetting ==
    /\ quit
    /\ sh.pc \in {"select", "reply"}
    /\ sh' = [pc |-> "done", slot |-> NoSlot, reader |-> {}, val |-> NoBlob]
    /\ UNCHANGED <<status, freeVars, sp, limbo, in, file, saved, calls, inUse,
                   lost, writes, starts>>

\* process returns; a slot it took and did not use is sent back
ShardQuits ==
    /\ quit
    /\ sh.pc \in {"select", "reply"}
    /\ limbo' = sh.slot
    /\ sh' = [pc |-> "done", slot |-> NoSlot, reader |-> {}, val |-> NoBlob]
    /\ UNCHANGED <<status, freeVars, sp, in, file, saved, calls, inUse, lost,
                   writes, starts>>

-----------------------------------------------------------------------------
(* slots.process; its case out <- head is TakeSlot                         *)

\* a released slot arrives
ReceiveRelease(c) ==
    /\ sp.pc \in {"run", "drain"} /\ in = "open"
    /\ calls[c].op = "release"
    /\ push(calls[c].slot)
    /\ calls' = [calls EXCEPT ![c] = Idle]
    /\ UNCHANGED <<status, sp, sh, limbo, in, file, saved, inUse, lost, writes,
                   starts>>

\* the slot in limbo arrives
ReceiveLimbo ==
    /\ sp.pc \in {"run", "drain"} /\ in = "open"
    /\ limbo # NoSlot
    /\ push(limbo)
    /\ limbo' = NoSlot
    /\ UNCHANGED <<status, sp, sh, in, file, saved, calls, inUse, lost, writes,
                   starts>>

\* the shard has terminated: the pending slot goes back
SlotsQuit ==
    /\ sp.pc = "run" /\ sh.pc = "done"
    /\ push(sp.pending)
    /\ sp' = [pc |-> "drain", pending |-> NoSlot]
    /\ UNCHANGED <<status, sh, limbo, in, file, saved, calls, inUse, lost,
                   writes, starts>>

\* the goroutine SlotsQuit starts: wait for the slot in limbo, close in
CloseIn ==
    /\ sp.pc = "drain" /\ in = "open"
    /\ limbo = NoSlot
    /\ in' = "closed"
    /\ UNCHANGED <<status, freeVars, sp, sh, limbo, file, saved, calls, inUse,
                   lost, writes, starts>>

\* process sees the closed channel and returns
SlotsDone ==
    /\ sp.pc = "drain" /\ in = "closed"
    /\ sp' = [sp EXCEPT !.pc = "done"]
    /\ UNCHANGED <<status, freeVars, sh, limbo, in, file, saved, calls, inUse,
                   lost, writes, starts>>

-----------------------------------------------------------------------------
(* Returns                                                                 *)

\* Write returns the location
WriteReturns(c) ==
    /\ calls[c].op = "written" /\ calls[c].val # Torn
    /\ inUse' = inUse \cup {<<calls[c].slot, calls[c].blob>>}
    /\ calls' = [calls EXCEPT ![c] = Idle]
    /\ UNCHANGED <<status, freeVars, sp, sh, limbo, in, file, saved, lost,
                   writes, starts>>

\* seeded fault: a Write does not see the shutdown
ShardWriteFailsNotQuitting(c) ==
    /\ calls[c].op \in {"write", "written"} /\ calls[c].cancelled
    /\ lost' = lost \cup ({calls[c].slot} \ {NoSlot})
    /\ calls' = [calls EXCEPT ![c] = Idle]
    /\ UNCHANGED <<status, freeVars, sp, sh, limbo, in, file, saved, inUse,
                   writes, starts>>

\* Write returns an error: the shard's, or its own select saw quit or the
\* context.  A slot already written stays taken.
ShardWriteFails(c) ==
    /\ \/ calls[c].op = "written" /\ calls[c].val = Torn
       \/ calls[c].op \in {"write", "written"} /\ (quit \/ calls[c].cancelled)
    /\ lost' = lost \cup ({calls[c].slot} \ {NoSlot})
    /\ calls' = [calls EXCEPT ![c] = Idle]
    /\ UNCHANGED <<status, freeVars, sp, sh, limbo, in, file, saved, inUse,
                   writes, starts>>

\* Read returns the blob or the error it was sent
ReadReturns(c) ==
    /\ calls[c].op = "fetched"
    /\ calls' = [calls EXCEPT ![c] = Idle]
    /\ UNCHANGED <<status, freeVars, sp, sh, limbo, in, file, saved, inUse,
                   lost, writes, starts>>

\* seeded fault: a Read the shard has taken respects its context (the deadlock
\* the comment in Store.Read warns of)
ReadFailsOnContext(c) ==
    /\ calls[c].op \in {"read", "reading"} /\ (quit \/ calls[c].cancelled)
    /\ calls' = [calls EXCEPT ![c] = Idle]
    /\ UNCHANGED <<status, freeVars, sp, sh, limbo, in, file, saved, inUse,
                   lost, writes, starts>>

\* Read gives up: before the shard took it also because of its context,
\* after that only because of the shutdown
ReadFails(c) ==
    /\ \/ calls[c].op = "read" /\ (quit \/ calls[c].cancelled)
       \/ calls[c].op = "reading" /\ quit
    /\ calls' = [calls EXCEPT ![c] = Idle]
    /\ UNCHANGED <<status, freeVars, sp, sh, limbo, in, file, saved, inUse,
                   lost, writes, starts>>

\* Release gives up because of its context; the slot stays taken
ReleaseFails(c) ==
    /\ calls[c].op = "release" /\ calls[c].cancelled
    /\ lost' = lost \cup {calls[c].slot}
    /\ calls' = [calls EXCEPT ![c] = Idle]
    /\ UNCHANGED <<status, freeVars, sp, sh, limbo, in, file, saved, inUse,
                   writes, starts>>

-----------------------------------------------------------------------------
(* Shutdown, crash, start                                                  *)

\* Close, up to the wait for the goroutines
Close ==
    /\ status = "open"
    /\ status' = "closing"
    /\ UNCHANGED <<freeVars, sp, sh, limbo, in, file, saved, calls, inUse,
                   lost, writes, starts>>

\* seeded fault: the free slots are saved before slots.process is done
StoreClosedEarly ==
    /\ status = "closing"
    /\ sh.pc = "done"
    /\ \A c \in Clients : calls[c].op \notin {"write", "written"}
    /\ saved' = [free |-> freeSlots, size |-> slotCount]
    /\ status' = "closed"
    /\ UNCHANGED <<freeVars, sp, sh, limbo, in, file, calls, inUse, lost,
                   writes, starts>>

\* shard.close: nothing the wait group counts is left; save; then the
\* .DIRTY file is removed
StoreClosed ==
    /\ status = "closing"
    /\ sh.pc = "done" /\ sp.pc = "done"
    /\ \A c \in Clients : calls[c].op \notin {"write", "written"}
    /\ saved' = [free |-> freeSlots, size |-> slotCount]
    /\ status' = "closed"
    /\ UNCHANGED <<freeVars, sp, sh, limbo, in, file, calls, inUse, lost,
                   writes, starts>>

\* The process ends without saving.  What it knew of its calls is gone.
Dies ==
    /\ status' = "down"
    /\ calls' = [c \in Clients |-> Idle]
    /\ sp' = [pc |-> "done", pending |-> NoSlot]
    /\ sh' = [ShardIdle EXCEPT !.pc = "done"]
    /\ limbo' = NoSlot
    /\ in' = "closed"
    /\ freeSlots' = {} /\ slotCount' = 0 /\ head' = 0 /\ lost' = {}
    /\ UNCHANGED <<file, saved, inUse, writes, starts>>

SharkyCrash == status \in {"open", "closing"} /\ Dies

\* A send on a closed channel panics: a Release that is waiting when in is
\* closed, or begins after that, takes the process down.  Once the free slots
\* are saved and .DIRTY is gone, the next start is a clean one all the same.
Carried == {calls[c].slot : c \in {d \in Clients :
                                     calls[d].op \in {"written", "release"}}}

ReleasePanics(c) ==
    /\ calls[c].op = "release" /\ in = "closed"
    /\ \/ status = "closing" /\ Dies
       \/ /\ status = "closed"
          /\ calls' = [d \in Clients |-> Idle]
          /\ lost' = lost \cup Carried
          /\ UNCHANGED <<status, freeVars, sp, sh, limbo, in, file, saved,
                         inUse, writes, starts>>

\* New on the free vector fr of sz slots: load, and the first pop
Opened(fr, sz) ==
    LET first == next(0, fr, sz)
    IN  /\ status' = "open"
        /\ popped(first, fr, sz)
        /\ sp' = [pc |-> "run", pending |-> first]
        /\ sh' = ShardIdle
        /\ limbo' = NoSlot
        /\ in' = "open"
        /\ calls' = [c \in Clients |-> Idle]
        /\ starts' = starts + 1
        /\ UNCHANGED <<file, inUse, writes>>

\* start after a clean shutdown, once every call has returned
SharkyStart ==
    /\ status = "closed" /\ starts < MaxStarts
    /\ \A c \in Clients : calls[c] = Idle
    /\ Opened(saved.free, saved.size)
    /\ UNCHANGED <<saved, lost>>

\* NewRecovery, Add of every location of the index, and Save.  The vector has
\* the whole bytes of the slots the file is long enough for (its last blob
\* may be short of a full slot), and is extended to the locations added.
RecoveredSize(full) ==
    LET bytes == {full \div ByteSlots}
                     \cup {(loc[1] \div ByteSlots) + 1 : loc \in inUse}
    IN  Max(bytes) * ByteSlots

RecoveredFree(sz) == (0..(sz - 1)) \ {loc[1] : loc \in inUse}

FileSlots == IF DOMAIN file = {} THEN 0 ELSE Max(DOMAIN file) + 1

SharkyRecover(full) ==
    /\ status = "down" /\ starts < MaxStarts
    /\ full \in {FileSlots, FileSlots - 1} \cap Nat
    /\ saved' = [free |-> RecoveredFree(RecoveredSize(full)),
                 size |-> RecoveredSize(full)]
    /\ Opened(saved'.free, saved'.size)
    /\ UNCHANGED lost

-----------------------------------------------------------------------------
ShardStep ==
    \/ TakeSlot \/ ReplyCancelled \/ ShardQuits
    \/ \E c \in Clients :
          \/ TakeRead(c) \/ Reply(c)
          \/ \E b \in {calls[c].blob, Torn} : TakeWrite(c, b)

SlotsStep ==
    \/ ReceiveLimbo \/ SlotsQuit \/ CloseIn \/ SlotsDone
    \/ \E c \in Clients : ReceiveRelease(c)

Returns(c) ==
    \/ WriteReturns(c) \/ ShardWriteFails(c) \/ ReadReturns(c) \/ ReadFails(c)
    \/ ReleaseFails(c) \/ ReleasePanics(c)

SharkyNext ==
    \/ \E c \in Clients :
          \/ SharkyWrite(c) \/ CancelCall(c) \/ Returns(c)
          \/ \E loc \in inUse : Read(c, loc) \/ Release(c, loc)
    \/ ShardStep
    \/ SlotsStep
    \/ Close \/ StoreClosed \/ SharkyCrash \/ SharkyStart
    \/ \E full \in {FileSlots, FileSlots - 1} : SharkyRecover(full)

SharkySpec == SharkyInit /\ [][SharkyNext]_sharkyVars

(* The Go scheduler runs every goroutine that can run; a select with several
   ready cases picks one at random, and the goroutines waiting on a channel
   are served in turn.  A case that is ready again and again is therefore
   taken (SF); a step nothing else can disable is taken (WF).  Nobody owes
   the store a call, a Close, a cancellation or a crash. *)
Fairness ==
    /\ SF_sharkyVars(TakeSlot)
    /\ WF_sharkyVars(ShardQuits)
    /\ WF_sharkyVars(ReceiveLimbo) /\ WF_sharkyVars(SlotsQuit)
    /\ WF_sharkyVars(CloseIn) /\ WF_sharkyVars(SlotsDone) /\ WF_sharkyVars(StoreClosed)
    /\ \A c \in Clients :
          /\ SF_sharkyVars(TakeRead(c) \/ TakeWrite(c, calls[c].blob) \/ ReceiveRelease(c))
          /\ WF_sharkyVars(Reply(c)) /\ WF_sharkyVars(Returns(c))

SharkyFairSpec == SharkySpec /\ Fairness

-----------------------------------------------------------------------------
(* Properties                                                              *)

\* The state is well formed.
SharkyTypeOK ==
    /\ status \in {"open", "closing", "closed", "down"}
    /\ freeSlots \subseteq 0..(slotCount - 1) /\ head \in 0..slotCount
    /\ slotCount % ByteSlots = 0
    /\ sp.pc \in {"run", "drain", "done"}
    /\ sh.pc \in {"select", "reply", "done"}
    /\ in \in {"open", "closed"}
    /\ \A s \in {sp.pending, sh.slot, limbo} : s \in {NoSlot} \cup Nat
    /\ saved.free \subseteq 0..(saved.size - 1)
    /\ \A c \in Clients :
          calls[c].op \in {"idle", "write", "written", "read", "reading",
                           "fetched", "release"}
    /\ \A loc \in inUse : loc[1] \in DOMAIN file /\ loc[2] \in 1..writes

\* Who has a slot of the open store.
Owners(s) ==
    {<<"free", s>>    : x \in freeSlots \cap {s}}
    \cup {<<"pending", s>> : x \in {sp.pending} \cap {s}}
    \cup {<<"shard", s>> : x \in {sh.slot} \cap {s}}
    \cup {<<"limbo", s>> : x \in {limbo} \cap {s}}
    \cup {<<"lost", s>>  : x \in lost \cap {s}}
    \cup {<<"call", c>>  : c \in {d \in Clients :
              calls[d].op \in {"written", "release"} /\ calls[d].slot = s}}
    \cup {<<"held", loc[2]>> : loc \in {l \in inUse : l[1] = s}}

\* A slot is never in two hands: free, offered on out, taken by the shard, in
\* limbo, in the result of a Write or in the argument of a Release, in use, or
\* lost, and exactly one of these (slots.go, shard.go: pop, push, the limbo
\* goroutine and process hand every slot on exactly once).
OneOwner ==
    status # "down" =>
        \A s \in 0..(slotCount - 1) : Cardinality(Owners(s)) = 1

\* A Read of a location that is still in use gets that location's blob, or
\* the error of its own context: the shared channel errc never delivers one
\* reader's result to another.
ReadsOwnBlob ==
    \A c \in Clients :
        /\ calls[c].op = "fetched"
        /\ <<calls[c].slot, calls[c].blob>> \in inUse
        => \/ calls[c].val = calls[c].blob
           \/ calls[c].val = CtxErr /\ calls[c].cancelled

\* The free slots saved by Close are those that nobody has: a slot taken by
\* the shard, offered or in limbo at the shutdown is saved as free.
SavedFree ==
    status = "closed" =>
        saved.free = (0..(saved.size - 1))
                        \ ({loc[1] : loc \in inUse} \cup lost \cup Carried)

\* A slot of sharky has one owner at a time, who reads back what it wrote, and the saved free
\* slots are right after Close (shard.process, slots.process, Store.Close).
SharkySound == SharkyTypeOK /\ OneOwner /\ ReadsOwnBlob /\ SavedFree

\* Close returns, unless the process dies first.
CloseEnds == status = "closing" ~> status # "closing"

\* No call waits for ever, whatever other callers, the shutdown and its own
\* context do.
CallsReturn ==
    \A c \in Clients : calls[c].op # "idle" ~> calls[c].op = "idle"

\* The store implements the blob store its callers see: a location Write
\* returns is nobody else's and keeps its blob until it is given to Release,
\* through writes of others, shutdown, crash and recovery.
Blobs == INSTANCE BlobStore WITH live <- inUse, content <- file
BlobSpec == Blobs!Spec
=============================================================================
