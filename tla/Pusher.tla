------------------------------- MODULE Pusher -------------------------------
(***************************************************************************)
(* The pusher: it takes the chunks of uploads from the push subscription   *)
(* (deferred) and from direct uploads, pushes them and reports the result. *)
(* One loop takes operations from a channel without a buffer, and starts a *)
(* goroutine for each while the semaphore allows; a deferred operation     *)
(* that fails goes back into the channel.  DirectUpload waits for its      *)
(* operation, and starts another one when that is worth a try.             *)
(***************************************************************************)
EXTENDS Integers, FiniteSets

CONSTANTS PusherChunks, ConcurrentPushes, RetryCount

\* the chunks of a run are finitely many, as are the goroutines
ASSUME PusherAssumption == IsFiniteSet(PusherChunks) /\ ConcurrentPushes \in Nat

VARIABLES
    ops,       \* an operation per chunk and way: see OpStates
    taking,    \* the operation the loop has taken and wants a goroutine for
    inflight,  \* chunks in flight
    attempts,  \* shallow receipts so far
    outcome,   \* per chunk: what was reported, and what the direct upload returned
    there,     \* history: chunks in the network or in the node's reserve
    ushist,    \* history: drops and joins; faults and restarts so far
    ussc       \* the scenario

pusherVars == <<ops, taking, inflight, attempts, outcome, there, ushist, ussc>>

Ways == {"deferred", "direct"}
Ops == PusherChunks \X Ways
NoOp == <<>>

\* feed: at the channel for the first time; cc: at the channel again; sem: taken;
\* push: a goroutine has it; again, quit: about to give the semaphore back
OpStates == {"idle", "feed", "cc", "sem", "push", "again", "quit", "done", "dropped"}

PusherInit(sc) ==
    /\ ussc = sc
    /\ ops = [o \in Ops |-> "idle"]
    /\ taking = NoOp /\ inflight = {}
    /\ attempts = [c \in PusherChunks |-> 0]
    /\ outcome = [report |-> [c \in PusherChunks |-> "none"], direct |-> [c \in PusherChunks |-> "none"]]
    /\ there = {}
    /\ ushist = [joined |-> {}, faults |-> 0, restarts |-> 0]

Move(o, st) == ops' = [ops EXCEPT ![o] = st]

\* the goroutines that hold the semaphore
Busy == {o \in Ops : ops[o] \in {"push", "again", "quit"}}

\* the subscription, one chunk at a time, or a direct upload
PusherFeed(o) ==
    /\ ops[o] = "idle" /\ o[1] \in ussc[o[2]]
    /\ o[2] = "deferred" => /\ outcome.report[o[1]] = "none"
                            /\ \A c \in PusherChunks : ops[<<c, "deferred">>] # "feed"
    /\ Move(o, "feed")
    /\ UNCHANGED <<taking, inflight, attempts, outcome, there, ushist, ussc>>

\* the mark of a chunk in flight is not looked at
NeverMarked(c) == FALSE

\* inflight.set finds the chunk marked
Marked(c) == c \in inflight

\* the loop takes an operation; one for a chunk that is in flight is passed over, and a direct
\* upload told that all is well
TakeOp(o) ==
    /\ ops[o] \in {"feed", "cc"} /\ taking = NoOp
    /\ IF Marked(o[1])
       THEN /\ Move(o, IF o[2] = "direct" THEN "done" ELSE "dropped")
            /\ outcome' = IF o[2] = "direct" THEN [outcome EXCEPT !.direct[o[1]] = "ok"] ELSE outcome
            /\ ushist' = [ushist EXCEPT !.joined = @ \cup {o}]
            /\ UNCHANGED <<taking, inflight>>
       ELSE /\ Move(o, "sem")
            /\ taking' = o /\ inflight' = inflight \cup {o[1]}
            /\ UNCHANGED <<outcome, ushist>>
    /\ UNCHANGED <<attempts, there, ussc>>

\* a goroutine is started
PusherStart ==
    /\ taking # NoOp /\ Cardinality(Busy) < ConcurrentPushes
    /\ Move(taking, "push") /\ taking' = NoOp
    /\ UNCHANGED <<inflight, attempts, outcome, there, ushist, ussc>>

\* checkReceipt: a receipt from too far away is not taken until it has come RetryCount times
CheckReceipt(c, shallow) == IF shallow THEN attempts[c] + 1 >= RetryCount ELSE TRUE

PushTried(c, shallow) ==
    attempts' = [attempts EXCEPT ![c] = IF CheckReceipt(c, shallow) THEN 0 ELSE @ + 1]

\* PushChunkToClosest and what follows: the chunk stays here, a receipt, or an error; storing
\* and reporting may fail
Results ==
    [r : {"self"}, ok : {TRUE}] \cup [r : {"receipt", "shallow"}, ok : {TRUE}]
        \cup (IF ushist.faults < ussc.faults THEN [r : {"self", "receipt", "error", "notfound"}, ok : {FALSE}] ELSE {})

\* the end of pushDeferred: whether to repeat
PushDeferred(o) ==
    LET c == o[1] IN
    /\ ops[o] = "push" /\ o[2] = "deferred"
    /\ inflight' = inflight \ {c}
    /\ UNCHANGED <<taking, ussc>>
    /\ \/ /\ c \in ussc.expired
          /\ Move(o, "quit") /\ outcome' = [outcome EXCEPT !.report[c] = "couldNotSync"]
          /\ UNCHANGED <<attempts, there, ushist>>
       \/ \E x \in Results :
            LET good == x.ok /\ CheckReceipt(c, x.r = "shallow") IN
            /\ c \notin ussc.expired
            /\ IF x.r \in {"receipt", "shallow"} THEN PushTried(c, x.r = "shallow") ELSE UNCHANGED attempts
            /\ there' = IF x.ok THEN there \cup {c} ELSE there
            /\ Move(o, IF good THEN "quit" ELSE "again")
            /\ outcome' = IF good THEN [outcome EXCEPT !.report[c] = IF x.r = "self" THEN "stored" ELSE "synced"]
                          ELSE outcome
            /\ ushist' = IF x.ok THEN ushist ELSE [ushist EXCEPT !.faults = @ + 1]

\* the end of pushDirect; DirectUpload tries again after a shallow receipt or without peers
PushDirect(o) ==
    LET c == o[1] IN
    /\ ops[o] = "push" /\ o[2] = "direct"
    /\ inflight' = inflight \ {c}
    /\ UNCHANGED <<taking, ussc>>
    /\ \/ /\ c \in ussc.expired
          /\ Move(o, "quit") /\ outcome' = [outcome EXCEPT !.direct[c] = "error"]
          /\ UNCHANGED <<attempts, there, ushist>>
       \/ \E x \in Results :
            LET good == x.ok /\ CheckReceipt(c, x.r = "shallow")
                retry == ~good /\ x.r \in {"shallow", "notfound"} IN
            /\ c \notin ussc.expired
            /\ IF x.r \in {"receipt", "shallow"} THEN PushTried(c, x.r = "shallow") ELSE UNCHANGED attempts
            /\ there' = IF x.ok THEN there \cup {c} ELSE there
            /\ Move(o, IF retry THEN "again" ELSE "quit")
            /\ outcome' = IF retry THEN outcome
                          ELSE [outcome EXCEPT !.direct[c] = IF good THEN "ok" ELSE "error"]
            /\ ushist' = IF x.ok THEN ushist ELSE [ushist EXCEPT !.faults = @ + 1]

\* the operation is not repeated
ReleaseOnly(o) ==
    /\ ops[o] \in {"again", "quit"}
    /\ Move(o, "done")
    /\ UNCHANGED <<taking, inflight, attempts, outcome, there, ushist, ussc>>

\* the loop has to take the operation before the semaphore is given back
ReleaseLate(o) ==
    /\ ops[o] \in {"again", "quit"} /\ (ops[o] = "again" => taking = NoOp)
    /\ Move(o, IF ops[o] = "again" THEN "cc" ELSE "done")
    /\ UNCHANGED <<taking, inflight, attempts, outcome, there, ushist, ussc>>

\* the semaphore is given back, and the operation to the channel if it is to be repeated
Release(o) ==
    /\ ops[o] \in {"again", "quit"}
    /\ Move(o, IF ops[o] = "again" THEN "cc" ELSE "done")
    /\ UNCHANGED <<taking, inflight, attempts, outcome, there, ushist, ussc>>

\* the node is stopped and started: direct uploads end with an error, the subscription begins anew
PusherRestart ==
    /\ ushist.restarts < ussc.restarts
    /\ ushist' = [ushist EXCEPT !.restarts = @ + 1]
    /\ ops' = [o \in Ops |-> IF o[2] = "direct" /\ ops[o] # "idle" THEN "done" ELSE "idle"]
    /\ outcome' = [outcome EXCEPT !.direct = [c \in PusherChunks |->
                      IF @[c] = "none" /\ ops[<<c, "direct">>] # "idle" THEN "error" ELSE @[c]]]
    /\ taking' = NoOp /\ inflight' = {} /\ attempts' = [c \in PusherChunks |-> 0]
    /\ UNCHANGED <<there, ussc>>

OpStep(o) == PusherFeed(o) \/ TakeOp(o) \/ PushDeferred(o) \/ PushDirect(o) \/ Release(o)

PusherNext == PusherStart \/ PusherRestart \/ \E o \in Ops : OpStep(o)

PusherScenarios ==
    [deferred : SUBSET PusherChunks, direct : SUBSET PusherChunks, expired : SUBSET PusherChunks,
     faults : Nat, restarts : Nat]

PusherSpec == (\E sc \in PusherScenarios : PusherInit(sc)) /\ [][PusherNext]_pusherVars

-----------------------------------------------------------------------------
\* A chunk is in flight exactly while one operation of it is taken or pushed, so it is never
\* pushed by two goroutines at a time and never left marked by one that ended; and no more
\* goroutines push than the semaphore has room for.
InflightExact ==
    /\ \A c \in PusherChunks :
        Cardinality({w \in Ways : ops[<<c, w>>] \in {"sem", "push"}}) = (IF c \in inflight THEN 1 ELSE 0)
    /\ Cardinality(Busy) <= ConcurrentPushes

\* What is reported is so: a chunk reported as synced or stored, and one whose direct upload
\* returned without an error, is in the network or in the node's own reserve; and a deferred
\* chunk that is not reported is still to come.  The exceptions are operations passed over
\* because another one of the same chunk was in flight.
ReportedIsThere ==
    \A c \in PusherChunks :
        /\ outcome.report[c] \in {"synced", "stored"} => c \in there
        /\ outcome.direct[c] = "ok" => c \in there \/ <<c, "direct">> \in ushist.joined
        /\ ops[<<c, "deferred">>] \in {"done", "dropped"} =>
               outcome.report[c] # "none" \/ <<c, "deferred">> \in ushist.joined

\* The pusher's books are right: what is in flight, how much of it, and what became of a chunk
\* (chunksWorker, pushDeferred, pushDirect, inflight.set and delete).
PusherSound == InflightExact /\ ReportedIsThere

\* However shallow the receipts and however often peers fail for a while, every deferred chunk
\* is reported in the end, and every direct upload returns, unless it was passed over.
EventuallyReported ==
    \A c \in PusherChunks :
        /\ <>(c \in ussc.deferred => outcome.report[c] # "none" \/ <<c, "deferred">> \in ushist.joined)
        /\ <>(c \in ussc.direct => outcome.direct[c] # "none")
=============================================================================
