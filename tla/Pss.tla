-------------------------------- MODULE Pss --------------------------------
(***************************************************************************)
(* Messages inside chunks (pkg/pss) and the websockets they are delivered  *)
(* to (pkg/api/pss.go).  A sender encrypts a message and mines a nonce     *)
(* with a group of goroutines until the chunk's address is close to the    *)
(* recipient.  Every chunk that push-sync or pull-sync stores is tried     *)
(* against the topics that have a handler; each handler runs in a          *)
(* goroutine of its own until its websocket takes the message.             *)
(*                                                                         *)
(* The handlers of a topic are a Go slice: removing one shifts the array   *)
(* that a delivery may be reading.                                         *)
(***************************************************************************)
EXTENDS Integers, Sequences, FiniteSets

CONSTANTS
    PssHandlers,     \* websockets
    TopicOf,         \* the topic each subscribes to
    Miners           \* goroutines of mine, and places in its channel

VARIABLES
    pssSc,        \* the chunks that arrive, and the message that is sent
    arrays,       \* the arrays behind the handler slices, by number
    handlers,     \* topic to slice (array and length), for the topics ever registered
    sockets,      \* what became of each websocket
    unwraps,      \* the TryUnwrap of each chunk
    running,      \* handler goroutines: chunk, place in the slice, handler, message
    calls,        \* the handler calls made: chunk, place, handler, message
    pssClosed,
    mining        \* the goroutines of mine, its channel and its caller

pssvars == <<pssSc, arrays, handlers, sockets, unwraps, running, calls, pssClosed, mining>>

None == "none"
NoTopic == "zero"
NoMessage == "nil"

-----------------------------------------------------------------------------
(* A chunk: whether it is full, whether a public key can be read from it,  *)
(* and for a trojan chunk who can read it, about what, with which message  *)
(* (None when the integrity check will fail).                              *)

Plain == [full |-> TRUE, pub |-> TRUE, for |-> None, topic |-> None, msg |-> None]

\* matchTopic with the node's key, or else with the key made of the topic
matchTopic(chunk, topic) == chunk.topic = topic /\ chunk.for \in {"node", "topic"}

decryptAndCheck(chunk) == chunk.msg # None

UnwrapUnchecked(chunk, order) ==
    LET hits == {k \in DOMAIN order : matchTopic(chunk, order[k])}
    IN  IF hits # {} THEN [topic |-> chunk.topic, msg |-> chunk.msg]
        ELSE [topic |-> NoTopic, msg |-> NoMessage]

\* Unwrap, over the topics in the order a map gives them: the last one tried and its message
Unwrap(chunk, order) ==
    LET hits == {k \in DOMAIN order : matchTopic(chunk, order[k]) /\ decryptAndCheck(chunk)}
    IN  CASE hits # {} -> [topic |-> chunk.topic, msg |-> chunk.msg]
          [] hits = {} /\ order # <<>> -> [topic |-> order[Len(order)], msg |-> NoMessage]
          [] OTHER -> [topic |-> NoTopic, msg |-> NoMessage]

Orders(S) == {f \in [1 .. Cardinality(S) -> S] : \A a, b \in DOMAIN f : f[a] = f[b] => a = b}

-----------------------------------------------------------------------------
(* Slices.                                                                 *)

NilSlice == [array |-> 0, len |-> 0]
Slice(topic) == IF topic \in DOMAIN handlers THEN handlers[topic] ELSE NilSlice
Capacity(slice) == IF slice.array = 0 THEN 0 ELSE Len(arrays[slice.array])
Elements(slice) == IF slice.len = 0 THEN <<>> ELSE SubSeq(arrays[slice.array], 1, slice.len)

With(topic, slice) ==
    [t \in DOMAIN handlers \cup {topic} |-> IF t = topic THEN slice ELSE handlers[t]]

\* Register: append writes after the last element when there is room, else into an array twice
\* the size
Register(h) ==
    LET old == Slice(TopicOf[h])
        room == IF old.len = 0 THEN 1 ELSE 2 * old.len
    IN  /\ sockets[h] = "new" /\ ~pssClosed
        /\ sockets' = [sockets EXCEPT ![h] = "open"]
        /\ IF old.len < Capacity(old)
           THEN /\ arrays' = [arrays EXCEPT ![old.array][old.len + 1] = h]
                /\ handlers' = With(TopicOf[h], [old EXCEPT !.len = @ + 1])
           ELSE /\ arrays' = Append(arrays, [k \in 1 .. room |->
                                  IF k <= old.len THEN arrays[old.array][k]
                                  ELSE IF k = old.len + 1 THEN h ELSE None])
                /\ handlers' = With(TopicOf[h], [array |-> Len(arrays) + 1, len |-> old.len + 1])
        /\ UNCHANGED <<pssSc, unwraps, running, calls, pssClosed, mining>>

\* the cleanup function of Register: the elements after the handler move one place down, in the
\* array itself
CleanupHandler(h) ==
    LET s == Slice(TopicOf[h])
        at == {k \in 1 .. s.len : arrays[s.array][k] = h}
    IN  IF at = {} THEN UNCHANGED <<arrays, handlers>>
        ELSE LET i == CHOOSE k \in at : \A j \in at : k <= j
             IN  /\ arrays' = [arrays EXCEPT ![s.array] =
                         [k \in DOMAIN @ |-> IF k >= i /\ k < s.len THEN @[k + 1] ELSE @[k]]]
                 /\ handlers' = With(TopicOf[h], [s EXCEPT !.len = @ - 1])

\* pumpWs returns: a write or a ping failed
SocketFails(h) ==
    /\ sockets[h] = "open"
    /\ sockets' = [sockets EXCEPT ![h] = "gone"]
    /\ CleanupHandler(h)
    /\ UNCHANGED <<pssSc, unwraps, running, calls, pssClosed, mining>>

\* pss.Close
ClosePss ==
    /\ ~pssClosed
    /\ pssClosed' = TRUE
    /\ handlers' = [t \in {} |-> NilSlice]
    /\ UNCHANGED <<pssSc, arrays, sockets, unwraps, running, calls, mining>>

-----------------------------------------------------------------------------
(* TryUnwrap.                                                              *)

\* a short chunk and one without a public key are left alone; else Unwrap with the topics of now
TryUnwrap(c) ==
    /\ unwraps[c].pc = "new"
    /\ IF ~pssSc.chunks[c].full \/ ~pssSc.chunks[c].pub
       THEN unwraps' = [unwraps EXCEPT ![c].pc = "done"]
       ELSE \E order \in Orders(DOMAIN handlers) :
                LET r == Unwrap(pssSc.chunks[c], order)
                IN  unwraps' = [unwraps EXCEPT ![c] =
                        [@ EXCEPT !.pc = "match", !.topic = r.topic, !.msg = r.msg,
                                  !.since = {h \in PssHandlers : sockets[h] = "open"}]]
    /\ UNCHANGED <<pssSc, arrays, handlers, sockets, running, calls, pssClosed, mining>>

\* getHandlers: the slice, not its elements
GetHandlers(c) ==
    /\ unwraps[c].pc = "match"
    /\ unwraps' = [unwraps EXCEPT ![c].pc = IF unwraps[c].topic \in DOMAIN handlers
                                           THEN "call" ELSE "done",
                                 ![c].slice = Slice(unwraps[c].topic)]
    /\ UNCHANGED <<pssSc, arrays, handlers, sockets, running, calls, pssClosed, mining>>

\* one turn of the loop: the element that is in the array now is called in a goroutine
CallNext(c) ==
    LET u == unwraps[c]
        call == [chunk |-> c, at |-> u.next, handler |-> arrays[u.slice.array][u.next],
                 msg |-> u.msg]
    IN  /\ u.pc = "call" /\ u.next <= u.slice.len
        /\ running' = running \cup {call}
        /\ calls' = calls \cup {call}
        /\ unwraps' = [unwraps EXCEPT ![c].next = @ + 1]
        /\ UNCHANGED <<pssSc, arrays, handlers, sockets, pssClosed, mining>>

CallsMade(c) ==
    /\ unwraps[c].pc = "call" /\ unwraps[c].next > unwraps[c].slice.len
    /\ unwraps' = [unwraps EXCEPT ![c].pc = "done"]
    /\ UNCHANGED <<pssSc, arrays, handlers, sockets, running, calls, pssClosed, mining>>

\* the handler of pumpWs: the socket takes the message, or the service closes
HandlerReturns(g) ==
    /\ g \in running
    /\ sockets[g.handler] = "open" \/ pssClosed
    /\ running' = running \ {g}
    /\ UNCHANGED <<pssSc, arrays, handlers, sockets, unwraps, calls, pssClosed, mining>>

-----------------------------------------------------------------------------
(* Send.  Wrap refuses a message that is too long and targets that are     *)
(* missing or of different lengths; then the nonce is mined.               *)

checkTargets(lens) == lens # <<>> /\ \A k \in DOMAIN lens : lens[k] = lens[1]

\* a random nonce may or may not give an address with one of the targets as its prefix, and
\* hashing or the random source may fail
Attempts == {"found", "miss", "error"}

WrapMessage ==
    LET fails == pssSc.send.long \/ ~checkTargets(pssSc.send.targets)
    IN  /\ mining.caller = "start"
        /\ mining' = [mining EXCEPT !.caller = IF fails THEN "refused" ELSE "wait"]
        /\ UNCHANGED <<pssSc, arrays, handlers, sockets, unwraps, running, calls, pssClosed>>

MiningStopped == mining.caller \notin {"start", "wait"} \/ mining.failed \/ mining.cancelled

\* one turn of a goroutine's loop
Mine(m) ==
    /\ mining.caller \notin {"idle", "start", "refused"}
    /\ mining.worker[m] = "run"
    /\ IF MiningStopped
       THEN mining' = [mining EXCEPT !.worker[m] = "ended", !.failed = TRUE]
       ELSE \E a \in Attempts :
                mining' = [mining EXCEPT !.worker[m] = CASE a = "found" -> "send"
                                                         [] a = "error" -> "ended"
                                                         [] OTHER -> "run",
                                         !.failed = @ \/ a = "error"]
    /\ UNCHANGED <<pssSc, arrays, handlers, sockets, unwraps, running, calls, pssClosed>>

\* result <- res
ChannelSizeSmall == Cardinality(Miners) - 1
ChannelSize == Cardinality(Miners)

SendFound(m) ==
    /\ mining.worker[m] = "send"
    /\ Len(mining.chan) < ChannelSize
    /\ mining' = [mining EXCEPT !.worker[m] = "ended", !.chan = Append(@, "chunk")]
    /\ UNCHANGED <<pssSc, arrays, handlers, sockets, unwraps, running, calls, pssClosed>>

\* eg.Wait returned its first error: nil is sent
Waited ==
    /\ mining.waiter = "wait" /\ \A m \in Miners : mining.worker[m] = "ended"
    /\ Len(mining.chan) < ChannelSize
    /\ mining' = [mining EXCEPT !.waiter = "ended", !.chan = Append(@, "nil"),
                                !.err = mining.failed]
    /\ UNCHANGED <<pssSc, arrays, handlers, sockets, unwraps, running, calls, pssClosed>>

\* mine returns what is received first, and err when that is nil
Mined ==
    /\ mining.caller = "wait" /\ mining.chan # <<>>
    /\ mining' = [mining EXCEPT !.chan = Tail(@),
                      !.caller = CASE Head(mining.chan) = "chunk" -> "mined"
                                   [] Head(mining.chan) = "nil" /\ mining.err -> "failed"
                                   [] OTHER -> "nothing"]
    /\ UNCHANGED <<pssSc, arrays, handlers, sockets, unwraps, running, calls, pssClosed>>

\* the request's context ends
CancelSend ==
    /\ mining.caller = "wait" /\ ~mining.cancelled
    /\ mining' = [mining EXCEPT !.cancelled = TRUE]
    /\ UNCHANGED <<pssSc, arrays, handlers, sockets, unwraps, running, calls, pssClosed>>

\* the stamp and the push of a chunk that was mined: none of them may fail, or the issuer's
\* record is not saved (pssPostHandler)
PushMined ==
    /\ mining.caller = "mined"
    /\ \E outcome \in {"saved", "unstamped", "unpushed", "unsaved"} :
           mining' = [mining EXCEPT !.caller = outcome]
    /\ UNCHANGED <<pssSc, arrays, handlers, sockets, unwraps, running, calls, pssClosed>>

-----------------------------------------------------------------------------
PssInit(s) ==
    /\ pssSc = s
    /\ arrays = <<>>
    /\ handlers = [t \in {} |-> NilSlice]
    /\ sockets = [h \in PssHandlers |-> IF h \in s.sockets THEN "new" ELSE "unused"]
    /\ unwraps = [c \in DOMAIN s.chunks |->
                     [pc |-> "new", topic |-> None, msg |-> None, slice |-> NilSlice, next |-> 1,
                      since |-> {}]]
    /\ running = {} /\ calls = {}
    /\ pssClosed = FALSE
    /\ mining = [caller |-> IF s.sends THEN "start" ELSE "idle",
                 worker |-> [m \in Miners |-> "run"], waiter |-> "wait", chan |-> <<>>,
                 failed |-> FALSE, err |-> FALSE, cancelled |-> FALSE]

Deliveries ==
    \/ \E h \in PssHandlers : Register(h) \/ SocketFails(h)
    \/ ClosePss
    \/ \E c \in DOMAIN unwraps : TryUnwrap(c) \/ GetHandlers(c) \/ CallNext(c) \/ CallsMade(c)
    \/ \E g \in running : HandlerReturns(g)

Sending ==
    \/ WrapMessage \/ Waited \/ Mined \/ CancelSend \/ PushMined
    \/ \E m \in Miners : Mine(m) \/ SendFound(m)

PssNext == Deliveries \/ Sending

-----------------------------------------------------------------------------
\* The handlers a chunk was delivered to.
Called(c) == {g \in calls : g.chunk = c}

\* A handler is given a message only when the message is of its topic, passed its integrity
\* check and was readable with the node's key or the topic's (TryUnwrap, Unwrap).
DeliveredRight ==
    \A g \in calls : g.msg # NoMessage =>
        LET c == pssSc.chunks[g.chunk]
        IN  /\ c.full /\ c.pub /\ c.for \in {"node", "topic"} /\ c.msg # None
            /\ g.msg = c.msg /\ TopicOf[g.handler] = c.topic

\* When no socket goes away during the delivery, every handler that was registered when the
\* message was unwrapped is called with it, once.
DeliveredOnce ==
    \A c \in DOMAIN unwraps :
        (/\ unwraps[c].pc = "done" /\ unwraps[c].msg \notin {None, NoMessage}
         /\ ~pssClosed /\ \A h \in PssHandlers : sockets[h] # "gone") =>
            \A h \in unwraps[c].since : TopicOf[h] = unwraps[c].topic =>
                Cardinality({g \in Called(c) : g.handler = h}) = 1

\* mine returns a chunk or an error (Send uses the chunk when there is no error), and leaves no
\* goroutine behind that waits for room in the channel.
MineAnswers ==
    /\ mining.caller # "nothing"
    /\ (/\ mining.caller \notin {"idle", "start", "wait", "refused"}
        /\ Len(mining.chan) = ChannelSize) =>
           mining.waiter = "ended" /\ \A m \in Miners : mining.worker[m] = "ended"

\* Messages reach the handlers of their topic, and mining answers.
PssSound == DeliveredRight /\ DeliveredOnce /\ MineAnswers

\* "TryUnwrap allows unwrapping a chunk as a trojan message and calling its handlers based on the
\* topic" (pss.go): a chunk that holds no message for a topic of this node is given to no handler.
OnlyMessages == \A g \in calls : g.msg # NoMessage

\* Every handler registered before and after a delivery gets the message once, whatever happens
\* to the other handlers of the topic.
EachHandlerOnce ==
    \A c \in DOMAIN unwraps :
        (unwraps[c].pc = "done" /\ unwraps[c].msg \notin {None, NoMessage} /\ ~pssClosed) =>
            \A h \in unwraps[c].since : (TopicOf[h] = unwraps[c].topic /\ sockets[h] = "open") =>
                Cardinality({g \in Called(c) : g.handler = h}) = 1
=============================================================================
