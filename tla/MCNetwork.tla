------------------------------ MODULE MCNetwork ------------------------------
(***************************************************************************)
(* Small instances of what a node does with its peers: connections and     *)
(* topology, and the protocols that move chunks.  A behaviour is of one    *)
(* component, chosen by focus, while the others rest in their initial      *)
(* state.                                                                  *)
(***************************************************************************)
EXTENDS Puller, PushSync, Retrieval, Pusher, Peers, Kademlia, PeerHealth, TLC

VARIABLE focus

-----------------------------------------------------------------------------
\* The puller: numbers 1, 2.. of the bins 0 and 1 of the peers, before and after a new epoch.

InBins(zero, one) == [b \in {0, 1} |-> IF b = 0 THEN zero ELSE one]
NoChunks == <<InBins(<<>>, <<>>), InBins(<<>>, <<>>)>>

\* one neighbour; the radius falls, a call fails or a chunk is damaged
Falling ==
    [peers |-> {"p"}, po |-> ("p" :> 1) @@ ("q" :> 1),
     chunkPO |-> ("c" :> 1) @@ ("d" :> 0) @@ ("e" :> 1),
     has |-> ("p" :> <<InBins(<<"d">>, <<"c", "e">>), InBins(<<"d">>, <<"e", "c">>)>>)
               @@ ("q" :> NoChunks),
     n |-> ("p" :> InBins(1, 1)) @@ ("q" :> InBins(0, 0)),
     radius |-> 1, radii |-> <<0>>, fails |-> 1, links |-> 0, restarts |-> 0]

\* the peer leaves and comes back, and the node restarts
Returning == [Falling EXCEPT !.radii = <<>>, !.fails = 0, !.links = 1, !.restarts = 1]

\* a peer outside the neighbourhood; the radius rises and falls
Outside ==
    [Falling EXCEPT !.po["p"] = 0, !.radius = 0, !.radii = <<1, 0>>, !.fails = 0,
                    !.has["p"] = <<InBins(<<"c">>, <<"d">>), InBins(<<"c">>, <<"d">>)>>]

\* two peers that have one chunk
Both ==
    [Falling EXCEPT !.peers = {"p", "q"}, !.po["p"] = 0, !.radii = <<>>, !.fails = 0,
                    !.n["p"] = InBins(1, 0),
                    !.has = ("p" :> <<InBins(<<"c">>, <<>>), InBins(<<"c">>, <<"d">>)>>)
                              @@ ("q" :> <<InBins(<<>>, <<"c">>), InBins(<<>>, <<"c">>)>>)]

\* the radius rises and falls around a restart
Moving ==
    [Falling EXCEPT !.radius = 0, !.radii = <<1, 0>>, !.fails = 0, !.restarts = 1,
                    !.has["p"] = <<InBins(<<"d">>, <<"c">>), InBins(<<"d">>, <<"c">>)>>]

PullSafe == {Falling, Returning, Outside, Both, Moving}

-----------------------------------------------------------------------------
\* Push sync: an origin o, and a, b, c ever closer to the chunk.

Square == ("o" :> {"a", "b"}) @@ ("a" :> {"o", "b", "c"}) @@ ("b" :> {"o", "a", "c"})
            @@ ("c" :> {"a", "b"})
Distance == ("o" :> 4) @@ ("a" :> 3) @@ ("b" :> 2) @@ ("c" :> 1)

Open4 ==
    [origin |-> "o", links |-> Square, dist |-> Distance, grade |-> [n \in PushNodes |-> 2],
     public |-> PushNodes, full |-> PushNodes, warm |-> PushNodes, aor |-> {"c"},
     near |-> [n \in PushNodes |-> {"b", "c"}], faults |-> 1, overs |-> 0, ticks |-> 0]

\* nodes that are not publicly reachable, and nobody's storage radius covers the chunk
Hidden ==
    [Open4 EXCEPT !.public = {"o", "c"}, !.aor = {}, !.grade["c"] = 1,
                        !.near = [n \in PushNodes |-> {}], !.faults = 0, !.overs = 1, !.ticks = 1]

\* a light origin, and a node that still warms up
LightOrigin ==
    [Open4 EXCEPT !.full = {"a", "b", "c"}, !.public = {"a", "b", "c"},
                        !.warm = {"o", "b", "c"}, !.near = [n \in PushNodes |-> {"c"}]]

PushSafe == {Open4, Hidden, LightOrigin}

-----------------------------------------------------------------------------
\* Retrieval: two users ask for the chunk of c, which is shared and cached on its way.

Shared ==
    [links |-> ("o" :> {"a", "b"}) @@ ("a" :> {"o", "b"}) @@ ("b" :> {"o", "a", "c"})
                 @@ ("c" :> {"b"}),
     dist |-> Distance, grade |-> [n \in RNodes |-> IF n = "b" THEN 1 ELSE 2],
     holders |-> {"c"}, near |-> {"b", "c"}, users |-> {"o", "a"}, caching |-> TRUE,
     faults |-> 0, overs |-> 0, ticks |-> 0]

\* one user, an overdraft and a tick that starts a second attempt
Preempted == [Shared EXCEPT !.users = {"o"}, !.overs = 1, !.ticks = 1, !.links = Square]

\* one user, and an answer that fails or is not the chunk
Failing == [Shared EXCEPT !.users = {"o"}, !.faults = 1, !.caching = FALSE]

RetrievalSafe == {Shared, Preempted, Failing}

-----------------------------------------------------------------------------
\* The pusher: a chunk that is uploaded directly and one that is deferred as well.

Uploading == [deferred |-> {"c", "d"}, direct |-> {"c"}, expired |-> {}, faults |-> 1,
              restarts |-> 1]
PusherSafe == {Uploading, [Uploading EXCEPT !.expired = {"d"}, !.restarts = 0]}

\* what is proved of every network and scenario is proved of these
ASSUME InstancesCovered ==
    PushSafe \subseteq PushNets /\ RetrievalSafe \subseteq RetrNets /\ PusherSafe \subseteq PusherScenarios

-----------------------------------------------------------------------------
\* Connections: dialled, incoming, closed, failing handshakes, blocked peers.

Meeting == [full |-> {"a"}, known |-> {"a"}, unpicked |-> {}, callers |-> {"a"}, dials |-> 1,
            ins |-> 1, closes |-> 1, faults |-> 1, blocks |-> 0]

\* light nodes beyond the limit
Crowd == [Meeting EXCEPT !.full = {}, !.known = {}, !.callers = {"a", "b", "c"}, !.dials = 0,
                         !.ins = 3, !.closes = 0, !.faults = 0]

PeersSafe ==
    {Meeting, [Meeting EXCEPT !.faults = 0, !.blocks = 1], [Meeting EXCEPT !.dials = 2, !.ins = 0],
     [Meeting EXCEPT !.full = {}],
     [Meeting EXCEPT !.dials = 0, !.known = {}, !.ins = 2, !.faults = 0],
     Crowd, [Crowd EXCEPT !.ins = 2, !.closes = 1, !.callers = {"a", "b"}],
     [Crowd EXCEPT !.ins = 1, !.callers = {"a"}, !.unpicked = {"a"}, !.full = {"a"}]}

-----------------------------------------------------------------------------
\* Kademlia: five peers in three bins of two slots.

Slots5 == ("a" :> <<0, 1>>) @@ ("b" :> <<0, 1>>) @@ ("c" :> <<0, 2>>) @@ ("d" :> <<1, 1>>)
            @@ ("e" :> <<2, 1>>)

Grown ==
    [at |-> Slots5, known |-> {"a", "b", "c", "d"}, connected |-> {"a", "b", "c"},
     unreachable |-> {"b"}, sick |-> {}, radius |-> 1, static |-> {}, callers |-> {"e"},
     bootnode |-> FALSE, blocked |-> {}, willing |-> {"a", "b", "c", "d"}, light |-> {"e"},
     changes |-> 2, radii |-> {2}, broadcast |-> FALSE]

KadSafe ==
    {Grown,
     [Grown EXCEPT !.connected = {}, !.known = {"a", "b", "c"}, !.blocked = {"a"},
                   !.willing = {"b", "c", "d"}, !.radii = {0}, !.callers = {}, !.light = {}],
     [Grown EXCEPT !.bootnode = TRUE, !.unreachable = {}, !.callers = {"d", "e"}, !.changes = 3,
                   !.at["e"] = <<0, 2>>, !.radii = {}],
     [Grown EXCEPT !.sick = {"b"}, !.radius = 2],
     [Grown EXCEPT !.radius = 3, !.known = {"a", "b", "c", "d", "e"}]}

-----------------------------------------------------------------------------
\* Hive: two senders that name peers p and q with underlays of which some answer.

Gossip ==
    [sends |-> ("s" :> <<<<"p", "u">>, <<"q", "v">>, <<"p", "w">>>>)
                 @@ ("t" :> <<<<"p", "w">>, <<"q", "v">>>>),
     book |-> ("p" :> NoUnderlay) @@ ("q" :> "v"), bootnode |-> FALSE, alive |-> {"u", "v"},
     refills |-> 1, clears |-> 1, drops |-> 1]

HiveSafe == {Gossip, [Gossip EXCEPT !.bootnode = TRUE],
             [Gossip EXCEPT !.book["q"] = NoUnderlay, !.alive = {"u", "v", "w"}]}

-----------------------------------------------------------------------------
\* Salud: the answers of four peers in two bins, one of which may be alone in its bin.

Healthy == [radius |-> 1, dur |-> 1, conns |-> 2, commit |-> 7]
FourAnswers == {Healthy, [Healthy EXCEPT !.dur = 3], [Healthy EXCEPT !.commit = 8],
                [Healthy EXCEPT !.radius = 3]}
TwoBins == ("a" :> 0) @@ ("b" :> 0) @@ ("c" :> 0) @@ ("d" :> 1)
RankOf == <<0, 1, 1, 2>>

SaludSafe == {[peers |-> {"a", "b", "d"}, radius |-> 1, changes |-> 0, rounds |-> 1],
              [peers |-> {"a", "d"}, radius |-> 1, changes |-> 1, rounds |-> 0]}

-----------------------------------------------------------------------------
\* One of the scenarios of the component that is chosen, and one for each that rests.
One(component, scenarios) ==
    IF focus = component THEN scenarios ELSE {CHOOSE s \in scenarios : TRUE}

NetInit ==
    /\ focus \in {"puller", "pushsync", "retrieval", "pusher", "peers", "kademlia", "reacher",
                  "blocker", "hive", "salud"}
    /\ PullInit /\ pullSc \in One("puller", PullSafe)
    /\ \E s \in One("pushsync", PushSafe) : PushInit(s)
    /\ \E s \in One("retrieval", RetrievalSafe) : RetrInit(s)
    /\ \E s \in One("pusher", PusherSafe) : PusherInit(s)
    /\ \E s \in One("peers", PeersSafe) : PeersInit(s)
    /\ \E s \in One("kademlia", KadSafe) : KadInit(s)
    /\ ReacherInit(2)
    /\ \E s \in One("blocker", {"blocker", "breaker"}) : BlockerInit(s)
    /\ \E s \in One("hive", HiveSafe) : HiveInit(s)
    /\ \E s \in One("salud", SaludSafe) : SaludInit(s)

SyncVars == <<pullVars, pushVars, retrVars, pusherVars>>
OverlayVars == <<peerVars, kadVars, reacherVars, blockerVars, hiveVars, saludVars>>

SyncNext ==
    \/ focus = "puller" /\ PullNext /\ UNCHANGED <<pushVars, retrVars, pusherVars>>
    \/ focus = "pushsync" /\ PushNext /\ UNCHANGED <<pullVars, retrVars, pusherVars>>
    \/ focus = "retrieval" /\ RetrNext /\ UNCHANGED <<pullVars, pushVars, pusherVars>>
    \/ focus = "pusher" /\ PusherNext /\ UNCHANGED <<pullVars, pushVars, retrVars>>

OverlayNext ==
    \/ focus = "peers" /\ PeersNext
         /\ UNCHANGED <<kadVars, reacherVars, blockerVars, hiveVars, saludVars>>
    \/ focus = "kademlia" /\ KadNext
         /\ UNCHANGED <<peerVars, reacherVars, blockerVars, hiveVars, saludVars>>
    \/ focus = "reacher" /\ ReacherNext
         /\ UNCHANGED <<peerVars, kadVars, blockerVars, hiveVars, saludVars>>
    \/ focus = "blocker" /\ BlockerNext
         /\ UNCHANGED <<peerVars, kadVars, reacherVars, hiveVars, saludVars>>
    \/ focus = "hive" /\ HiveNext
         /\ UNCHANGED <<peerVars, kadVars, reacherVars, blockerVars, saludVars>>
    \/ focus = "salud" /\ SaludNext
         /\ UNCHANGED <<peerVars, kadVars, reacherVars, blockerVars, hiveVars>>

NetNext ==
    \/ SyncNext /\ UNCHANGED <<OverlayVars, focus>>
    \/ OverlayNext /\ UNCHANGED <<SyncVars, focus>>

NetSpec == NetInit /\ [][NetNext]_<<SyncVars, OverlayVars, focus>>

-----------------------------------------------------------------------------
\* The overlay is kept: the depth is right, nobody is blocklisted or judged unhealthy too
\* early, gossip leaves dialable peers (recalcDepth, blocker, breaker, hive, salud).
OverlayKept == DepthCorrect /\ GuardsPatient /\ GossipSound /\ BinsKept
==============================================================================
