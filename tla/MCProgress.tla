----------------------------- MODULE MCProgress -----------------------------
(***************************************************************************)
(* What must eventually happen in the components of MCNetwork and MCChain, *)
(* on instances small enough for it.  A behaviour is of one component,     *)
(* chosen by focus: its goroutines run, and the others rest.               *)
(***************************************************************************)
EXTENDS Puller, Pusher, Kademlia, Postage, Transactions, Redistribution, TLC

VARIABLE focus

-----------------------------------------------------------------------------
InBins(zero, one) == [b \in {0, 1} |-> IF b = 0 THEN zero ELSE one]

\* one neighbour; the radius falls
Falling ==
    [peers |-> {"p"}, po |-> ("p" :> 1), chunkPO |-> ("c" :> 1) @@ ("d" :> 0),
     has |-> ("p" :> <<InBins(<<"d">>, <<"c">>), InBins(<<"d">>, <<"c">>)>>),
     n |-> ("p" :> InBins(1, 0)),
     radius |-> 1, radii |-> <<0>>, fails |-> 0, links |-> 0, restarts |-> 0]

\* a call fails or a chunk is damaged
Faulty == [Falling EXCEPT !.radii = <<>>, !.fails = 1]

\* the peer leaves and comes back
Returning == [Falling EXCEPT !.radii = <<>>, !.links = 1]

\* a peer outside the neighbourhood; the radius rises and falls
Outside == [Falling EXCEPT !.po["p"] = 0, !.radius = 0, !.radii = <<1, 0>>]

PullLive == {Falling, Faulty, Returning, Outside}

-----------------------------------------------------------------------------
Uploading == [deferred |-> {"c", "d"}, direct |-> {"c"}, expired |-> {}, faults |-> 1,
              restarts |-> 1]
PusherLive == {Uploading, [Uploading EXCEPT !.expired = {"d"}, !.restarts = 0]}

-----------------------------------------------------------------------------
Sparse ==
    [at |-> ("a" :> <<0, 1>>) @@ ("b" :> <<0, 1>>) @@ ("c" :> <<0, 2>>) @@ ("d" :> <<1, 1>>),
     known |-> {"a", "b", "c", "d"}, connected |-> {"c"}, unreachable |-> {}, sick |-> {},
     radius |-> 1, static |-> {}, callers |-> {}, bootnode |-> FALSE, blocked |-> {},
     willing |-> {"b", "c", "d"}, light |-> {}, changes |-> 1, radii |-> {2},
     broadcast |-> FALSE]

KadLive == {Sparse, [Sparse EXCEPT !.at["b"] = <<0, 2>>, !.connected = {"a", "b", "c"},
                                   !.willing = {"a", "b", "c", "d"}, !.radius = 2, !.radii = {0}]}

-----------------------------------------------------------------------------
Event(t, kind, i, v, d, a) ==
    [at |-> t, kind |-> kind, id |-> i, value |-> v, depth |-> d, amount |-> a]

Resynced ==
    [events |-> <<Event(1, "price", 0, 1, 0, 0), Event(2, "create", 1, 4, 1, 3),
                  Event(2, "create", 2, 9, 2, 8), Event(4, "topup", 2, 12, 0, 3)>>,
     batches |-> 2, mine |-> {2}, immutable |-> {2}, start |-> 4, head |-> 5, snap |-> 0,
     resyncs |-> 1, faults |-> 0, crashes |-> 1, stops |-> 0, uploads |-> 0, receipts |-> {},
     sound |-> TRUE]

PostageLive == {Resynced, [Resynced EXCEPT !.resyncs = 0, !.snap = 4, !.start = 5, !.faults = 1]}
OneBucket == [c \in {"a", "b", "c"} |-> 0]

Sending == [sends |-> 1, cancels |-> 1, faults |-> 1, crashes |-> 0, reorgs |-> 0, drops |-> 0]
TransactionsLive == {Sending, [Sending EXCEPT !.faults = 0, !.crashes = 1, !.cancels = 0],
                     [Sending EXCEPT !.faults = 0, !.reorgs = 1]}

Selected == [from |-> 2, blocks |-> 9, selected |-> {1}, frozen |-> {}, unfit |-> {}, lost |-> 0,
             crashes |-> 1, patient |-> TRUE]
RedistributionLive ==
    {Selected,
     [Selected EXCEPT !.selected = {1, 2}, !.frozen = {1}, !.unfit = {0}, !.blocks = 10,
                      !.crashes = 0],
     [Selected EXCEPT !.selected = {1, 2, 3}, !.unfit = {0}, !.blocks = 13, !.crashes = 0]}

-----------------------------------------------------------------------------
\* One of the scenarios of the component that is chosen, and one for each that rests.
One(component, scenarios) ==
    IF focus = component THEN scenarios ELSE {CHOOSE s \in scenarios : TRUE}

ProgressInit ==
    /\ focus \in {"puller", "pusher", "kademlia", "reacher", "postage", "transactions",
                  "redistribution"}
    /\ PullInit /\ pullSc \in One("puller", PullLive)
    /\ \E s \in One("pusher", PusherLive) : PusherInit(s)
    /\ \E s \in One("kademlia", KadLive) : KadInit(s)
    /\ ReacherInit(2)
    /\ \E s \in One("postage", PostageLive) : PostageInit(s)
    /\ \E s \in One("transactions", TransactionsLive) : TransactionsInit(s)
    /\ \E s \in One("redistribution", RedistributionLive) : RedistributionInit(s)

NetVars == <<pullVars, pusherVars, kadVars, reacherVars>>
ChainVars == <<pvars, tvars, rvars>>

NetNext ==
    \/ focus = "puller" /\ PullNext /\ UNCHANGED <<pusherVars, kadVars, reacherVars>>
    \/ focus = "pusher" /\ PusherNext /\ UNCHANGED <<pullVars, kadVars, reacherVars>>
    \/ focus = "kademlia" /\ KadNext /\ UNCHANGED <<pullVars, pusherVars, reacherVars>>
    \/ focus = "reacher" /\ ReacherNext /\ UNCHANGED <<pullVars, pusherVars, kadVars>>

ChainNext ==
    \/ focus = "postage" /\ PostageNext /\ UNCHANGED <<tvars, rvars>>
    \/ focus = "transactions" /\ TransactionsNext /\ UNCHANGED <<pvars, rvars>>
    \/ focus = "redistribution" /\ RedistributionNext /\ UNCHANGED <<pvars, tvars>>

ProgressNext ==
    \/ NetNext /\ UNCHANGED <<ChainVars, focus>>
    \/ ChainNext /\ UNCHANGED <<NetVars, focus>>

\* The goroutines of the puller run: the manager, also by its ticker, and every worker.
PullFairness ==
    /\ WF_pullVars(focus = "puller" /\ (Wake \/ ManageStep))
    /\ \A p \in PullPeers, b \in PullBins, h \in BOOLEAN :
          WF_pullVars(focus = "puller" /\ \E w \in pullers : w.peer = p /\ w.bin = b /\ w.hist = h /\ WorkerStep(w))

\* goroutines run, and the loop serves whoever waits at the channel again and again
PusherFairness ==
    /\ WF_pusherVars(focus = "pusher" /\ PusherStart)
    /\ \A o \in Ops :
          /\ SF_pusherVars(focus = "pusher" /\ TakeOp(o))
          /\ WF_pusherVars(focus = "pusher" /\ (PusherFeed(o) \/ PushDeferred(o) \/ PushDirect(o) \/ Release(o)))

\* the goroutines of the loop and of the dials run, and timers fire
KadFairness ==
    /\ WF_kadVars(focus = "kademlia" /\ KadLoop) /\ WF_kadVars(focus = "kademlia" /\ Wakes)
    /\ WF_kadVars(focus = "kademlia" /\ \E p \in KPeers : Attempt(p))
    /\ \A p \in KPeers : WF_kadVars(focus = "kademlia" /\ KWaitOver(p))

\* the goroutines run, pings end, time passes
ReacherFairness ==
    /\ WF_reacherVars(focus = "reacher" /\ (TryAcquire \/ WakeManage \/ SendPeer))
    /\ WF_reacherVars(focus = "reacher" /\ ReachTick)
    /\ WF_reacherVars(focus = "reacher" /\ \E p \in ReachPeers : Pinged(p))

\* A node that is down is started again (an operator, or a service manager); its loop and the
\* chain go on.  Weak fairness, written out with the conditions that enable the actions.
PostageFairness ==
    /\ []<>~(focus = "postage" /\ SyncReady) \/ []<><<focus = "postage" /\ Sync>>_pvars
    /\ []<>~(focus = "postage" /\ node.pc = "down") \/ []<><<focus = "postage" /\ NodeStart(FALSE, FALSE)>>_pvars
    /\ []<>~(focus = "postage" /\ node.pc = "failed") \/ []<><<focus = "postage" /\ Shutdown>>_pvars
    /\ WF_pvars(focus = "postage" /\ NewBlock)

\* the sender, the monitor and the waiters run, a node that is down is started, blocks are mined
TransactionsFairness ==
    /\ WF_tvars(focus = "transactions" /\ SendRecord) /\ WF_tvars(focus = "transactions" /\ MonitorStep) /\ WF_tvars(focus = "transactions" /\ TxRestart)
    /\ WF_tvars(focus = "transactions" /\ \E w \in waiters : Watch(w)) /\ WF_tvars(focus = "transactions" /\ MineBlock)

\* the goroutines of the agent run, blocks are mined
RedistributionFairness ==
    /\ WF_rvars(focus = "redistribution" /\ PhaseCheck) /\ WF_rvars(focus = "redistribution" /\ PhasePublish) /\ WF_rvars(focus = "redistribution" /\ NextBlock)
    /\ WF_rvars(focus = "redistribution" /\ \E t \in tasks : Handle(t))

ProgressFairness ==
    /\ PullFairness /\ PusherFairness /\ KadFairness /\ ReacherFairness
    /\ PostageFairness /\ TransactionsFairness /\ RedistributionFairness

ProgressSpec ==
    ProgressInit /\ [][ProgressNext]_<<NetVars, ChainVars, focus>> /\ ProgressFairness

-----------------------------------------------------------------------------
\* Chunks move: what a neighbour has is pulled, and an upload is reported or given up, over
\* failed calls, changes of the radius and restarts (Puller.manage, Service.chunksWorker).
ChunksMove ==
    /\ focus = "puller" => EventuallyPulled
    /\ focus = "pusher" => EventuallyReported

\* The overlay forms: the topology ends up connected to whom it can be, and each connected
\* peer is pinged (Kad.manage, reacher.manage).
OverlayForms ==
    /\ focus = "kademlia" => KadBuilt
    /\ focus = "reacher" => EventuallyPinged

\* The node follows the chain: batches are synced up to the head, the waiters for a transaction
\* are told, a selected node reveals what it committed (listener.Listen, transactionMonitor,
\* Agent.start).
ChainFollowed ==
    /\ focus = "postage" => EventuallySynced
    /\ focus = "transactions" => EventuallyTold
    /\ focus = "redistribution" => SelectedRevealed
=============================================================================
