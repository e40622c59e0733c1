------------------------------ MODULE NodeLife ------------------------------
EXTENDS Sequences, Naturals, FiniteSets, Bags, BagsExt, TLC

(***************************************************************************)
(* The order in which a node is put together and taken apart: what         *)
(* NewAisc, bootstrapNode and NewDevAisc (pkg/node) open, in which order,  *)
(* which of these steps can fail, and under which field of Aisc the closer *)
(* of a component is recorded; and the order in which Shutdown closes what *)
(* is recorded.  A step is                                                 *)
(*                                                                         *)
(*   Try     a call that can fail and opens nothing,                       *)
(*   Start   a component that is opened and not recorded (yet),            *)
(*   Run     the same, for a constructor that cannot fail,                 *)
(*   Record  the assignment of a component to a field,                     *)
(*   Open    Start and Record,                                             *)
(*   Do      a step with an effect of its own (below).                     *)
(*                                                                         *)
(* The options of a node are a record o:                                   *)
(*   full, bootnode, chain, swap, chequebook, restricted, api, debug,      *)
(*   incentives: BOOLEAN; snapshot: a postage snapshot is wanted.          *)
(***************************************************************************)

Step(do, what, field) == [do |-> do, what |-> what, field |-> field]
Try(what)             == <<Step("try", what, "")>>
Start(component)      == <<Step("start", component, "")>>
Run(component)        == <<Step("run", component, "")>>
Record(field, what)   == <<Step("record", what, field)>>
Open(field, what)     == Start(what) \o Record(field, what)
Make(field, what)     == Run(what) \o Record(field, what)
Do(what)              == <<Step("do", what, "")>>
Only(cond, steps)     == IF cond THEN steps ELSE <<>>

-----------------------------------------------------------------------------
(* NewAisc. *)

\* InitStateStore: the database, its cache and its migrations.
InitStateStore ==
  Start("stateStore") \o Try("cache") \o Try("state migration")

\* The overlay address: a stored nonce, or a new one, and its check.
OverlaySteps ==
  Try("batchstore exists") \o Do("readNonce") \o Do("putNonce") \o
  Do("putOverlay") \o Do("checkOverlay")

\* InitChain: dial, chain ID, monitor, transaction service.
InitChain(o) ==
  Only(o.chain, Start("ethClient") \o Try("client version")) \o
  Only(~o.chain, Run("ethClient")) \o Try("chain id") \o Run("monitor") \o
  Start("transaction")

\* The stores, the overlay and the chain.  The tracer's closer is recorded as
\* the transaction service's.
StoreSteps(o) ==
  Start("tracer") \o Record("tracerCloser", "tracer") \o
  InitStateStore \o Record("stateStoreCloser", "stateStore") \o
  OverlaySteps \o Only(o.chain, Try("batchstore")) \o InitChain(o) \o
  Record("ethClientCloser", "ethClient") \o Try("configured chain id") \o
  Record("transactionCloser", "tracer") \o
  Record("transactionMonitorCloser", "monitor") \o
  Only(o.restricted, Try("authenticator")) \o
  Open("stamperStoreCloser", "stamperStore")

\* The debug server, the restricted API (its server is both the server and
\* the API's closer), and the wait for the chain.
EarlyApiSteps(o) ==
  Only(o.debug, Open("debugAPIServer", "debugServer")) \o
  Only(o.restricted, Run("apiService") \o Start("apiServer") \o
                     Record("apiServer", "apiServer") \o
                     Record("apiCloser", "apiServer")) \o
  Try("chain synced")

\* InitChequebookFactory and InitChequebookService.
ChequebookSteps(o) ==
  Only(o.swap, Try("factory address") \o Try("factory erc20") \o
               Only(o.chequebook /\ o.chain, Try("chequebook init")))

\* Payment options, then the bootstrap node where a snapshot is wanted.
ThresholdSteps(o) ==
  Try("payment options") \o Only(o.snapshot, Do("bootstrap"))

\* The network: libp2p, postage, the listener of the postage contract, hive
\* and kademlia.
NetworkSteps(o) ==
  Start("p2p") \o Record("p2pService", "p2p") \o
  Open("postageServiceCloser", "postage") \o Try("postage address") \o
  Make("listenerCloser", "listener") \o Try("batch service") \o
  Try("pingpong protocol") \o Run("hive") \o Try("hive protocol") \o
  Record("hiveCloser", "hive") \o Open("topologyCloser", "topology")

\* storer.New on a directory: the index, its migration, the recovery of the
\* data files, the data files, the recovery of transactions, the migration
\* that needs both, the cache and the reserve.
StorerNew ==
  Start("index") \o Try("core migration") \o Start("sharkyRecovery") \o
  Start("sharky") \o Try("recover index") \o Try("recover chunks") \o
  Try("migration") \o Try("cache") \o Start("localstore")

\* The local store and what its contract data need: evictFn is set before the
\* first batch can expire.
LocalSteps(o) ==
  StorerNew \o Record("localstoreCloser", "localstore") \o
  Record("evictFn", "localstore") \o Only(o.chain, Do("sync")) \o
  Try("thresholds") \o Try("pricing protocol") \o Try("addresses")

\* Accounting, settlement, pss, pushsync, status and salud.
ServiceSteps(o) ==
  Open("accountingCloser", "accounting") \o Try("pseudosettle protocol") \o
  Only(o.swap /\ o.chain, Open("priceOracleCloser", "priceOracle")) \o
  Make("pssCloser", "pss") \o Make("pushSyncCloser", "pushSync") \o
  Try("status protocol") \o Make("saludCloser", "salud")

\* Retrieval, pusher and pullsync, and their protocols; on a full node that
\* is no boot node the puller, the reserve worker and the agent.
SyncSteps(o) ==
  Run("retrieval") \o Make("pusherCloser", "pusher") \o
  Make("pullSyncCloser", "pullSync") \o Try("protocols") \o
  Try("staking address") \o
  Only(o.full /\ ~o.bootnode,
       Make("pullerCloser", "puller") \o
       Only(o.incentives, Try("redistribution address") \o
                          Open("storageIncetivesCloser", "agent"))) \o
  Make("resolverCloser", "resolver")

\* The API, then the node goes online.
ServeSteps(o) ==
  Only(o.api /\ ~o.restricted,
       Run("apiService") \o Start("apiServer") \o
       Record("apiServer", "apiServer") \o
       Record("apiCloser", "apiService")) \o
  Try("kademlia start") \o Do("ready")

NewAisc(o) ==
  StoreSteps(o) \o EarlyApiSteps(o) \o ChequebookSteps(o) \o
  ThresholdSteps(o) \o NetworkSteps(o) \o LocalSteps(o) \o ServiceSteps(o) \o
  SyncSteps(o) \o ServeSteps(o)

-----------------------------------------------------------------------------
(* bootstrapNode: a light node on the state store of the node it runs for. *)

BootNetworkSteps ==
  Start("tracer") \o Record("tracerCloser", "tracer") \o
  Open("p2pService", "p2p") \o Run("hive") \o Try("hive protocol") \o
  Record("hiveCloser", "hive") \o Open("topologyCloser", "topology") \o
  Try("pricing protocol")

BootServiceSteps ==
  Open("accountingCloser", "accounting") \o Try("pseudosettle protocol") \o
  Open("localstoreCloser", "localstore") \o Run("retrieval") \o
  Try("retrieval protocol") \o Record("retrievalCloser", "retrieval") \o
  Try("kademlia start") \o Do("ready") \o Try("peers")

\* The snapshot's reference, then its content, each tried three times.
FetchSteps == Do("fetchReference") \o Do("fetchContent") \o Try("decode")

bootstrapNode == BootNetworkSteps \o BootServiceSteps \o FetchSteps

-----------------------------------------------------------------------------
(* NewDevAisc: stores in memory, everything else mocked. *)

DevStoreSteps(o) ==
  Start("tracer") \o Record("tracerCloser", "tracer") \o
  Open("stateStoreCloser", "stateStore") \o Try("address") \o
  Try("batchstore") \o Try("keys") \o
  Only(o.restricted, Try("authenticator"))

DevServiceSteps(o) ==
  Only(o.debug, Open("debugAPIServer", "debugServer")) \o
  Open("localstoreCloser", "localstore") \o Make("pssCloser", "pss")

DevServeSteps ==
  Run("apiService") \o Start("apiServer") \o Record("apiServer", "apiServer") \o
  Record("apiCloser", "apiService")

NewDevAisc(o) == DevStoreSteps(o) \o DevServiceSteps(o) \o DevServeSteps

-----------------------------------------------------------------------------
(* The deploy and init commands: what they open, recorded by defer. *)

\* The three keys, in the order in which they are read or created.
configureSigner == Do("aisc") \o Do("libp2p") \o Do("pss")

DeploySteps(o) ==
  InitStateStore \o Record("stateStoreCloser", "stateStore") \o
  configureSigner \o InitChain(o) \o Record("ethClientCloser", "ethClient") \o
  Record("transactionMonitorCloser", "monitor") \o Try("factory address") \o
  Try("factory erc20") \o Try("chequebook init")

InitSteps ==
  configureSigner \o InitStateStore \o Record("stateStoreCloser", "stateStore")

-----------------------------------------------------------------------------
(* Shutdown: its stages in order, each a set of goroutines, each goroutine a
   sequence of fields.  A field that is not recorded is skipped. *)

ApiStages ==
  <<{<<"halt">>}, {<<"apiCloser">>}, {<<"apiServer">>, <<"debugAPIServer">>}>>

WorkerStage ==
  {<<"pssCloser">>, <<"pusherCloser">>, <<"pullerCloser">>,
   <<"accountingCloser">>, <<"ctxCancel">>, <<"pullSyncCloser">>,
   <<"hiveCloser">>, <<"saludCloser">>}

\* The goroutines that are only started once the context is cancelled.
AfterCancel == {"pullSyncCloser", "hiveCloser", "saludCloser"}

ChainStages ==
  <<{<<"p2pService">>}, {<<"priceOracleCloser">>},
    {<<"transactionMonitorCloser", "transactionCloser">>,
     <<"listenerCloser">>, <<"postageServiceCloser">>},
    {<<"ethClientCloser">>}>>

StoreStages ==
  <<{<<"tracerCloser", "topologyCloser", "storageIncetivesCloser",
       "stateStoreCloser", "stamperStoreCloser", "localstoreCloser",
       "resolverCloser">>}>>

Shutdown == ApiStages \o <<WorkerStage>> \o ChainStages \o StoreStages

DevShutdown ==
  SubSeq(ApiStages, 2, 3) \o
  <<{<<"pssCloser", "tracerCloser", "stateStoreCloser", "localstoreCloser">>}>>

\* The defers of the deploy command, last one first.
Defers ==
  <<{<<"transactionMonitorCloser", "ethClientCloser", "stateStoreCloser">>}>>

-----------------------------------------------------------------------------
(***************************************************************************)
(* The life of a node process (cmd/aisc/cmd/start.go, start_dev.go,        *)
(* deploy.go, init.go and pkg/node): the program that waits for the node   *)
(* to be built, for signals and for the node to stop; the goroutine that   *)
(* builds the node, step by step, each of which may fail (NewAisc shuts    *)
(* down what it has built so far); the bootstrap node that is built and    *)
(* shut down inside that; Shutdown, with its stages of parallel closers,   *)
(* while API requests are being served; and the identity of the node (its  *)
(* keys, the nonce and the overlay address), which is on disk and has to   *)
(* survive all of this, a kill at any point and changed options included.  *)
(*                                                                         *)
(* What the components do while they run is in their own modules.          *)
(***************************************************************************)

CONSTANTS
  LifeScenarios,  \* [cmd, o, networks, targeted, signals, kills, faults]:
                  \*   the command, the options of the node, the
                  \*   network ID of each life, whether a neighbourhood is
                  \*   targeted, and how many signals, kills and failing
                  \*   steps there are (bounds)
  MaxTries        \* getSnapshotRetries

VARIABLES lifeSc, prog, node, datadir, announced

lifeVars == <<lifeSc, prog, node, datadir, announced>>

Nobody == "none"
KeyFiles == {"aisc", "libp2p", "pss"}    \* the key files
Torn   == 1000                        \* a key file that does not decrypt

Off == [pc |-> "off", at |-> 1, up |-> {}, rec |-> <<>>, stages |-> <<>>,
        todo |-> {}, closed |-> EmptyBag, cancelled |-> FALSE, nonce |-> <<>>,
        failed |-> FALSE, tries |-> 0, bg |-> "off", reqs |-> "none"]

\* A process that begins: the build goroutine of start.go configures the
\* signer before it calls NewAisc; start_dev.go builds before it waits.
FreshNode(life) ==
  [pc |-> IF lifeSc.cmd = "start" THEN "wait" ELSE "build", life |-> life,
   sig |-> FALSE, watcher |-> lifeSc.cmd = "start", cancelled |-> FALSE,
   writing |-> Nobody, resp |-> "none", node |-> "nil", sigs |-> 0, end |-> "running"]

StepsOf(n) ==
  CASE n = "boot"              -> bootstrapNode
    [] lifeSc.cmd = "start"    -> configureSigner \o NewAisc(lifeSc.o)
    [] lifeSc.cmd = "dev"      -> NewDevAisc(lifeSc.o)
    [] lifeSc.cmd = "deploy"   -> DeploySteps(lifeSc.o)
    [] lifeSc.cmd = "init"     -> InitSteps

ShutdownOf(n) ==
  CASE n = "boot" \/ lifeSc.cmd = "start" -> Shutdown
    [] lifeSc.cmd = "dev"                 -> DevShutdown
    [] OTHER                              -> Defers

LifeInit ==
  /\ lifeSc \in LifeScenarios
  /\ prog = FreshNode(1)
  /\ node = [n \in {"main", "boot"} |->
              IF n = "main" THEN [Off EXCEPT !.pc = "building"] ELSE Off]
  /\ datadir = [keys |-> [k \in KeyFiles |-> 0], nonce |-> <<>>, overlay |-> <<>>,
             batches |-> FALSE, faults |-> 0, kills |-> 0]
  /\ announced = {}

Alive     == prog.pc # "exit"
Network   == lifeSc.networks[prog.life]
StepNow(n) == StepsOf(n)[node[n].at]
Building(n) ==
  /\ Alive
  /\ node[n].pc = "building"
  /\ node[n].at <= Len(StepsOf(n))

\* Node n has finished step s.
Passed1(n) == [node EXCEPT ![n].at = @ + 1]

\* A step fails: the deferred function of NewAisc and of bootstrapNode shuts
\* down what is recorded; NewDevAisc has none, and the commands run their
\* defers.  The tracer comes before the deferred function is set up.
Fails(n) ==
  IF (n = "main" /\ lifeSc.cmd = "dev") \/ node[n].rec = <<>>
  THEN [node EXCEPT ![n].pc = "done", ![n].failed = TRUE]
  ELSE [node EXCEPT ![n].pc = "closing", ![n].failed = TRUE,
                    ![n].stages = ShutdownOf(n)]

Fault == datadir.faults < lifeSc.faults
Faulted == [datadir EXCEPT !.faults = @ + 1]

StepFails(n) ==
  /\ Building(n)
  /\ StepNow(n).do \in {"try", "start"}
  /\ Fault
  /\ node' = Fails(n)
  /\ datadir' = Faulted
  /\ UNCHANGED <<lifeSc, prog, announced>>

Overlay == <<datadir.keys["aisc"], Network, node["main"].nonce>>

\* A component is opened.  libp2p listens, and announces the overlay.
Opens(n) ==
  /\ Building(n)
  /\ StepNow(n).do \in {"start", "run"}
  /\ node' = [Passed1(n) EXCEPT ![n].up = @ \cup {StepNow(n).what}]
  /\ announced' = IF StepNow(n).what = "p2p" THEN announced \cup {Overlay}
                                             ELSE announced
  /\ UNCHANGED <<lifeSc, prog, datadir>>

Records(n) ==
  /\ Building(n)
  /\ StepNow(n).do = "record"
  /\ node' = [Passed1(n) EXCEPT
                ![n].rec = (StepNow(n).field :> StepNow(n).what) @@ @]
  /\ UNCHANGED <<lifeSc, prog, datadir, announced>>

Tried(n) ==
  /\ Building(n)
  /\ StepNow(n).do = "try"
  /\ node' = Passed1(n)
  /\ UNCHANGED <<lifeSc, prog, datadir, announced>>

Doing(n, what) == Building(n) /\ StepNow(n) = Do(what)[1]

-----------------------------------------------------------------------------
(* The node's identity. *)

\* keystore.Key: a file without content is a key to create, one that does not
\* decrypt is an error.  A key is known by the life that created it.
Key(n, k) ==
  /\ Doing(n, k)
  /\ \/ /\ datadir.keys[k] = 0
        /\ prog.writing = Nobody
        /\ prog' = [prog EXCEPT !.writing = k]
        /\ UNCHANGED <<node, datadir>>
     \/ /\ datadir.keys[k] = 0
        /\ prog.writing = k
        /\ prog' = [prog EXCEPT !.writing = Nobody]
        /\ datadir' = [datadir EXCEPT !.keys[k] = prog.life]
        /\ node' = Passed1(n)
     \/ /\ datadir.keys[k] \notin {0, Torn}
        /\ node' = Passed1(n)
        /\ UNCHANGED <<prog, datadir>>
     \/ /\ datadir.keys[k] = Torn
        /\ node' = Fails(n)
        /\ UNCHANGED <<prog, datadir>>
  /\ UNCHANGED <<lifeSc, announced>>

\* The stored nonce is used; without one, a targeted neighbourhood is mined
\* for, which may fail, or the nonce is zero.
ReadNonce ==
  /\ Doing("main", "readNonce")
  /\ \/ /\ datadir.nonce # <<>>
        /\ node' = [node EXCEPT !["main"].nonce = datadir.nonce,
                                !["main"].at = @ + 3]
        /\ UNCHANGED datadir
     \/ /\ datadir.nonce = <<>>
        /\ node' = [Passed1("main") EXCEPT
                      !["main"].nonce = IF lifeSc.targeted
                                        THEN <<"mined", prog.life>>
                                        ELSE <<"zero", 0>>]
        /\ UNCHANGED datadir
     \/ /\ datadir.nonce = <<>>
        /\ lifeSc.targeted
        /\ Fault
        /\ node' = Fails("main")
        /\ datadir' = Faulted
  /\ UNCHANGED <<lifeSc, prog, announced>>

\* setOverlay makes both writes, and reports the failure of either.
PutNonce ==
  /\ Doing("main", "putNonce")
  /\ \/ /\ datadir' = [datadir EXCEPT !.nonce = node["main"].nonce]
        /\ node' = Passed1("main")
     \/ /\ Fault
        /\ datadir' = Faulted
        /\ node' = [Passed1("main") EXCEPT !["main"].failed = TRUE]
  /\ UNCHANGED <<lifeSc, prog, announced>>

PutOverlay ==
  /\ Doing("main", "putOverlay")
  /\ \/ /\ datadir' = [datadir EXCEPT !.overlay = Overlay]
        /\ node' = IF node["main"].failed THEN Fails("main")
                                         ELSE Passed1("main")
     \/ /\ Fault
        /\ datadir' = Faulted
        /\ node' = Fails("main")
  /\ UNCHANGED <<lifeSc, prog, announced>>

\* checkOverlay, and a mutant of it that only stores the overlay.
CheckOverlayStoring ==
  /\ Doing("main", "checkOverlay")
  /\ datadir' = [datadir EXCEPT !.overlay = Overlay]
  /\ node' = Passed1("main")
  /\ UNCHANGED <<lifeSc, prog, announced>>

CheckOverlay ==
  /\ Doing("main", "checkOverlay")
  /\ \/ /\ datadir.overlay = <<>>
        /\ datadir' = [datadir EXCEPT !.overlay = Overlay]
        /\ node' = Passed1("main")
     \/ /\ datadir.overlay = <<>>
        /\ Fault
        /\ datadir' = Faulted
        /\ node' = Fails("main")
     \/ /\ datadir.overlay # <<>>
        /\ node' = IF datadir.overlay = Overlay THEN Passed1("main")
                                             ELSE Fails("main")
        /\ UNCHANGED datadir
  /\ UNCHANGED <<lifeSc, prog, announced>>

-----------------------------------------------------------------------------
(* Bootstrap, contract data, and the end of the construction. *)

\* The bootstrap node is only run where no batch is stored.
Bootstrap ==
  /\ Doing("main", "bootstrap")
  /\ node' = IF datadir.batches
             THEN Passed1("main")
             ELSE [node EXCEPT !["main"].pc = "waiting",
                               !["boot"] = [Off EXCEPT !.pc = "building"]]
  /\ UNCHANGED <<lifeSc, prog, datadir, announced>>

\* Its error is logged, and the start goes on.
Bootstrapped ==
  /\ Alive
  /\ node["main"].pc = "waiting"
  /\ node["boot"].pc = "done"
  /\ node' = [Passed1("main") EXCEPT !["main"].pc = "building"]
  /\ UNCHANGED <<lifeSc, prog, datadir, announced>>

\* One of the attempts to fetch the reference or the content.
FetchSnapshot ==
  /\ Doing("boot", "fetchReference") \/ Doing("boot", "fetchContent")
  /\ \/ /\ node' = [Passed1("boot") EXCEPT !["boot"].tries = 0]
        /\ UNCHANGED datadir
     \/ /\ Fault
        /\ datadir' = Faulted
        /\ node' = IF node["boot"].tries + 1 = MaxTries
                   THEN Fails("boot")
                   ELSE [node EXCEPT !["boot"].tries = @ + 1]
  /\ UNCHANGED <<lifeSc, prog, announced>>

\* batchSvc.Start: a full node waits for the contract data, any other reads
\* them in the background.
Sync ==
  /\ Doing("main", "sync")
  /\ \/ /\ lifeSc.o.full
        /\ node' = Passed1("main")
        /\ datadir' = [datadir EXCEPT !.batches = TRUE]
     \/ /\ lifeSc.o.full
        /\ Fault
        /\ node' = Fails("main")
        /\ datadir' = Faulted
     \/ /\ ~lifeSc.o.full
        /\ node' = [Passed1("main") EXCEPT !["main"].bg = "syncing"]
        /\ UNCHANGED datadir
  /\ UNCHANGED <<lifeSc, prog, announced>>

SyncEnds ==
  /\ Alive
  /\ node["main"].bg = "syncing"
  /\ \/ /\ node' = [node EXCEPT !["main"].bg = "synced"]
        /\ datadir' = [datadir EXCEPT !.batches = TRUE]
     \/ /\ Fault
        /\ node' = [node EXCEPT !["main"].bg = "failed"]
        /\ datadir' = Faulted
  /\ UNCHANGED <<lifeSc, prog, announced>>

\* kademlia is started and p2p accepts connections.
GoOnline(n) ==
  /\ Doing(n, "ready")
  /\ \/ /\ node' = Passed1(n)
        /\ UNCHANGED datadir
     \/ /\ Fault
        /\ node' = Fails(n)
        /\ datadir' = Faulted
  /\ UNCHANGED <<lifeSc, prog, announced>>

\* Everything is built.  The bootstrap node and the commands close what they
\* opened; a node is handed to the program.
Built(n) ==
  /\ Alive
  /\ node[n].pc = "building"
  /\ node[n].at > Len(StepsOf(n))
  /\ node' = IF n = "boot" \/ lifeSc.cmd \in {"deploy", "init"}
             THEN [node EXCEPT ![n].pc = "closing",
                               ![n].stages = ShutdownOf(n)]
             ELSE [node EXCEPT ![n].pc = "built"]
  /\ prog' = IF n = "main" /\ lifeSc.cmd = "start"
             THEN [prog EXCEPT !.resp = "ok"]
             ELSE IF n = "main" /\ lifeSc.cmd = "dev"
                  THEN [prog EXCEPT !.pc = "run", !.node = "set"]
                  ELSE prog
  /\ UNCHANGED <<lifeSc, datadir, announced>>

-----------------------------------------------------------------------------
(* Shutdown, with the requests the API is serving. *)

Closing(n) == Alive /\ node[n].pc = "closing"

NextStage(n) ==
  /\ Closing(n)
  /\ node[n].todo = {}
  /\ node[n].stages # <<>>
  /\ node' = [node EXCEPT ![n].todo = Head(node[n].stages),
                          ![n].stages = Tail(@)]
  /\ UNCHANGED <<lifeSc, prog, datadir, announced>>

\* The requests after a closer: http.Server.Close cuts the connections and
\* leaves the handlers running, http.Server.Shutdown waits for them for so
\* long, and then leaves them too.
RequestsAfter(n, f) ==
  IF /\ f \in DOMAIN node[n].rec
     /\ node[n].rec[f] = "apiServer"
     /\ node[n].reqs = "open"
  THEN "left" ELSE node[n].reqs

\* One of the goroutines of the stage closes its next component (tryClose).
CloseOne(n) ==
  /\ Closing(n)
  /\ \E t \in node[n].todo :
       LET f == Head(t) IN
       /\ f \in AfterCancel => <<"ctxCancel">> \notin node[n].todo
       /\ node' =
            [node EXCEPT
              ![n].todo = (@ \ {t}) \cup
                          (IF Len(t) > 1 THEN {Tail(t)} ELSE {}),
              ![n].closed = IF f \in DOMAIN node[n].rec
                            THEN BagAdd(@, node[n].rec[f]) ELSE @,
              ![n].cancelled = @ \/ f = "ctxCancel",
              ![n].reqs = RequestsAfter(n, f)]
  /\ UNCHANGED <<lifeSc, prog, datadir, announced>>

\* Shutdown returns; a build that failed is reported to the program.
Closed(n) ==
  /\ Closing(n)
  /\ node[n].todo = {}
  /\ node[n].stages = <<>>
  /\ node' = [node EXCEPT ![n].pc = "done"]
  /\ UNCHANGED <<lifeSc, prog, datadir, announced>>

Request ==
  /\ Alive
  /\ "apiServer" \in node["main"].up \ BagToSet(node["main"].closed)
  /\ node["main"].reqs = "none"
  /\ node["main"].pc # "done"
  /\ node' = [node EXCEPT !["main"].reqs = "open"]
  /\ UNCHANGED <<lifeSc, prog, datadir, announced>>

Reply ==
  /\ Alive
  /\ node["main"].reqs # "none"
  /\ node' = [node EXCEPT !["main"].reqs = "none"]
  /\ UNCHANGED <<lifeSc, prog, datadir, announced>>

-----------------------------------------------------------------------------
(* The program. *)

\* The process ends: a key that was being written may be left torn.
LeftOf(d) ==
  {d} \cup (IF prog.writing = Nobody THEN {}
           ELSE {[d EXCEPT !.keys[prog.writing] = Torn]})

EndedCommand(how) == [prog EXCEPT !.pc = "exit", !.end = how, !.writing = Nobody]

Exit(how) == prog' = EndedCommand(how) /\ datadir' \in LeftOf(datadir)

\* SIGINT or SIGTERM: without a handler, it ends the process.
Signal ==
  /\ Alive
  /\ prog.sigs < lifeSc.signals
  /\ IF prog.pc = "build"
     THEN Exit("killed")
     ELSE /\ prog' = [prog EXCEPT !.sig = TRUE, !.sigs = @ + 1]
          /\ UNCHANGED datadir
  /\ UNCHANGED <<lifeSc, node, announced>>

\* The goroutine that cancels the context at the first signal.
Watch ==
  /\ Alive
  /\ prog.watcher
  /\ \/ /\ prog.sig
        /\ prog' = [prog EXCEPT !.sig = FALSE, !.cancelled = TRUE,
                                !.watcher = FALSE]
     \/ /\ prog.cancelled
        /\ prog' = [prog EXCEPT !.watcher = FALSE]
  /\ UNCHANGED <<lifeSc, node, datadir, announced>>

\* The build goroutine answers with an error once NewAisc has shut down.
BuildFailed ==
  /\ Alive
  /\ node["main"].pc = "done"
  /\ node["main"].failed
  /\ prog.pc # "shutting"
  /\ IF lifeSc.cmd = "start"
     THEN /\ prog.resp = "none"
          /\ prog' = [prog EXCEPT !.resp = "err"]
          /\ UNCHANGED datadir
     ELSE Exit("err")
  /\ UNCHANGED <<lifeSc, node, announced>>

\* program.start: the first select.
Await ==
  /\ prog.pc = "wait"
  /\ \/ /\ prog.resp = "ok"
        /\ prog' = [prog EXCEPT !.pc = "run", !.node = "set",
                                !.resp = "taken"]
     \/ /\ prog.resp = "err"
        /\ prog' = [prog EXCEPT !.pc = "stop", !.resp = "taken"]
     \/ /\ prog.cancelled
        /\ prog' = [prog EXCEPT !.pc = "stop"]
  /\ UNCHANGED <<lifeSc, node, datadir, announced>>

\* The second select, or the wait of start_dev.go for its signal.
Running ==
  /\ prog.pc = "run"
  /\ \/ /\ prog.cancelled \/ node["main"].bg = "failed"
        /\ prog' = [prog EXCEPT !.pc = "stop"]
     \/ /\ lifeSc.cmd = "dev"
        /\ prog.sig
        /\ prog' = [prog EXCEPT !.pc = "stop", !.sig = FALSE]
  /\ UNCHANGED <<lifeSc, node, datadir, announced>>

\* program.stop: Shutdown, if there is a node.
Stop ==
  /\ prog.pc = "stop"
  /\ IF prog.node = "nil"
     THEN /\ Exit("unbuilt")
          /\ UNCHANGED node
     ELSE /\ prog' = [prog EXCEPT !.pc = "shutting", !.cancelled = TRUE]
          /\ node' = [node EXCEPT !["main"].pc = "closing",
                                  !["main"].stages = ShutdownOf("main")]
          /\ UNCHANGED datadir
  /\ UNCHANGED <<lifeSc, announced>>

\* It returns, or another signal ends the wait.
Shutting ==
  /\ prog.pc = "shutting"
  /\ \/ /\ prog.sig
        /\ Exit("cut")
     \/ /\ node["main"].pc = "done"
        /\ Exit("clean")
  /\ UNCHANGED <<lifeSc, node, announced>>

\* The deploy and init commands return.
CommandDone ==
  /\ lifeSc.cmd \in {"deploy", "init"}
  /\ Alive
  /\ node["main"].pc = "done"
  /\ ~node["main"].failed
  /\ Exit("clean")
  /\ UNCHANGED <<lifeSc, node, announced>>

KillNode ==
  /\ Alive
  /\ datadir.kills < lifeSc.kills
  /\ prog' = EndedCommand("killed")
  /\ datadir' \in LeftOf([datadir EXCEPT !.kills = @ + 1])
  /\ UNCHANGED <<lifeSc, node, announced>>

Restart ==
  /\ prog.pc = "exit"
  /\ prog.life < Len(lifeSc.networks)
  /\ prog' = FreshNode(prog.life + 1)
  /\ node' = [n \in {"main", "boot"} |->
               IF n = "main" THEN [Off EXCEPT !.pc = "building"] ELSE Off]
  /\ UNCHANGED <<lifeSc, datadir, announced>>

BuildStep(n) ==
  StepFails(n) \/ Opens(n) \/ Records(n) \/ Tried(n) \/ GoOnline(n) \/ Built(n)

LifeNext ==
  \/ \E n \in {"main", "boot"} :
       \/ BuildStep(n) \/ NextStage(n) \/ CloseOne(n) \/ Closed(n)
  \/ \E k \in KeyFiles : Key("main", k)
  \/ ReadNonce \/ PutNonce \/ PutOverlay \/ CheckOverlay
  \/ Bootstrap \/ Bootstrapped \/ FetchSnapshot \/ Sync \/ SyncEnds
  \/ Request \/ Reply
  \/ Signal \/ Watch \/ BuildFailed \/ Await \/ Running \/ Stop
  \/ Shutting \/ CommandDone \/ KillNode \/ Restart

LifeSpec == LifeInit /\ [][LifeNext]_lifeVars

-----------------------------------------------------------------------------
(* Properties. *)

IsClosed(n, c) == BagIn(c, node[n].closed)

\* Fields that Shutdown does not close.
NeverClosed == {"pushSyncCloser", "retrievalCloser", "evictFn"}

\* What a component goes on using until it is closed (the arguments of its
\* constructor in NewAisc): the stores only.
Uses(c) ==
  CASE c \in {"puller", "agent", "listener", "requests"}
              -> {"stateStore", "localstore"}
    [] c \in {"accounting", "hive", "topology", "priceOracle"}
              -> {"stateStore"}
    [] c \in {"pusher", "salud", "pullSync", "p2p"} -> {"localstore"}
    [] c = "postage" -> {"stamperStore"}
    [] OTHER -> {}

\* The overlay address under which a node listens is the same in all its
\* lives: the keys and the nonce survive a kill between any two writes of
\* configureSigner and setOverlay, and checkOverlay refuses a start whose
\* options give another address.
OneIdentity == Cardinality(announced) <= 1

\* After Shutdown, whether it ended a node or a construction that failed,
\* what was recorded under a field is closed (pushSyncCloser and
\* retrievalCloser are never closed), and only the tracer, which is recorded
\* twice, and the server of a restricted API are closed twice.
ClosedAsRecorded ==
  \A n \in DOMAIN node :
    /\ node[n].pc = "done" /\ node[n].stages = <<>> /\ node[n].rec # <<>>
       /\ ~(lifeSc.cmd = "dev" /\ node[n].failed)
         => \A f \in DOMAIN node[n].rec \ NeverClosed :
              IsClosed(n, node[n].rec[f])
    /\ \A c \in BagToSet(node[n].closed) :
         CopiesIn(c, node[n].closed) > 1 => c \in {"tracer", "apiServer"}

\* Shutdown closes a store after everything recorded that uses it, and no
\* request is served then unless it was left behind: by the timeout of the
\* API's server, or in restricted mode, where the connections are cut.  (The
\* transaction service, which is never closed, and the local store are not
\* held to it: the state store is closed before them.)
Stores == {"stateStore", "stamperStore", "localstore"}

StoresLast ==
  \A st \in Stores :
    IsClosed("main", st) =>
      /\ \A f \in DOMAIN node["main"].rec :
           st \in Uses(node["main"].rec[f])
             => IsClosed("main", node["main"].rec[f])
      /\ st \in Uses("requests") => node["main"].reqs # "open"

\* The bootstrap node leaves what it borrowed: it never closes the state
\* store, and the node only listens once the bootstrap node does not.
BootLeaves ==
  /\ ~IsClosed("boot", "stateStore")
  /\ "p2p" \in node["main"].up /\ "p2p" \in node["boot"].up
       => IsClosed("boot", "p2p")

\* A process that ends by itself, after its program has taken the node, has
\* closed the stores.
StoresClosed ==
  prog.pc = "exit" /\ prog.end = "clean" /\ prog.node = "set"
    => \A st \in Stores :
         st \in node["main"].up => IsClosed("main", st)

LifeSound ==
  OneIdentity /\ ClosedAsRecorded /\ StoresLast /\ BootLeaves /\ StoresClosed

\* start.go: "Shutdown node (if node was fully started)".  Refuted: when the
\* node is built while the context is cancelled, the select of start may take
\* the cancellation, and stop finds no node.
ShutIfStarted ==
  prog.pc = "exit" /\ prog.end = "unbuilt" => node["main"].pc # "built"

\* start.go: "if libp2p key exists we can assume all required keys exist".
\* Refuted by a kill before the pss key is written.
AllKeys ==
  prog.writing = Nobody /\ prog.pc = "exit" /\ datadir.keys["libp2p"] # 0
    => datadir.keys["pss"] # 0
=============================================================================
