------------------------------- MODULE Program -------------------------------
(***************************************************************************)
(* cmd/rbacsync: one life of a process that is to serve (one asked for its *)
(* version prints it and ends), from main to its exit code.                *)
(* main sets up clients and grouper, NewController asks two informer       *)
(* factories for four informers, and then several goroutines run: main in  *)
(* Controller.Run, the two calls of factory.Start, the debug server, the   *)
(* signal handler, two workers and two pollers.                            *)
(*                                                                         *)
(* What a worker does in a pass is Controller and ClusterController; here  *)
(* a worker only works, for ever if a call of it hangs.                    *)
(***************************************************************************)
EXTENDS Naturals, Sequences, Functions

CONSTANTS
    MaxSignals      \* bound: signals sent to the process

ASSUME ProgramAssumption == MaxSignals \in Nat

ConfigKinds  == {"rbacsyncconfigs", "clusterrbacsyncconfigs"}
BindingKinds == {"rolebindings", "clusterrolebindings"}
Kinds        == ConfigKinds \union BindingKinds

VARIABLES
    main,               \* where main is
    calls,              \* how far NewController is
    wired,              \* the informers NewController got
    configs, bindings,  \* the two informer factories
    registry,           \* the metrics /metrics shows
    starting,           \* the goroutines that call factory.Start
    debugServer,
    sent, buffered,     \* signals sent; signals in the handler's channel
    handler,            \* where the signal handler is
    stop,               \* is stopCh closed?
    queueShutDown,      \* was c.queue shut down?
    worker,             \* the two workers and the two pollers
    exit                \* the exit code, "none" while the process runs

wiring    == <<calls, wired, registry>>
factories == <<configs, bindings>>
signals   == <<sent, buffered, handler, stop>>
programVars == <<main, wiring, factories, starting, debugServer,
                 signals, queueShutDown, worker, exit>>

Configs  == INSTANCE InformerFactory WITH
              Kind <- ConfigKinds, factory <- configs, stopped <- stop
Bindings == INSTANCE InformerFactory WITH
              Kind <- BindingKinds, factory <- bindings, stopped <- stop
Metrics  == INSTANCE QueueMetrics

Workers == {"worker", "clusterWorker", "poller", "clusterPoller"}

Init ==
    /\ main = "setup" /\ calls = 0
    /\ wired = [what \in {"lister", "hasSynced", "handlers"} |-> [k \in Kinds |-> 0]]
    /\ configs = Configs!NewFactory
    /\ bindings = Bindings!NewFactory
    /\ registry = Metrics!ControllerMetrics
    /\ starting = {}
    /\ debugServer = "none"
    /\ sent = 0 /\ buffered = 0 /\ handler = "none" /\ stop = FALSE
    /\ queueShutDown = FALSE
    /\ worker = [w \in Workers |-> "none"]
    /\ exit = "none"

-----------------------------------------------------------------------------
(* main *)

MainGoes(from, to) == exit = "none" /\ main = from /\ main' = to

\* The kube configuration, the two client sets and the grouper.
SetUp ==
    /\ MainGoes("setup", "newController")
    /\ UNCHANGED <<wiring, factories, starting, debugServer, signals,
                   queueShutDown, worker, exit>>

\* Any of them may be missing or wrong: klog.Fatal.
SetUpFails ==
    /\ MainGoes("setup", "ended")
    /\ exit' = "fatal"
    /\ UNCHANGED <<wiring, factories, starting, debugServer, signals,
                   queueShutDown, worker>>

\* NewController's calls of Lister, Informer().HasSynced, the constructor of named
\* queues and Informer().AddEventHandler, in their order.
Calls ==
    << <<"lister", "rbacsyncconfigs">>,        <<"hasSynced", "rbacsyncconfigs">>,
       <<"lister", "clusterrbacsyncconfigs">>, <<"hasSynced", "clusterrbacsyncconfigs">>,
       <<"lister", "rolebindings">>,           <<"hasSynced", "rolebindings">>,
       <<"lister", "clusterrolebindings">>,    <<"hasSynced", "clusterrolebindings">>,
       <<"queue", "rbacsyncconfigs">>,         <<"queue", "clusterrbacsyncconfigs">>,
       <<"handlers", "rbacsyncconfigs">>,      <<"handlers", "clusterrbacsyncconfigs">> >>

\* A queue registers its metrics; the other calls ask the kind's factory for the
\* informer.
NewController ==
    /\ exit = "none" /\ main = "newController" /\ calls < Len(Calls)
    /\ calls' = calls + 1
    /\ LET what == Calls[calls'][1]
           k    == Calls[calls'][2]
       IN  \/ /\ what = "queue"
              /\ registry' = Metrics!RegisterQueue(registry, <<k>>)
              /\ UNCHANGED <<wired, factories>>
           \/ /\ what # "queue" /\ k \in ConfigKinds
              /\ Configs!InformerFor(k)
              /\ wired' = [wired EXCEPT ![what][k] = configs'.informers[k]]
              /\ UNCHANGED <<bindings, registry>>
           \/ /\ what # "queue" /\ k \in BindingKinds
              /\ Bindings!InformerFor(k)
              /\ wired' = [wired EXCEPT ![what][k] = bindings'.informers[k]]
              /\ UNCHANGED <<configs, registry>>
    /\ UNCHANGED <<main, starting, debugServer, signals, queueShutDown, worker, exit>>

\* setupSignalHandler; up to here a signal has its default effect.
SetupSignalHandler ==
    /\ calls = Len(Calls)
    /\ MainGoes("newController", "start")
    /\ handler' = "first"
    /\ UNCHANGED <<wiring, factories, starting, debugServer, sent, buffered,
                   stop, queueShutDown, worker, exit>>

\* (mistake) Only the factory of the program's own types is started.
StartOne ==
    /\ MainGoes("start", "sync")
    /\ starting' = {"configs"}
    /\ debugServer' = "serving"
    /\ UNCHANGED <<wiring, factories, signals, queueShutDown, worker, exit>>

\* The go statements of main, and the call of Run.
StartEverything ==
    /\ MainGoes("start", "sync")
    /\ starting' = {"configs", "bindings"}
    /\ debugServer' = "serving"
    /\ UNCHANGED <<wiring, factories, signals, queueShutDown, worker, exit>>

-----------------------------------------------------------------------------
(* Controller.Run *)

HasSynced(k) ==
    <<k, wired["hasSynced"][k]>> \in configs.synced \union bindings.synced

\* (mistake) Run waits for the configs only.
SyncConfigs ==
    /\ \A k \in ConfigKinds : HasSynced(k)
    /\ MainGoes("sync", "serving")
    /\ worker' = [w \in Workers |-> "spawned"]
    /\ UNCHANGED <<wiring, factories, starting, debugServer, signals,
                   queueShutDown, exit>>

\* WaitForCacheSync returns true, even if stopCh has been closed meanwhile; the
\* workers and the pollers become goroutines.
CachesSynced ==
    /\ \A k \in Kinds : HasSynced(k)
    /\ MainGoes("sync", "serving")
    /\ worker' = [w \in Workers |-> "spawned"]
    /\ UNCHANGED <<wiring, factories, starting, debugServer, signals,
                   queueShutDown, exit>>

\* (mistake) Run returns nil when the caches have not been filled.
SyncStoppedQuietly ==
    /\ stop
    /\ MainGoes("sync", "returned")
    /\ queueShutDown' = TRUE
    /\ UNCHANGED <<wiring, factories, starting, debugServer, signals, worker, exit>>

\* WaitForCacheSync returns false: Run returns an error, through its deferred
\* ShutDown, and main calls klog.Fatalf.
SyncStopped ==
    /\ stop
    /\ MainGoes("sync", "ended")
    /\ queueShutDown' = TRUE
    /\ exit' = "fatal"
    /\ UNCHANGED <<wiring, factories, starting, debugServer, signals, worker>>

\* (mistake) Run waits for its goroutines before it returns.
ReturnAfterWorkers ==
    /\ stop
    /\ \A w \in Workers : worker[w] = "done"
    /\ MainGoes("serving", "returned")
    /\ queueShutDown' = TRUE
    /\ UNCHANGED <<wiring, factories, starting, debugServer, signals, worker, exit>>

\* stopCh is closed: Run returns nil, through its deferred ShutDown.
RunReturns ==
    /\ stop
    /\ MainGoes("serving", "returned")
    /\ queueShutDown' = TRUE
    /\ UNCHANGED <<wiring, factories, starting, debugServer, signals, worker, exit>>

\* main returns, and with it all goroutines end wherever they are.
MainReturns ==
    /\ MainGoes("returned", "ended")
    /\ exit' = "ok"
    /\ UNCHANGED <<wiring, factories, starting, debugServer, signals,
                   queueShutDown, worker>>

Main ==
    \/ SetUp \/ NewController \/ SetupSignalHandler \/ StartEverything
    \/ CachesSynced \/ SyncStopped \/ RunReturns \/ MainReturns

-----------------------------------------------------------------------------
(* The other goroutines *)

\* factory.Start, each in a goroutine of its own.
StartFactory(f) ==
    /\ exit = "none" /\ f \in starting
    /\ starting' = starting \ {f}
    /\ \/ f = "configs" /\ Configs!Start /\ UNCHANGED bindings
       \/ f = "bindings" /\ Bindings!Start /\ UNCHANGED configs
    /\ UNCHANGED <<main, wiring, debugServer, signals, queueShutDown, worker, exit>>

\* An informer fills its cache, if the API server answers (external).
InformerSynced(k, i) ==
    /\ exit = "none"
    /\ \/ k \in ConfigKinds /\ Configs!CacheSynced(k, i) /\ UNCHANGED bindings
       \/ k \in BindingKinds /\ Bindings!CacheSynced(k, i) /\ UNCHANGED configs
    /\ UNCHANGED <<main, wiring, starting, debugServer, signals, queueShutDown,
                   worker, exit>>

\* ListenAndServe returns: the address is taken, or the listener broke.
DebugServerFails ==
    /\ exit = "none" /\ debugServer = "serving"
    /\ debugServer' = "failed"
    /\ exit' = "fatal"
    /\ UNCHANGED <<main, wiring, factories, starting, signals, queueShutDown, worker>>

\* wait.Until runs its function unless stopCh is closed already.
GoroutineBegins(w) ==
    /\ exit = "none" /\ worker[w] = "spawned"
    /\ worker' = [worker EXCEPT ![w] = IF stop THEN "done" ELSE "working"]
    /\ UNCHANGED <<main, wiring, factories, starting, debugServer, signals,
                   queueShutDown, exit>>

\* The worker's Get returns when its queue has been shut down, which c.clusterqueue
\* never is; a poller ends with stopCh.  A pass or a poll under way ends first.
GoroutineEnds(w) ==
    /\ exit = "none" /\ worker[w] = "working"
    /\ \/ w = "worker" /\ queueShutDown
       \/ w \in {"poller", "clusterPoller"} /\ stop
    /\ worker' = [worker EXCEPT ![w] = "done"]
    /\ UNCHANGED <<main, wiring, factories, starting, debugServer, signals,
                   queueShutDown, exit>>

-----------------------------------------------------------------------------
(* Signals *)

\* (mistake) Signals pile up.
SignalUnbounded ==
    /\ exit = "none" /\ sent < MaxSignals
    /\ sent' = sent + 1
    /\ IF handler = "none"
         THEN exit' = "signalled" /\ UNCHANGED buffered
         ELSE buffered' = buffered + 1 /\ UNCHANGED exit
    /\ UNCHANGED <<main, wiring, factories, starting, debugServer, handler, stop,
                   queueShutDown, worker>>

\* SIGTERM or SIGINT.  The channel holds two; Notify drops what does not fit.
Signal ==
    /\ exit = "none" /\ sent < MaxSignals
    /\ sent' = sent + 1
    /\ IF handler = "none"
         THEN exit' = "signalled" /\ UNCHANGED buffered
         ELSE /\ buffered' = IF buffered < 2 THEN buffered + 1 ELSE buffered
              /\ UNCHANGED exit
    /\ UNCHANGED <<main, wiring, factories, starting, debugServer, handler, stop,
                   queueShutDown, worker>>

FirstSignal ==
    /\ exit = "none" /\ handler = "first" /\ buffered > 0
    /\ buffered' = buffered - 1
    /\ handler' = "second"
    /\ stop' = TRUE
    /\ UNCHANGED <<main, wiring, factories, starting, debugServer, sent,
                   queueShutDown, worker, exit>>

SecondSignal ==
    /\ exit = "none" /\ handler = "second" /\ buffered > 0
    /\ buffered' = buffered - 1
    /\ handler' = "done"
    /\ exit' = "second"
    /\ UNCHANGED <<main, wiring, factories, starting, debugServer, sent, stop,
                   queueShutDown, worker>>

Next ==
    \/ Main \/ SetUpFails
    \/ \E f \in {"configs", "bindings"} : StartFactory(f)
    \/ \E k \in Kinds, i \in {1, 2} : InformerSynced(k, i)
    \/ DebugServerFails
    \/ \E w \in Workers : GoroutineBegins(w) \/ GoroutineEnds(w)
    \/ Signal \/ FirstSignal \/ SecondSignal

\* The scheduler runs goroutines that can run.  Nothing is assumed of workers,
\* which may hang in a call, nor of the API server.
Fairness ==
    /\ WF_programVars(Main)
    /\ \A f \in {"configs", "bindings"} : WF_programVars(StartFactory(f))
    /\ WF_programVars(FirstSignal) /\ WF_programVars(SecondSignal)

\* An API server that answers the informers.
ApiFairness ==
    \A k \in Kinds : WF_programVars(\E i \in {1, 2} : InformerSynced(k, i))

Spec == Init /\ [][Next]_programVars
FairSpec == Spec /\ Fairness

-----------------------------------------------------------------------------
TypeOK ==
    /\ main \in {"setup", "newController", "start", "sync", "serving", "returned", "ended"}
    /\ calls \in 0..Len(Calls)
    /\ starting \subseteq {"configs", "bindings"}
    /\ sent \in 0..MaxSignals /\ buffered \in 0..2
    /\ handler \in {"none", "first", "second", "done"}
    /\ stop \in BOOLEAN /\ queueShutDown \in BOOLEAN
    /\ worker \in [Workers -> {"none", "spawned", "working", "done"}]
    /\ exit \in {"none", "ok", "fatal", "signalled", "second"}

\* Nothing is handled before all four caches have been filled: a pass that saw
\* half of the bindings would clean up too little, and one that polls half of
\* the configs would miss the others until the next poll.  And the caches that
\* were waited for are those the listers read, the ones whose events are
\* enqueued are those of the two kinds of configs.
WorksOnFullCaches ==
    \A w \in Workers : worker[w] # "none" =>
        /\ \A k \in Kinds : <<k, wired["lister"][k]>> \in configs.synced \union bindings.synced
        /\ \A k \in ConfigKinds : wired["handlers"][k] = wired["lister"][k]

\* Lister, handlers and HasSynced of a kind share one informer, which is run once,
\* in whatever order main's goroutines start the factories.
OneInformerPerKind == Configs!OneInformerPerKind /\ Bindings!OneInformerPerKind

\* Neither queue gets in the other's way in the registry, nor in that of
\* pkg/metrics: once the process serves, /metrics shows everything both count.
AllExposed ==
    calls = Len(Calls) =>
        /\ Metrics!ControllerMetrics \subseteq registry
        /\ \A k \in ConfigKinds : Range(Metrics!MetricsOf(<<k>>)) \subseteq registry

\* What the exit code tells the supervisor: 0 is an orderly end of a process that
\* had come to serve, 1 means that two signals arrived.
ExitCodeIsTrue ==
    /\ exit = "ok" => stop /\ queueShutDown /\ worker["worker"] # "none"
    /\ exit = "second" => sent >= 2
    /\ exit = "signalled" => ~stop /\ worker["worker"] = "none"

\* Once a signal was sent the process ends, whatever workers and API server do.
SignalEnds == (sent > 0) ~> (exit # "none")

\* If the API server answers, the process comes to serve, unless it ends.
ComesToServe == ApiFairness => <>(main = "serving" \/ exit # "none")
=============================================================================
