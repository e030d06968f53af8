---------------------------- MODULE ProgramProofs ----------------------------
(***************************************************************************)
(* What holds of the process for any number of signals.  The exit code     *)
(* rests on counting signals and on where main can be when; that work      *)
(* begins on full caches rests on NewController having got the lister, the *)
(* HasSynced function and the handlers of a kind from one informer.  That  *)
(* no metric is refused is followed through the registry, whose metrics    *)
(* are told apart by the first words of their names and by their labels.   *)
(***************************************************************************)
EXTENDS Program, TLAPS

-----------------------------------------------------------------------------
(* Types, and where main can be when *)

\* handler's progress is the number of signals it has taken.
Taken == CASE handler = "second" -> 1 [] handler = "done" -> 2 [] OTHER -> 0

StageInv ==
    /\ main \in {"setup", "newController"} => handler = "none"
    /\ main \in {"start", "sync", "serving", "returned"} => calls = Len(Calls)
    /\ main \in {"start", "sync"} => \A w \in Workers : worker[w] = "none"
    /\ handler = "none" => /\ main \notin {"start", "sync", "serving", "returned"}
                           /\ ~stop /\ buffered = 0 /\ exit \in {"none", "fatal", "signalled"}
                           /\ \A w \in Workers : worker[w] = "none"
    /\ handler # "none" => exit # "signalled"
    /\ buffered + Taken <= sent
    /\ main \in {"serving", "returned"} => worker["worker"] # "none"
    /\ main = "returned" => stop /\ queueShutDown
    /\ exit = "ok" => stop /\ queueShutDown /\ worker["worker"] # "none"
    /\ exit = "second" => handler = "done"
    /\ main = "ended" => exit # "none"

LEMMA CallsLen == Len(Calls) = 12
BY DEF Calls

LEMMA InitStage == Init => TypeOK /\ StageInv
<1> SUFFICES ASSUME Init PROVE TypeOK /\ StageInv
  OBVIOUS
<1>1. worker \in [Workers -> {"none", "spawned", "working", "done"}]
  BY DEF Init
<1>2. TypeOK
  <2>1. calls \in 0..Len(Calls) /\ sent \in 0..MaxSignals /\ buffered \in 0..2
    BY CallsLen, ProgramAssumption DEF Init
  <2>2. /\ main \in {"setup", "newController", "start", "sync", "serving", "returned", "ended"}
        /\ starting \subseteq {"configs", "bindings"}
        /\ handler \in {"none", "first", "second", "done"}
        /\ stop \in BOOLEAN /\ queueShutDown \in BOOLEAN
        /\ exit \in {"none", "ok", "fatal", "signalled", "second"}
    BY DEF Init
  <2> QED
    BY <1>1, <2>1, <2>2 DEF TypeOK
<1>3. Taken = 0
  BY DEF Init, Taken
<1>4. \A w \in Workers : worker[w] = "none"
  BY DEF Init
<1>5. StageInv
  BY <1>3, <1>4 DEF Init, StageInv
<1> QED
  BY <1>2, <1>5

LEMMA NextStage == ASSUME TypeOK, StageInv, [Next]_programVars PROVE TypeOK' /\ StageInv'
<1> USE CallsLen, ProgramAssumption
<1>1. ASSUME SetUp PROVE TypeOK' /\ StageInv'
  BY <1>1 DEF SetUp, MainGoes, wiring, factories, signals, TypeOK, StageInv, Taken, Workers
<1>2. ASSUME NewController PROVE TypeOK' /\ StageInv'
  BY <1>2 DEF NewController, signals, TypeOK, StageInv, Taken, Workers
<1>3. ASSUME SetupSignalHandler PROVE TypeOK' /\ StageInv'
  BY <1>3 DEF SetupSignalHandler, MainGoes, wiring, factories, TypeOK, StageInv, Taken, Workers
<1>4. ASSUME StartEverything PROVE TypeOK' /\ StageInv'
  BY <1>4 DEF StartEverything, MainGoes, wiring, factories, signals, TypeOK, StageInv, Taken,
              Workers
<1>5. ASSUME CachesSynced PROVE TypeOK' /\ StageInv'
  BY <1>5 DEF CachesSynced, MainGoes, wiring, factories, signals, TypeOK, StageInv, Taken,
              Workers
<1>6. ASSUME SyncStopped PROVE TypeOK' /\ StageInv'
  BY <1>6 DEF SyncStopped, MainGoes, wiring, factories, signals, TypeOK, StageInv, Taken,
              Workers
<1>7. ASSUME RunReturns PROVE TypeOK' /\ StageInv'
  BY <1>7 DEF RunReturns, MainGoes, wiring, factories, signals, TypeOK, StageInv, Taken,
              Workers
<1>8. ASSUME MainReturns PROVE TypeOK' /\ StageInv'
  BY <1>8 DEF MainReturns, MainGoes, wiring, factories, signals, TypeOK, StageInv, Taken,
              Workers
<1>9. ASSUME SetUpFails PROVE TypeOK' /\ StageInv'
  BY <1>9 DEF SetUpFails, MainGoes, wiring, factories, signals, TypeOK, StageInv, Taken,
              Workers
<1>10. ASSUME NEW f \in {"configs", "bindings"}, StartFactory(f) PROVE TypeOK' /\ StageInv'
  BY <1>10 DEF StartFactory, wiring, signals, TypeOK, StageInv, Taken, Workers
<1>11. ASSUME NEW k \in Kinds, NEW i \in {1, 2}, InformerSynced(k, i)
       PROVE  TypeOK' /\ StageInv'
  BY <1>11 DEF InformerSynced, wiring, signals, TypeOK, StageInv, Taken, Workers
<1>12. ASSUME DebugServerFails PROVE TypeOK' /\ StageInv'
  BY <1>12 DEF DebugServerFails, wiring, factories, signals, TypeOK, StageInv, Taken, Workers
<1>13. ASSUME NEW w \in Workers, GoroutineBegins(w) PROVE TypeOK' /\ StageInv'
  BY <1>13 DEF GoroutineBegins, wiring, factories, signals, TypeOK, StageInv, Taken, Workers
<1>14. ASSUME NEW w \in Workers, GoroutineEnds(w) PROVE TypeOK' /\ StageInv'
  BY <1>14 DEF GoroutineEnds, wiring, factories, signals, TypeOK, StageInv, Taken, Workers
<1>15. ASSUME Signal PROVE TypeOK' /\ StageInv'
  BY <1>15 DEF Signal, wiring, factories, TypeOK, StageInv, Taken, Workers
<1>16. ASSUME FirstSignal PROVE TypeOK' /\ StageInv'
  BY <1>16 DEF FirstSignal, wiring, factories, TypeOK, StageInv, Taken, Workers
<1>17. ASSUME SecondSignal PROVE TypeOK' /\ StageInv'
  BY <1>17 DEF SecondSignal, wiring, factories, TypeOK, StageInv, Taken, Workers
<1>18. ASSUME UNCHANGED programVars PROVE TypeOK' /\ StageInv'
  BY <1>18 DEF programVars, wiring, factories, signals, TypeOK, StageInv, Taken, Workers
<1> QED
  BY <1>1, <1>2, <1>3, <1>4, <1>5, <1>6, <1>7, <1>8, <1>9, <1>10, <1>11, <1>12, <1>13,
     <1>14, <1>15, <1>16, <1>17, <1>18 DEF Next, Main

\* The counters and program counters of main, the signal handler and the workers stay
\* in their ranges: no more than two signals wait in the channel.
THEOREM Types == Spec => []TypeOK
BY InitStage, NextStage, PTL DEF Spec

\* What an exit code says is so, whatever the order of signals, set-up errors,
\* the debug server and the goroutines.
THEOREM ExitCodes == Spec => []ExitCodeIsTrue
<1>1. TypeOK /\ StageInv => ExitCodeIsTrue
  BY DEF TypeOK, StageInv, Taken, ExitCodeIsTrue, Workers
<1> QED
  BY <1>1, InitStage, NextStage, PTL DEF Spec

-----------------------------------------------------------------------------
(* The two factories *)

ConfigsProved  == INSTANCE InformerFactoryProofs WITH
                    Kind <- ConfigKinds, factory <- configs, stopped <- stop
BindingsProved == INSTANCE InformerFactoryProofs WITH
                    Kind <- BindingKinds, factory <- bindings, stopped <- stop

FactoriesInv == ConfigsProved!FactoryInv /\ BindingsProved!FactoryInv

LEMMA InitFactories == Init => FactoriesInv
<1>1. Init => ConfigsProved!Init
  BY DEF Init, ConfigsProved!Init, ConfigsProved!NewFactory, Configs!NewFactory
<1>2. Init => BindingsProved!Init
  BY DEF Init, BindingsProved!Init, BindingsProved!NewFactory, Bindings!NewFactory
<1> QED
  BY <1>1, <1>2, ConfigsProved!InitFactory, BindingsProved!InitFactory DEF FactoriesInv

\* A call that finds stopCh as it was is a step of the factory it is made to.
LEMMA CallsAreSteps ==
    ASSUME UNCHANGED stop
    PROVE  /\ \A k \in ConfigKinds : Configs!InformerFor(k) => ConfigsProved!Next
           /\ \A k \in BindingKinds : Bindings!InformerFor(k) => BindingsProved!Next
           /\ Configs!Start => ConfigsProved!Next
           /\ Bindings!Start => BindingsProved!Next
           /\ \A k \in ConfigKinds : \A i : Configs!CacheSynced(k, i) => ConfigsProved!Next
           /\ \A k \in BindingKinds : \A i : Bindings!CacheSynced(k, i) => BindingsProved!Next
<1>1. \A k \in ConfigKinds : Configs!InformerFor(k) => ConfigsProved!Next
  BY DEF Configs!InformerFor, Configs!Requested, ConfigsProved!InformerFor,
         ConfigsProved!Requested, ConfigsProved!Next
<1>2. \A k \in BindingKinds : Bindings!InformerFor(k) => BindingsProved!Next
  BY DEF Bindings!InformerFor, Bindings!Requested, BindingsProved!InformerFor,
         BindingsProved!Requested, BindingsProved!Next
<1>3. Configs!Start => ConfigsProved!Next
  BY DEF Configs!Start, Configs!Requested, ConfigsProved!Start,
         ConfigsProved!Requested, ConfigsProved!Next
<1>4. Bindings!Start => BindingsProved!Next
  BY DEF Bindings!Start, Bindings!Requested, BindingsProved!Start,
         BindingsProved!Requested, BindingsProved!Next
<1>5. \A k \in ConfigKinds : \A i : Configs!CacheSynced(k, i) => ConfigsProved!Next
  BY DEF Configs!CacheSynced, ConfigsProved!CacheSynced, ConfigsProved!Next,
         Configs!Range, ConfigsProved!Range
<1>6. \A k \in BindingKinds : \A i : Bindings!CacheSynced(k, i) => BindingsProved!Next
  BY DEF Bindings!CacheSynced, BindingsProved!CacheSynced, BindingsProved!Next,
         Bindings!Range, BindingsProved!Range
<1> QED
  BY <1>1, <1>2, <1>3, <1>4, <1>5, <1>6

\* Every step of the process is one of both factories, or none.
LEMMA FactorySteps ==
    ASSUME TypeOK, [Next]_programVars
    PROVE  /\ [ConfigsProved!Next]_(ConfigsProved!factoryVars)
           /\ [BindingsProved!Next]_(BindingsProved!factoryVars)
<1> USE DEF ConfigsProved!factoryVars, BindingsProved!factoryVars
<1>1. CASE UNCHANGED <<configs, bindings, stop>>
  BY <1>1
<1>2. CASE SetUp \/ SetupSignalHandler \/ StartEverything \/ CachesSynced \/ SyncStopped
           \/ RunReturns \/ MainReturns \/ SetUpFails
  BY <1>1, <1>2 DEF SetUp, SetupSignalHandler, StartEverything, CachesSynced, SyncStopped,
                    RunReturns, MainReturns, SetUpFails, factories, signals
<1>3. CASE NewController
  BY <1>3, CallsAreSteps DEF NewController, signals, factories
<1>4. ASSUME NEW f \in {"configs", "bindings"}, StartFactory(f)
      PROVE  /\ [ConfigsProved!Next]_(ConfigsProved!factoryVars)
             /\ [BindingsProved!Next]_(BindingsProved!factoryVars)
  BY <1>4, CallsAreSteps DEF StartFactory, signals
<1>5. ASSUME NEW k \in Kinds, NEW i \in {1, 2}, InformerSynced(k, i)
      PROVE  /\ [ConfigsProved!Next]_(ConfigsProved!factoryVars)
             /\ [BindingsProved!Next]_(BindingsProved!factoryVars)
  BY <1>5, CallsAreSteps DEF InformerSynced, signals
<1>6. CASE FirstSignal
  <2>1. UNCHANGED <<configs, bindings>> /\ stop' = TRUE
    BY <1>6 DEF FirstSignal, factories
  <2>2. CASE stop
    BY <1>1, <2>1, <2>2
  <2>3. CASE ~stop
    BY <2>1, <2>3 DEF ConfigsProved!Next, ConfigsProved!CloseStop,
                      BindingsProved!Next, BindingsProved!CloseStop
  <2> QED
    BY <2>2, <2>3
<1>7. CASE DebugServerFails \/ Signal \/ SecondSignal
  BY <1>1, <1>7 DEF DebugServerFails, Signal, SecondSignal, factories, signals
<1>8. ASSUME NEW w \in Workers, GoroutineBegins(w) \/ GoroutineEnds(w)
      PROVE  UNCHANGED <<configs, bindings, stop>>
  BY <1>8 DEF GoroutineBegins, GoroutineEnds, factories, signals
<1>9. CASE UNCHANGED programVars
  BY <1>1, <1>9 DEF programVars, factories, signals
<1> QED
  BY <1>1, <1>2, <1>3, <1>4, <1>5, <1>6, <1>7, <1>8, <1>9 DEF Next, Main

LEMMA NextFactories ==
    ASSUME TypeOK, FactoriesInv, [Next]_programVars
    PROVE  FactoriesInv'
BY FactorySteps, ConfigsProved!NextFactory, BindingsProved!NextFactory DEF FactoriesInv

\* However main's goroutines and NewController come to their factories, each kind
\* gets one informer, which runs once.
THEOREM InformersOfProcess == Spec => []OneInformerPerKind
<1>1. FactoriesInv => OneInformerPerKind
  <2>1. ConfigsProved!FactoryInv => ConfigsProved!OneInformerPerKind
    BY ConfigsProved!OneAtATime
  <2>2. BindingsProved!FactoryInv => BindingsProved!OneInformerPerKind
    BY BindingsProved!OneAtATime
  <2> QED
    BY <2>1, <2>2 DEF FactoriesInv, OneInformerPerKind, Configs!OneInformerPerKind,
       Bindings!OneInformerPerKind, ConfigsProved!OneInformerPerKind,
       BindingsProved!OneInformerPerKind
<1>2. Init => TypeOK /\ StageInv /\ FactoriesInv
  BY InitStage, InitFactories
<1>3. TypeOK /\ StageInv /\ FactoriesInv /\ [Next]_programVars
        => (TypeOK /\ StageInv /\ FactoriesInv)'
  BY NextStage, NextFactories
<1> QED
  BY <1>1, <1>2, <1>3, PTL DEF Spec

-----------------------------------------------------------------------------
(* The wiring *)

Uses == {"lister", "hasSynced", "handlers"}

\* The call has been made, and gave the kind's informer.
Wired(what, k) == what # "queue" => wired[what][k] = 1

WiringInv ==
    /\ wired \in [Uses -> [Kinds -> Nat]]
    /\ \A j \in 1..calls : Wired(Calls[j][1], Calls[j][2])
    /\ \A w \in Workers : worker[w] # "none" =>
          calls = Len(Calls) /\ \A k \in Kinds : HasSynced(k)

\* Which call is the one of a use and a kind.
LEMMA CallsCover ==
    /\ \A j \in 1..12 : Calls[j][1] \in Uses \union {"queue"} /\ Calls[j][2] \in Kinds
    /\ \A k \in Kinds : /\ \E j \in 1..12 : Calls[j][1] = "lister" /\ Calls[j][2] = k
                        /\ \E j \in 1..12 : Calls[j][1] = "hasSynced" /\ Calls[j][2] = k
    /\ \A k \in ConfigKinds : \E j \in 1..12 : Calls[j][1] = "handlers" /\ Calls[j][2] = k
<1>1. /\ Calls[1] = <<"lister", "rbacsyncconfigs">>
      /\ Calls[2] = <<"hasSynced", "rbacsyncconfigs">>
      /\ Calls[3] = <<"lister", "clusterrbacsyncconfigs">>
      /\ Calls[4] = <<"hasSynced", "clusterrbacsyncconfigs">>
      /\ Calls[5] = <<"lister", "rolebindings">>
      /\ Calls[6] = <<"hasSynced", "rolebindings">>
      /\ Calls[7] = <<"lister", "clusterrolebindings">>
      /\ Calls[8] = <<"hasSynced", "clusterrolebindings">>
      /\ Calls[9] = <<"queue", "rbacsyncconfigs">>
      /\ Calls[10] = <<"queue", "clusterrbacsyncconfigs">>
      /\ Calls[11] = <<"handlers", "rbacsyncconfigs">>
      /\ Calls[12] = <<"handlers", "clusterrbacsyncconfigs">>
  BY DEF Calls
<1>2. \A j \in 1..12 : j \in {1, 2, 3, 4, 5, 6, 7, 8, 9, 10, 11, 12}
  OBVIOUS
<1>3. {1, 2, 3, 4, 5, 6, 7, 8, 9, 10, 11, 12} \subseteq 1..12
  OBVIOUS
<1>4. \A j \in 1..12 : Calls[j][1] \in Uses \union {"queue"} /\ Calls[j][2] \in Kinds
  BY <1>1, <1>2 DEF Uses, Kinds, ConfigKinds, BindingKinds
<1>5. \A k \in Kinds : \E j \in 1..12 : Calls[j][1] = "lister" /\ Calls[j][2] = k
  BY <1>1, <1>3 DEF Kinds, ConfigKinds, BindingKinds
<1>6. \A k \in Kinds : \E j \in 1..12 : Calls[j][1] = "hasSynced" /\ Calls[j][2] = k
  BY <1>1, <1>3 DEF Kinds, ConfigKinds, BindingKinds
<1>7. \A k \in ConfigKinds : \E j \in 1..12 : Calls[j][1] = "handlers" /\ Calls[j][2] = k
  BY <1>1, <1>3 DEF ConfigKinds
<1> QED
  BY <1>4, <1>5, <1>6, <1>7

LEMMA InitWiring == Init => WiringInv
<1> SUFFICES ASSUME Init PROVE WiringInv
  OBVIOUS
<1>1. wired \in [Uses -> [Kinds -> Nat]]
  BY DEF Init, Uses
<1>2. 1..calls = {}
  BY DEF Init
<1>3. \A w \in Workers : worker[w] = "none"
  BY DEF Init
<1> QED
  BY <1>1, <1>2, <1>3 DEF WiringInv

\* What has been filled stays filled.
LEMMA SyncedGrows ==
    ASSUME TypeOK, FactoriesInv, [Next]_programVars
    PROVE  configs.synced \subseteq configs'.synced /\ bindings.synced \subseteq bindings'.synced
<1>1. ASSUME [ConfigsProved!Next]_(ConfigsProved!factoryVars)
      PROVE  configs.synced \subseteq configs'.synced
  BY <1>1 DEF ConfigsProved!Next, ConfigsProved!factoryVars, ConfigsProved!InformerFor,
     ConfigsProved!Start, ConfigsProved!CacheSynced, ConfigsProved!CloseStop,
     FactoriesInv, ConfigsProved!FactoryInv, ConfigsProved!FactoryTypes
<1>2. ASSUME [BindingsProved!Next]_(BindingsProved!factoryVars)
      PROVE  bindings.synced \subseteq bindings'.synced
  BY <1>2 DEF BindingsProved!Next, BindingsProved!factoryVars, BindingsProved!InformerFor,
     BindingsProved!Start, BindingsProved!CacheSynced, BindingsProved!CloseStop,
     FactoriesInv, BindingsProved!FactoryInv, BindingsProved!FactoryTypes
<1> QED
  BY <1>1, <1>2, FactorySteps

\* A call of NewController gets the kind's only informer.
LEMMA CallGetsInformer ==
    ASSUME FactoriesInv, FactoriesInv',
           NEW k \in Kinds
    PROVE  /\ k \in ConfigKinds /\ Configs!InformerFor(k) => configs'.informers[k] = 1
           /\ k \in BindingKinds /\ Bindings!InformerFor(k) => bindings'.informers[k] = 1
<1>1. ASSUME k \in ConfigKinds, Configs!InformerFor(k) PROVE configs'.informers[k] = 1
  <2>1. CASE k \in Configs!Requested
    BY <1>1, <2>1 DEF Configs!InformerFor, Configs!Requested, FactoriesInv,
                      ConfigsProved!FactoryInv, ConfigsProved!TableInv
  <2>2. CASE k \notin Configs!Requested
    <3>1. configs.made[k] = 0
      BY <1>1, <2>2 DEF Configs!Requested, FactoriesInv, ConfigsProved!FactoryInv,
                        ConfigsProved!TableInv
    <3>2. configs' = [configs EXCEPT !.made[k] = 1, !.informers[k] = 1]
      BY <1>1, <2>2, <3>1, configs.made[k] + 1 = 1 DEF Configs!InformerFor
    <3> QED
      BY <1>1, <3>2 DEF FactoriesInv, ConfigsProved!FactoryInv, ConfigsProved!FactoryTypes
  <2> QED
    BY <2>1, <2>2
<1>2. ASSUME k \in BindingKinds, Bindings!InformerFor(k) PROVE bindings'.informers[k] = 1
  <2>1. CASE k \in Bindings!Requested
    BY <1>2, <2>1 DEF Bindings!InformerFor, Bindings!Requested, FactoriesInv,
                      BindingsProved!FactoryInv, BindingsProved!TableInv
  <2>2. CASE k \notin Bindings!Requested
    <3>1. bindings.made[k] = 0
      BY <1>2, <2>2 DEF Bindings!Requested, FactoriesInv, BindingsProved!FactoryInv,
                        BindingsProved!TableInv
    <3>2. bindings' = [bindings EXCEPT !.made[k] = 1, !.informers[k] = 1]
      BY <1>2, <2>2, <3>1, bindings.made[k] + 1 = 1 DEF Bindings!InformerFor
    <3> QED
      BY <1>2, <3>2 DEF FactoriesInv, BindingsProved!FactoryInv, BindingsProved!FactoryTypes
  <2> QED
    BY <2>1, <2>2
<1> QED
  BY <1>1, <1>2

LEMMA NewControllerWires ==
    ASSUME TypeOK, StageInv, FactoriesInv, FactoriesInv', WiringInv, NewController
    PROVE  WiringInv'
<1> DEFINE what == Calls[calls + 1][1]
           k    == Calls[calls + 1][2]
<1>1. calls \in 0..11 /\ calls + 1 \in 1..12 /\ calls' = calls + 1
  BY CallsLen DEF NewController, TypeOK
<1>2. what \in Uses \union {"queue"} /\ k \in Kinds
  BY <1>1, CallsCover
<1>3. \/ what = "queue" /\ wired' = wired
      \/ what # "queue" /\ wired' = [wired EXCEPT ![what][k] = 1]
  <2>1. \/ what = "queue" /\ wired' = wired
        \/ /\ what # "queue" /\ k \in ConfigKinds /\ Configs!InformerFor(k)
           /\ wired' = [wired EXCEPT ![what][k] = configs'.informers[k]]
        \/ /\ what # "queue" /\ k \in BindingKinds /\ Bindings!InformerFor(k)
           /\ wired' = [wired EXCEPT ![what][k] = bindings'.informers[k]]
    BY <1>1 DEF NewController
  <2> QED
    BY <1>2, <2>1, CallGetsInformer
<1>4. wired' \in [Uses -> [Kinds -> Nat]]
  <2> HIDE DEF what, k
  <2>1. wired \in [Uses -> [Kinds -> Nat]]
    BY DEF WiringInv
  <2>2. what \in Uses => [wired[what] EXCEPT ![k] = 1] \in [Kinds -> Nat]
    BY <2>1
  <2>3. what # "queue" => wired' = [wired EXCEPT ![what] = [wired[what] EXCEPT ![k] = 1]]
    BY <1>3
  <2> QED
    BY <1>2, <1>3, <2>1, <2>2, <2>3
<1>5. \A j \in 1..calls' : Wired(Calls[j][1], Calls[j][2])'
  <2> SUFFICES ASSUME NEW j \in 1..calls' PROVE Wired(Calls[j][1], Calls[j][2])'
    OBVIOUS
  <2>1. CASE j \in 1..calls
    <3>1. Wired(Calls[j][1], Calls[j][2]) /\ j \in 1..12
      BY <1>1, <2>1 DEF WiringInv
    <3>2. Calls[j][1] \in Uses \union {"queue"} /\ Calls[j][2] \in Kinds
      BY <3>1, CallsCover
    <3>3. wired \in [Uses -> [Kinds -> Nat]]
      BY DEF WiringInv
    <3> QED
      BY <1>2, <1>3, <3>1, <3>2, <3>3 DEF Wired
  <2>2. CASE j = calls + 1
    <3>1. wired \in [Uses -> [Kinds -> Nat]]
      BY DEF WiringInv
    <3> QED
      BY <1>2, <1>3, <2>2, <3>1 DEF Wired
  <2> QED
    BY <1>1, <2>1, <2>2
<1>6. \A w \in Workers : worker'[w] = "none"
  BY DEF NewController, StageInv
<1> QED
  BY <1>4, <1>5, <1>6 DEF WiringInv

LEMMA NextWiring ==
    ASSUME TypeOK, StageInv, FactoriesInv, WiringInv, [Next]_programVars
    PROVE  WiringInv'
<1>1. CASE NewController
  BY <1>1, NextFactories, NewControllerWires
<1>2. CASE UNCHANGED wiring /\ (\A w \in Workers : worker'[w] # "none" => worker[w] # "none")
  <2>1. \A k \in Kinds : HasSynced(k) => HasSynced(k)'
    BY <1>2, SyncedGrows DEF HasSynced, wiring
  <2> QED
    BY <1>2, <2>1 DEF WiringInv, wiring, Wired
<1>3. CASE CachesSynced
  <2>1. /\ UNCHANGED <<calls, wired, configs, bindings>>
        /\ \A k \in Kinds : HasSynced(k)
        /\ main = "sync"
    BY <1>3 DEF CachesSynced, wiring, factories, MainGoes
  <2>2. calls = Len(Calls)
    BY <2>1 DEF StageInv
  <2>3. \A k \in Kinds : HasSynced(k)'
    BY <2>1 DEF HasSynced
  <2> QED
    BY <2>1, <2>2, <2>3 DEF WiringInv, Wired
<1>4. CASE SetUp \/ SetupSignalHandler \/ StartEverything \/ SyncStopped
           \/ RunReturns \/ MainReturns \/ SetUpFails
  BY <1>2, <1>4 DEF SetUp, SetupSignalHandler, StartEverything, SyncStopped,
                    RunReturns, MainReturns, SetUpFails
<1>5. CASE DebugServerFails \/ Signal \/ FirstSignal \/ SecondSignal
  BY <1>2, <1>5 DEF DebugServerFails, Signal, FirstSignal, SecondSignal
<1>6. ASSUME NEW f \in {"configs", "bindings"}, StartFactory(f) PROVE WiringInv'
  BY <1>2, <1>6 DEF StartFactory
<1>7. ASSUME NEW k \in Kinds, NEW i \in {1, 2}, InformerSynced(k, i) PROVE WiringInv'
  BY <1>2, <1>7 DEF InformerSynced
<1>8. ASSUME NEW w \in Workers, GoroutineBegins(w) \/ GoroutineEnds(w) PROVE WiringInv'
  BY <1>2, <1>8 DEF GoroutineBegins, GoroutineEnds, TypeOK
<1>9. CASE UNCHANGED programVars
  BY <1>2, <1>9 DEF programVars
<1> QED
  BY <1>1, <1>3, <1>4, <1>5, <1>6, <1>7, <1>8, <1>9 DEF Next, Main

\* When a worker or a poller begins, the caches its listers read have been filled,
\* whatever order the goroutines of main, the factories and the API server took.
THEOREM FullCaches == Spec => []WorksOnFullCaches
<1>1. WiringInv => WorksOnFullCaches
  <2> SUFFICES ASSUME WiringInv, NEW w \in Workers, worker[w] # "none"
               PROVE  /\ \A k \in Kinds :
                            <<k, wired["lister"][k]>> \in configs.synced \union bindings.synced
                      /\ \A k \in ConfigKinds : wired["handlers"][k] = wired["lister"][k]
    BY DEF WorksOnFullCaches
  <2>1. calls = 12 /\ \A k \in Kinds : HasSynced(k)
    BY CallsLen DEF WiringInv
  <2>2. \A j \in 1..12 : Wired(Calls[j][1], Calls[j][2])
    BY <2>1 DEF WiringInv
  <2>3. \A k \in Kinds : wired["lister"][k] = 1 /\ wired["hasSynced"][k] = 1
    <3> SUFFICES ASSUME NEW k \in Kinds
                 PROVE  wired["lister"][k] = 1 /\ wired["hasSynced"][k] = 1
      OBVIOUS
    <3>1. wired["lister"][k] = 1
      <4>1. PICK j \in 1..12 : Calls[j][1] = "lister" /\ Calls[j][2] = k
        BY CallsCover
      <4> QED
        BY <2>2, <4>1 DEF Wired
    <3>2. wired["hasSynced"][k] = 1
      <4>1. PICK j \in 1..12 : Calls[j][1] = "hasSynced" /\ Calls[j][2] = k
        BY CallsCover
      <4> QED
        BY <2>2, <4>1 DEF Wired
    <3> QED
      BY <3>1, <3>2
  <2>4. \A k \in ConfigKinds : wired["handlers"][k] = 1
    BY <2>2, CallsCover DEF Wired
  <2>5. ConfigKinds \subseteq Kinds
    BY DEF Kinds
  <2> QED
    BY <2>1, <2>3, <2>4, <2>5 DEF HasSynced
<1>2. Init => TypeOK /\ StageInv /\ FactoriesInv /\ WiringInv
  BY InitStage, InitFactories, InitWiring
<1>3. TypeOK /\ StageInv /\ FactoriesInv /\ WiringInv /\ [Next]_programVars
        => (TypeOK /\ StageInv /\ FactoriesInv /\ WiringInv)'
  BY NextStage, NextFactories, NextWiring
<1> QED
  BY <1>1, <1>2, <1>3, PTL DEF Spec

-----------------------------------------------------------------------------
(* The registry *)

\* The second word of a metric's name tells it from the queue's others.
SecondOf == << "depth", "adds", "queue", "work", "unfinished", "longest", "retries" >>

Starts(m, first, second) == m.fqName[1] = first /\ m.fqName[2] = second

MetricNamed(m, i, k) ==
    /\ Starts(m, "workqueue", SecondOf[i])
    /\ m.constLabels = {<<"name", <<k>>>>} /\ m.help = "common" /\ m.labelNames = {"name"}

LEMMA QueueMetricNames ==
    ASSUME NEW k \in ConfigKinds
    PROVE  LET ms == Metrics!MetricsOf(<<k>>)
           IN  /\ DOMAIN ms = 1..7
               /\ \A i \in 1..7 : MetricNamed(ms[i], i, k)
<1> DEFINE ms == Metrics!MetricsOf(<<k>>)
           L(words) == Metrics!Labelled(<<k>>, words)
<1>1. /\ DOMAIN ms = 1..7
      /\ ms[1] = L(<<"depth">>) /\ ms[2] = L(<<"adds", "total">>)
      /\ ms[3] = L(<<"queue", "duration", "seconds">>)
      /\ ms[4] = L(<<"work", "duration", "seconds">>)
      /\ ms[5] = L(<<"unfinished", "work", "seconds">>)
      /\ ms[6] = L(<<"longest", "running", "processor", "seconds">>)
      /\ ms[7] = L(<<"retries", "total">>)
  <2> HIDE DEF L
  <2> QED
    BY DEF L, Metrics!MetricsOf, Metrics!NewDepthMetric, Metrics!NewAddsMetric,
     Metrics!NewLatencyMetric, Metrics!NewWorkDurationMetric,
     Metrics!NewUnfinishedWorkSecondsMetric, Metrics!NewLongestRunningProcessorMetric,
     Metrics!NewRetriesMetric
<1>2. ASSUME NEW a, NEW b, NEW c, NEW d
      PROVE  /\ Starts(L(<<a>>), "workqueue", a) /\ Starts(L(<<a, b>>), "workqueue", a)
             /\ Starts(L(<<a, b, c>>), "workqueue", a)
             /\ Starts(L(<<a, b, c, d>>), "workqueue", a)
  BY DEF Starts, Metrics!Labelled
<1>3. \A words : /\ L(words).constLabels = {<<"name", <<k>>>>}
                 /\ L(words).help = "common" /\ L(words).labelNames = {"name"}
  BY DEF Metrics!Labelled
<1> DEFINE Good(i) == MetricNamed(ms[i], i, k)
<1> HIDE DEF ms, L
<1>4. Good(1) /\ Good(2) /\ Good(3) /\ Good(4) /\ Good(5) /\ Good(6) /\ Good(7)
  <2>1. Starts(ms[1], "workqueue", "depth") /\ Starts(ms[2], "workqueue", "adds")
        /\ Starts(ms[3], "workqueue", "queue") /\ Starts(ms[4], "workqueue", "work")
        /\ Starts(ms[5], "workqueue", "unfinished") /\ Starts(ms[6], "workqueue", "longest")
        /\ Starts(ms[7], "workqueue", "retries")
    BY <1>1, <1>2
  <2> QED
    BY <1>1, <1>3, <2>1 DEF MetricNamed, SecondOf
<1>5. \A i \in 1..7 : i \in {1, 2, 3, 4, 5, 6, 7}
  OBVIOUS
<1> HIDE DEF Good
<1>6. \A i \in 1..7 : Good(i)
  BY <1>4, <1>5
<1> QED
  BY <1>1, <1>6 DEF Good, ms

\* What is in the registry before the queue of a kind is made does not get in the
\* way of its metrics.
Foreign(r, k) ==
    \/ r.fqName[1] # "workqueue"
    \/ /\ r.fqName[1] = "workqueue" /\ r.constLabels # {<<"name", <<k>>>>}
       /\ r.help = "common" /\ r.labelNames = {"name"}

\* Neither that nor what the queue has registered makes the registry refuse the next.
LEMMA AllAccepted ==
    ASSUME NEW k \in ConfigKinds, NEW R, \A r \in R : Foreign(r, k),
           NEW j \in 1..7, NEW t \in SUBSET (1..7), j \notin t
    PROVE  LET ms == Metrics!MetricsOf(<<k>>)
           IN  Metrics!Accepts(R \union {ms[i] : i \in t}, ms[j])
<1> DEFINE ms == Metrics!MetricsOf(<<k>>)
<1>1. \A i \in 1..7 : MetricNamed(ms[i], i, k)
  BY QueueMetricNames
<1> HIDE DEF ms
<1>2. ASSUME NEW r \in R, r.fqName = ms[j].fqName
      PROVE  /\ r.constLabels # ms[j].constLabels
             /\ r.help = ms[j].help /\ r.labelNames = ms[j].labelNames
  <2>1. Foreign(r, k) /\ MetricNamed(ms[j], j, k)
    BY <1>1
  <2> QED
    BY <1>2, <2>1 DEF Foreign, MetricNamed, Starts
<1>3. ASSUME NEW i \in 1..7, i # j PROVE ms[i].fqName # ms[j].fqName
  <2>1. SecondOf[i] # SecondOf[j]
    <3>1. \A n \in 1..7 : n \in {1, 2, 3, 4, 5, 6, 7}
      OBVIOUS
    <3>2. i \in {1, 2, 3, 4, 5, 6, 7}
          /\ j \in {1, 2, 3, 4, 5, 6, 7}
      BY <3>1
    <3> QED
      BY <1>3, <3>2 DEF SecondOf
  <2> QED
    BY <1>1, <2>1 DEF MetricNamed, Starts
<1>4. Metrics!Accepts(R \union {ms[i] : i \in t}, ms[j])
  BY <1>2, <1>3 DEF Metrics!Accepts
<1> QED
  BY <1>4 DEF ms

\* Counting to the number of a queue's metrics.
LEMMA CountTo7 ==
    ASSUME NEW S, 0 \in S, \A n \in 0..6 : n \in S => n + 1 \in S
    PROVE  7 \in S
BY 0 + 1 = 1, 1 + 1 = 2, 2 + 1 = 3, 3 + 1 = 4, 4 + 1 = 5, 5 + 1 = 6, 6 + 1 = 7

\* The greatest of some of them, which is the last that has been registered.
LEMMA LastOf ==
    ASSUME NEW t \in SUBSET (1..7), t # {}
    PROVE  /\ Metrics!Max(t) \in t
           /\ \A n \in 0..6 : t = 1..(n + 1) => Metrics!Max(t) = n + 1
<1> DEFINE S == {n \in 0..7 : \A u \in SUBSET (1..n) :
                                  u # {} => \E x \in u : \A y \in u : x >= y}
<1>1. 0 \in S
  <2>1. 1..0 = {} /\ 0 \in 0..7
    OBVIOUS
  <2>2. \A u \in SUBSET (1..0) : u = {}
    BY <2>1
  <2> QED
    BY <2>1, <2>2
<1>2. ASSUME NEW n \in 0..6, n \in S PROVE n + 1 \in S
  <2> SUFFICES ASSUME NEW u \in SUBSET (1..(n + 1)), u # {}
               PROVE  \E x \in u : \A y \in u : x >= y
    OBVIOUS
  <2>1. CASE n + 1 \in u
    BY <2>1
  <2>2. CASE n + 1 \notin u
    <3>1. u \in SUBSET (1..n)
      BY <2>2
    <3> QED
      BY <1>2, <3>1
  <2> QED
    BY <2>1, <2>2
<1>3. 7 \in S
  <2> HIDE DEF S
  <2> QED
    BY <1>1, <1>2, CountTo7
<1>4. \E x \in t : \A y \in t : x >= y
  BY <1>3
<1>5. Metrics!Max(t) \in t /\ \A y \in t : Metrics!Max(t) >= y
  BY <1>4 DEF Metrics!Max
<1>6. ASSUME NEW n \in 0..6, t = 1..(n + 1) PROVE Metrics!Max(t) = n + 1
  <2>1. n + 1 \in t /\ \A y \in t : y \in Int /\ y <= n + 1
    BY <1>6
  <2> DEFINE x == Metrics!Max(t)
  <2> HIDE DEF x
  <2>2. x \in t /\ x >= n + 1
    BY <1>5, <2>1 DEF x
  <2>3. x \in Int /\ x <= n + 1
    BY <2>1, <2>2
  <2>4. x = n + 1
    BY <2>2, <2>3
  <2> QED
    BY <2>4 DEF x
<1> QED
  BY <1>5, <1>6

\* So a new queue's metrics are all registered.
LEMMA AllRegistered ==
    ASSUME NEW k \in ConfigKinds, NEW R, \A r \in R : Foreign(r, k)
    PROVE  Metrics!RegisterQueue(R, <<k>>) = R \union Range(Metrics!MetricsOf(<<k>>))
<1> DEFINE ms == Metrics!MetricsOf(<<k>>)
           With(t) == R \union {ms[i] : i \in t}
           Registers(it) == it = [t \in SUBSET DOMAIN ms |->
                                   IF t = {} THEN R
                                   ELSE Metrics!Register(it[t \ {Metrics!Max(t)}],
                                                         ms[Metrics!Max(t)])]
           all == [t \in SUBSET DOMAIN ms |-> With(t)]
           it == CHOOSE it : Registers(it)
<1>1. DOMAIN ms = 1..7
  BY QueueMetricNames
<1>2. \A t \in SUBSET (1..7) : t # {} => Metrics!Max(t) \in t
  BY LastOf
<1>3. \A t \in SUBSET (1..7), j \in 1..7 : j \notin t =>
          Metrics!Register(With(t), ms[j]) = With(t \union {j})
  <2> SUFFICES ASSUME NEW t \in SUBSET (1..7), NEW j \in 1..7, j \notin t
               PROVE  Metrics!Register(With(t), ms[j]) = With(t \union {j})
    OBVIOUS
  <2>1. Metrics!Accepts(With(t), ms[j])
    BY AllAccepted
  <2> HIDE DEF ms
  <2>2. With(t) \union {ms[j]} = With(t \union {j})
    OBVIOUS
  <2> HIDE DEF With
  <2> QED
    BY <2>1, <2>2 DEF Metrics!Register
<1> HIDE DEF ms, With
<1>4. Registers(all)
  <2>1. ASSUME NEW t \in SUBSET (1..7)
        PROVE  With(t) = IF t = {} THEN R ELSE Metrics!Register(all[t \ {Metrics!Max(t)}],
                                                         ms[Metrics!Max(t)])
    <3>1. CASE t = {}
      BY <3>1 DEF With
    <3>2. CASE t # {}
      <4>1. Metrics!Max(t) \in t /\ t \ {Metrics!Max(t)} \in SUBSET (1..7)
            /\ Metrics!Max(t) \notin t \ {Metrics!Max(t)}
            /\ (t \ {Metrics!Max(t)}) \union {Metrics!Max(t)} = t
        BY <1>2, <3>2
      <4> HIDE DEF Metrics!Max
      <4>2. all[t \ {Metrics!Max(t)}] = With(t \ {Metrics!Max(t)})
        BY <1>1, <4>1
      <4> QED
        BY <1>3, <3>2, <4>1, <4>2
    <3> QED
      BY <3>1, <3>2
  <2> QED
    BY <1>1, <2>1
<1>5. Registers(it)
  <2> HIDE DEF Registers
  <2> QED
    BY <1>4
<1>6. Metrics!RegisterQueue(R, <<k>>) = it[DOMAIN ms]
  BY DEF Metrics!RegisterQueue, Metrics!FoldLeft, Metrics!MapThenFoldSet, ms
<1>7. it[1..7] = With(1..7)
  <2> DEFINE S == {n \in 0..7 : it[1..n] = With(1..n)}
  <2>1. ASSUME NEW t \in SUBSET (1..7)
        PROVE  it[t] = IF t = {} THEN R ELSE Metrics!Register(it[t \ {Metrics!Max(t)}],
                                                              ms[Metrics!Max(t)])
    BY <1>1, <1>5
  <2> HIDE DEF it
  <2>2. 0 \in S
    <3>1. 1..0 = {} /\ With({}) = R /\ 0 \in 0..7
      BY DEF With
    <3>2. it[{}] = R
      BY <2>1
    <3> QED
      BY <3>1, <3>2
  <2>3. ASSUME NEW n \in 0..6, n \in S PROVE n + 1 \in S
    <3>1. /\ 1..(n + 1) \in SUBSET (1..7) /\ 1..(n + 1) # {}
          /\ (1..(n + 1)) \ {n + 1} = 1..n /\ (1..n) \union {n + 1} = 1..(n + 1)
          /\ 1..n \in SUBSET (1..7) /\ n + 1 \in 1..7 /\ n + 1 \notin 1..n
      <4>1. n + 1 \in 1..(n + 1)
        OBVIOUS
      <4> QED
        BY <4>1
    <3>2. Metrics!Max(1..(n + 1)) = n + 1
      BY <3>1, LastOf
    <3>3. it[1..(n + 1)] = Metrics!Register(it[1..n], ms[n + 1])
      BY <2>1, <3>1, <3>2
    <3>4. it[1..(n + 1)] = With(1..(n + 1))
      BY <1>3, <2>3, <3>1, <3>3
    <3> QED
      BY <3>4
  <2> HIDE DEF S
  <2>4. 7 \in S
    BY <2>2, <2>3, CountTo7
  <2> QED
    BY <2>4 DEF S
<1>8. With(1..7) = R \union Range(ms)
  BY <1>1 DEF With, Range
<1> QED
  BY <1>1, <1>6, <1>7, <1>8 DEF ms

\* The queues NewController has made.
Queues(n) == {k \in ConfigKinds : \E j \in 1..n : Calls[j] = <<"queue", k>>}

QueueMetricsOf(k) == Range(Metrics!MetricsOf(<<k>>))

RegistryInv ==
    registry = Metrics!ControllerMetrics \union UNION {QueueMetricsOf(k) : k \in Queues(calls)}

\* One of a queue's metrics.
LEMMA QueueMetricIs ==
    ASSUME NEW k \in ConfigKinds, NEW m \in QueueMetricsOf(k)
    PROVE  /\ m.fqName[1] = "workqueue" /\ m.constLabels = {<<"name", <<k>>>>}
           /\ m.help = "common" /\ m.labelNames = {"name"}
<1> DEFINE ms == Metrics!MetricsOf(<<k>>)
<1>1. DOMAIN ms = 1..7 /\ \A i \in 1..7 : MetricNamed(ms[i], i, k)
  BY QueueMetricNames
<1> HIDE DEF ms
<1>2. PICK i \in 1..7 : m = ms[i]
  BY <1>1 DEF QueueMetricsOf, Range, ms
<1> QED
  BY <1>1, <1>2 DEF MetricNamed, Starts

\* Those of pkg/metrics have a name of their own.
LEMMA ControllerMetricIs == \A m \in Metrics!ControllerMetrics : m.fqName[1] = "rbacsync"
<1>1. ASSUME NEW a, NEW b, NEW c, NEW d, NEW e, NEW l
      PROVE  /\ Metrics!Vector(<<a, b>>, l).fqName[1] = "rbacsync"
             /\ Metrics!Vector(<<a, b, c>>, l).fqName[1] = "rbacsync"
             /\ Metrics!Vector(<<a, b, c, d>>, l).fqName[1] = "rbacsync"
             /\ Metrics!Vector(<<a, b, c, d, e>>, l).fqName[1] = "rbacsync"
  BY DEF Metrics!Vector
<1> DEFINE Own(m) == m.fqName[1] = "rbacsync"
<1>2. /\ \A a, b, l : Own(Metrics!Vector(<<a, b>>, l))
      /\ \A a, b, c, l : Own(Metrics!Vector(<<a, b, c>>, l))
      /\ \A a, b, c, d, l : Own(Metrics!Vector(<<a, b, c, d>>, l))
      /\ \A a, b, c, d, e, l : Own(Metrics!Vector(<<a, b, c, d, e>>, l))
  BY <1>1
<1> HIDE DEF Own
<1>3. \A m \in Metrics!ControllerMetrics : Own(m)
  BY <1>2 DEF Metrics!ControllerMetrics
<1> QED
  BY <1>3 DEF Own

LEMMA QueueCalls ==
    /\ Calls[9] = <<"queue", "rbacsyncconfigs">>
    /\ Calls[10] = <<"queue", "clusterrbacsyncconfigs">>
    /\ \A j \in 1..12 : Calls[j][1] = "queue" => j \in {9, 10}
<1>1. \A j \in 1..12 : j \in {1, 2, 3, 4, 5, 6, 7, 8, 9, 10, 11, 12}
  OBVIOUS
<1> QED
  BY <1>1 DEF Calls

LEMMA QueueAfter ==
    ASSUME NEW n \in 0..11
    PROVE  IF Calls[n + 1][1] = "queue"
             THEN LET k == Calls[n + 1][2]
                  IN  k \in ConfigKinds /\ k \notin Queues(n)
                      /\ Queues(n + 1) = Queues(n) \union {k}
             ELSE Queues(n + 1) = Queues(n)
<1>1. n + 1 \in 1..12 /\ 1..(n + 1) = (1..n) \union {n + 1} /\ 1..n \subseteq 1..12
  OBVIOUS
<1>2. CASE Calls[n + 1][1] = "queue"
  <2> DEFINE k == Calls[n + 1][2]
  <2>1. k \in ConfigKinds /\ Calls[n + 1] = <<"queue", k>>
    BY <1>1, <1>2, QueueCalls DEF ConfigKinds
  <2>2. \A j \in 1..n : Calls[j] # <<"queue", k>>
    <3>1. \A j \in 1..n : j \in 1..12 /\ j # n + 1
      OBVIOUS
    <3> QED
      BY <1>1, <1>2, <3>1, QueueCalls
  <2>3. \A x \in ConfigKinds : Calls[n + 1] = <<"queue", x>> <=> x = k
    BY <2>1
  <2> HIDE DEF k
  <2>4. k \notin Queues(n)
    BY <2>2 DEF Queues
  <2>5. Queues(n + 1) = Queues(n) \union {k}
    BY <1>1, <2>1, <2>3 DEF Queues
  <2> QED
    BY <1>2, <2>1, <2>4, <2>5 DEF k
<1>3. CASE Calls[n + 1][1] # "queue"
  <2>1. \A x : Calls[n + 1] # <<"queue", x>>
    BY <1>3
  <2> QED
    BY <1>1, <1>3, <2>1 DEF Queues
<1> QED
  BY <1>2, <1>3

LEMMA InitRegistry == Init => RegistryInv
BY DEF Init, RegistryInv, Queues

LEMMA NextRegistry ==
    ASSUME TypeOK, RegistryInv, [Next]_programVars
    PROVE  RegistryInv'
<1>1. CASE NewController
  <2> DEFINE k == Calls[calls + 1][2]
  <2>1. calls \in 0..11 /\ calls' = calls + 1
    BY <1>1, CallsLen DEF NewController, TypeOK
  <2>2. CASE Calls[calls + 1][1] = "queue"
    <3>1. registry' = Metrics!RegisterQueue(registry, <<k>>)
      BY <1>1, <2>1, <2>2 DEF NewController
    <3>2. k \in ConfigKinds /\ k \notin Queues(calls) /\ Queues(calls') = Queues(calls) \union {k}
      BY <2>1, <2>2, QueueAfter
    <3> HIDE DEF k
    <3>3. \A r \in registry : Foreign(r, k)
      <4>1. ASSUME NEW r \in Metrics!ControllerMetrics PROVE Foreign(r, k)
        BY ControllerMetricIs DEF Foreign
      <4>2. ASSUME NEW q \in Queues(calls), NEW r \in QueueMetricsOf(q) PROVE Foreign(r, k)
        <5>1. q # k /\ q \in ConfigKinds
          BY <3>2 DEF Queues, ConfigKinds
        <5>2. {<<"name", <<q>>>>} # {<<"name", <<k>>>>}
          <6>1. <<q>>[1] = q /\ <<k>>[1] = k
            OBVIOUS
          <6>2. <<q>> # <<k>>
            BY <5>1, <6>1
          <6>3. \A v, w : <<"name", v>> = <<"name", w>> => v = w
            OBVIOUS
          <6>4. <<"name", <<q>>>> # <<"name", <<k>>>>
            BY <6>2, <6>3
          <6> QED
            BY <6>4
        <5> QED
          BY <5>1, <5>2, QueueMetricIs DEF Foreign
      <4> QED
        BY <4>1, <4>2 DEF RegistryInv
    <3>4. registry' = registry \union QueueMetricsOf(k)
      BY <3>1, <3>2, <3>3, AllRegistered DEF QueueMetricsOf
    <3> QED
      BY <3>2, <3>4 DEF RegistryInv
  <2>3. CASE Calls[calls + 1][1] # "queue"
    <3>1. registry' = registry
      BY <1>1, <2>1, <2>3 DEF NewController
    <3>2. Queues(calls') = Queues(calls)
      BY <2>1, <2>3, QueueAfter
    <3> QED
      BY <3>1, <3>2 DEF RegistryInv
  <2> QED
    BY <2>2, <2>3
<1>2. CASE UNCHANGED wiring
  BY <1>2 DEF wiring, RegistryInv
<1>3. CASE SetUp \/ SetupSignalHandler \/ StartEverything \/ CachesSynced \/ SyncStopped
           \/ RunReturns \/ MainReturns \/ SetUpFails
  BY <1>2, <1>3 DEF SetUp, SetupSignalHandler, StartEverything, CachesSynced, SyncStopped,
                    RunReturns, MainReturns, SetUpFails
<1>4. CASE DebugServerFails \/ Signal \/ FirstSignal \/ SecondSignal
  BY <1>2, <1>4 DEF DebugServerFails, Signal, FirstSignal, SecondSignal
<1>5. ASSUME NEW f \in {"configs", "bindings"}, StartFactory(f) PROVE RegistryInv'
  BY <1>2, <1>5 DEF StartFactory
<1>6. ASSUME NEW k \in Kinds, NEW i \in {1, 2}, InformerSynced(k, i) PROVE RegistryInv'
  BY <1>2, <1>6 DEF InformerSynced
<1>7. ASSUME NEW w \in Workers, GoroutineBegins(w) \/ GoroutineEnds(w) PROVE RegistryInv'
  BY <1>2, <1>7 DEF GoroutineBegins, GoroutineEnds
<1>8. CASE UNCHANGED programVars
  BY <1>2, <1>8 DEF programVars
<1> QED
  BY <1>1, <1>3, <1>4, <1>5, <1>6, <1>7, <1>8 DEF Next, Main

\* Of the metrics of two queues and of pkg/metrics, which share one registry, the
\* registry refuses none: no queue counts where nobody can see it.
THEOREM MetricsExposed == Spec => []AllExposed
<1>1. RegistryInv => AllExposed
  <2>1. calls = Len(Calls) => Queues(calls) = ConfigKinds
    <3>1. 9 \in 1..12 /\ 10 \in 1..12
      OBVIOUS
    <3> QED
      BY <3>1, CallsLen, QueueCalls DEF Queues, ConfigKinds
  <2> QED
    BY <2>1 DEF RegistryInv, AllExposed, QueueMetricsOf
<1>2. Init => TypeOK /\ StageInv /\ RegistryInv
  BY InitStage, InitRegistry
<1>3. TypeOK /\ StageInv /\ RegistryInv /\ [Next]_programVars
        => (TypeOK /\ StageInv /\ RegistryInv)'
  BY NextStage, NextRegistry
<1> QED
  BY <1>1, <1>2, <1>3, PTL DEF Spec
=============================================================================
