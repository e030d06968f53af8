----------------------- MODULE ClusterControllerProofs -----------------------
(* The proof that both halves of the process are controllers. *)
EXTENDS ClusterController, TLAPS

-----------------------------------------------------------------------------
(* A step of one half leaves alone what the halves share *)

Shared == <<upstream, running>>

\* The work around the namespaced worker: users, caches, the poller, the stop.
LEMMA NamespacedSurroundings ==
    ASSUME \/ \E c \in Config, s \in Specs : CreateConfig(c, s) \/ UpdateConfig(c, s)
           \/ \E c \in Config : DeleteConfig(c) \/ Sync(c) \/ AddReady(c)
           \/ \E n \in Name : DeleteBindingByHand(n) \/ GarbageCollect(n) \/ RefreshBinding(n)
           \/ Poll \/ Stop \/ Dequeue
    PROVE  UNCHANGED Shared
  <1>1. CASE \E c \in Config, s \in Specs : CreateConfig(c, s) \/ UpdateConfig(c, s)
    BY <1>1 DEF CreateConfig, UpdateConfig, Edit, Shared
  <1>2. CASE \E c \in Config : DeleteConfig(c) \/ Sync(c) \/ AddReady(c)
    BY <1>2 DEF DeleteConfig, Edit, Sync, AddReady, worldVars, Shared
  <1>3. CASE \E n \in Name : DeleteBindingByHand(n) \/ GarbageCollect(n) \/ RefreshBinding(n)
    BY <1>3 DEF DeleteBindingByHand, GarbageCollect, RemoveBinding, RefreshBinding,
                worldVars, Shared
  <1>4. CASE Poll \/ Stop \/ Dequeue
    BY <1>4 DEF Poll, Stop, Dequeue, worldVars, Shared
  <1>5. QED BY <1>1, <1>2, <1>3, <1>4

\* The namespaced worker.
LEMMA NamespacedWorkerAlone ==
    ASSUME Worker
    PROVE  UNCHANGED Shared
  <1>1. CASE Load \/ LoadMissing \/ SelectorError \/ Finish
    BY <1>1 DEF Load, LoadMissing, SelectorError, Finish, EndPass, worldVars, Shared
  <1>2. CASE RejectKind \/ NoMembers \/ KeepUnknown \/ IgnoreDuplicate
    BY <1>2 DEF RejectKind, NoMembers, KeepUnknown, IgnoreDuplicate, Skip, worldVars, Shared
  <1>3. CASE Resolve \/ UpdateNotFound \/ ListChildren
    BY <1>3 DEF Resolve, UpdateNotFound, ListChildren, worldVars, Shared
  <1>4. CASE UpdateOk \/ UpdateRefused \/ CreateOk \/ CreateRefused \/ WriteFails
    BY <1>4 DEF UpdateOk, UpdateRefused, CreateOk, CreateRefused, WriteFails, Wrote,
                worldVars, Shared
  <1>5. CASE \E n \in Name : DeleteChild(n) \/ DeleteFails(n)
    BY <1>5 DEF DeleteChild, DeleteFails, worldVars, Shared
  <1>6. QED BY <1>1, <1>2, <1>3, <1>4, <1>5 DEF Worker

\* The work around the cluster worker.
LEMMA ClusterSurroundings ==
    ASSUME \/ ClusterUsers
           \/ \E c \in ClusterConfig : ClusterSync(c) \/ Cluster!AddReady(c)
           \/ \E n \in Cluster!Name : Cluster!GarbageCollect(n) \/ Cluster!RefreshBinding(n)
           \/ PollClusters \/ ClusterDequeue
    PROVE  UNCHANGED Shared
  <1>1. CASE ClusterUsers
    BY <1>1 DEF ClusterUsers, Cluster!CreateConfig, Cluster!UpdateConfig,
                Cluster!DeleteConfig, Cluster!Edit, Cluster!DeleteBindingByHand,
                Cluster!RemoveBinding, Cluster!worldVars, Shared
  <1>2. CASE \E c \in ClusterConfig : ClusterSync(c) \/ Cluster!AddReady(c)
    BY <1>2 DEF ClusterSync, Cluster!Sync, Cluster!AddReady, Cluster!worldVars, Shared
  <1>3. CASE \E n \in Cluster!Name : Cluster!GarbageCollect(n) \/ Cluster!RefreshBinding(n)
    BY <1>3 DEF Cluster!GarbageCollect, Cluster!RemoveBinding, Cluster!RefreshBinding,
                Cluster!worldVars, Shared
  <1>4. CASE PollClusters \/ ClusterDequeue
    BY <1>4 DEF PollClusters, ClusterDequeue, Cluster!Poll, Cluster!Dequeue,
                Cluster!worldVars, Shared
  <1>5. QED BY <1>1, <1>2, <1>3, <1>4

\* The cluster worker.
LEMMA ClusterWorkerAlone ==
    ASSUME HandleClusterConfig
    PROVE  UNCHANGED Shared
  <1>1. CASE LoadCluster
    BY <1>1 DEF LoadCluster, Cluster!Load, Cluster!LoadMissing, Cluster!EndPass,
                Cluster!worldVars, Shared
  <1>2. CASE ClusterBinding
    BY <1>2 DEF ClusterBinding, Cluster!RejectKind, Cluster!NoMembers,
                Cluster!KeepUnknown, Cluster!IgnoreDuplicate, Cluster!Resolve,
                Cluster!Skip, Cluster!worldVars, Shared
  <1>3. CASE CreateOrUpdateClusterRoleBinding
    BY <1>3 DEF CreateOrUpdateClusterRoleBinding, Cluster!UpdateOk,
                Cluster!UpdateNotFound, Cluster!UpdateRefused, Cluster!CreateOk,
                Cluster!CreateRefused, Cluster!WriteFails, Cluster!Wrote,
                Cluster!worldVars, Shared
  <1>4. CASE ClusterCleanup
    BY <1>4 DEF ClusterCleanup, Cluster!ListChildren, Cluster!SelectorError,
                Cluster!DeleteChild, Cluster!DeleteFails, Cluster!Finish,
                Cluster!EndPass, Cluster!worldVars, Shared
  <1>5. QED BY <1>1, <1>2, <1>3, <1>4 DEF HandleClusterConfig

-----------------------------------------------------------------------------
(* Each step of the process is a step of each half, or leaves it alone *)

\* What the namespaced half sees of a step.
LEMMA StepOfNamespacedHalf ==
    ASSUME [BothNext]_bothVars
    PROVE  [Next]_vars
  <1>1. CASE NamespacedStep
    BY <1>1 DEF NamespacedStep, Next, Users
  <1>2. CASE ClusterStep /\ UNCHANGED namespacedVars
    <2>1. UNCHANGED Shared
      BY <1>2, ClusterSurroundings, ClusterWorkerAlone DEF ClusterStep
    <2>2. QED BY <1>2, <2>1 DEF namespacedVars, vars, worldVars, Shared
  <1>3. CASE SharedStep
    BY <1>3 DEF SharedStep, EditUpstreamForBoth, ProcessExit, ProcessStart, Next, Users
  <1>4. CASE UNCHANGED bothVars
    BY <1>4 DEF bothVars, namespacedVars, vars, worldVars
  <1>5. QED BY <1>1, <1>2, <1>3, <1>4 DEF BothNext

\* What the cluster half sees of a step.
LEMMA StepOfClusterHalf ==
    ASSUME [BothNext]_bothVars
    PROVE  [Cluster!Next]_(Cluster!vars)
  <1>1. CASE ClusterStep
    BY <1>1 DEF ClusterStep, ClusterUsers, ClusterSync, PollClusters, ClusterDequeue,
                HandleClusterConfig, LoadCluster, ClusterBinding,
                CreateOrUpdateClusterRoleBinding, ClusterCleanup,
                Cluster!Next, Cluster!Users, Cluster!Worker
  <1>2. CASE NamespacedStep /\ UNCHANGED clusterVars
    <2>1. UNCHANGED Shared
      BY <1>2, NamespacedSurroundings, NamespacedWorkerAlone DEF NamespacedStep
    <2>2. QED
      BY <1>2, <2>1 DEF clusterVars, Shared, Cluster!vars, Cluster!worldVars,
            Cluster!viewVars, Cluster!queueVars, Cluster!workerVars
  <1>3. CASE SharedStep
    BY <1>3 DEF SharedStep, EditUpstreamForBoth, ProcessExit, ProcessStart,
                Cluster!Next, Cluster!Users
  <1>4. CASE UNCHANGED bothVars
    BY <1>4 DEF bothVars, clusterVars, Cluster!vars, Cluster!worldVars,
          Cluster!viewVars, Cluster!queueVars, Cluster!workerVars
  <1>5. QED BY <1>1, <1>2, <1>3, <1>4 DEF BothNext

\* The composition hides no behaviour and adds none: seen alone, each half is
\* Controller, so every theorem of ControllerProofs is one about each half.
LEMMA HalvesAreControllers == BothSpec => Spec /\ Cluster!Spec
  <1>1. BothInit => Init /\ Cluster!Init
    BY DEF BothInit
  <1>2. [BothNext]_bothVars => [Next]_vars
    BY StepOfNamespacedHalf
  <1>3. [BothNext]_bothVars => [Cluster!Next]_(Cluster!vars)
    BY StepOfClusterHalf
  <1>4. QED
    BY <1>1, <1>2, <1>3, PTL DEF BothSpec, Spec, Cluster!Spec

-----------------------------------------------------------------------------
(* What is proved of Controller, said of the cluster half *)

ClusterProved == INSTANCE ControllerProofs WITH
    Config <- ClusterConfig, Specs <- ClusterSpecs,
    ValidKinds <- {"ClusterRole"}, ValidLabel <- ClusterValidLabel,
    MaxEdits <- MaxClusterEdits,
    history <- clusterHistory, rbs <- crbs,
    seen <- clusterSeen, rbCache <- crbCache,
    waiting <- clusterWaiting, queue <- clusterQueue, dirty <- clusterDirty,
    processing <- clusterProcessing, shuttingDown <- clusterShuttingDown,
    pc <- clusterPc, key <- clusterKey, cfg <- clusterCfg,
    outcome <- clusterOutcome, members <- clusterMembers,
    active <- clusterActive, todo <- clusterTodo,
    loaded <- clusterLoaded, spent <- clusterSpent

\* Cluster and ClusterProved are the same instance; the provers see it when the
\* definitions are expanded, one action at a time.
LEMMA SameVariables ==
    /\ Cluster!vars = ClusterProved!vars
    /\ Cluster!Name = ClusterProved!Name
BY DEF Cluster!vars, ClusterProved!vars, Cluster!worldVars, ClusterProved!worldVars,
       Cluster!viewVars, ClusterProved!viewVars, Cluster!queueVars,
       ClusterProved!queueVars, Cluster!workerVars, ClusterProved!workerVars,
       Cluster!Name, ClusterProved!Name, Cluster!BindingName,
       ClusterProved!BindingName

LEMMA SameEdits ==
    /\ \A c \in ClusterConfig, s \in ClusterSpecs :
             Cluster!CreateConfig(c, s) <=> ClusterProved!CreateConfig(c, s)
    /\ \A c \in ClusterConfig, s \in ClusterSpecs :
             Cluster!UpdateConfig(c, s) <=> ClusterProved!UpdateConfig(c, s)
<1>1. \A c \in ClusterConfig, s \in ClusterSpecs :
         Cluster!CreateConfig(c, s) <=> ClusterProved!CreateConfig(c, s)
  BY DEF Cluster!CreateConfig, ClusterProved!CreateConfig, Cluster!Present,
         ClusterProved!Present, Cluster!Live, ClusterProved!Live, Cluster!Edit,
         ClusterProved!Edit, Cluster!Spend, ClusterProved!Spend, Cluster!viewVars,
         ClusterProved!viewVars, Cluster!queueVars, ClusterProved!queueVars,
         Cluster!workerVars, ClusterProved!workerVars
<1>2. \A c \in ClusterConfig, s \in ClusterSpecs :
         Cluster!UpdateConfig(c, s) <=> ClusterProved!UpdateConfig(c, s)
  BY DEF Cluster!UpdateConfig, ClusterProved!UpdateConfig, Cluster!Present,
         ClusterProved!Present, Cluster!Live, ClusterProved!Live, Cluster!Edit,
         ClusterProved!Edit, Cluster!Spend, ClusterProved!Spend, Cluster!viewVars,
         ClusterProved!viewVars, Cluster!queueVars, ClusterProved!queueVars,
         Cluster!workerVars, ClusterProved!workerVars
<1> QED
  BY <1>1, <1>2

LEMMA SameDeletes ==
    /\ \A c \in ClusterConfig : Cluster!DeleteConfig(c) <=> ClusterProved!DeleteConfig(c)
    /\ \A c \in ClusterConfig : Cluster!Sync(c) <=> ClusterProved!Sync(c)
    /\ \A c \in ClusterConfig : Cluster!AddReady(c) <=> ClusterProved!AddReady(c)
<1>1. \A c \in ClusterConfig : Cluster!DeleteConfig(c) <=> ClusterProved!DeleteConfig(c)
  BY DEF Cluster!DeleteConfig, ClusterProved!DeleteConfig, Cluster!Present,
         ClusterProved!Present, Cluster!Live, ClusterProved!Live, Cluster!Edit,
         ClusterProved!Edit, Cluster!Spend, ClusterProved!Spend, Cluster!viewVars,
         ClusterProved!viewVars, Cluster!queueVars, ClusterProved!queueVars,
         Cluster!workerVars, ClusterProved!workerVars
<1>2. \A c \in ClusterConfig : Cluster!Sync(c) <=> ClusterProved!Sync(c)
  BY DEF Cluster!Sync, ClusterProved!Sync, Cluster!Q!AddRateLimited,
         ClusterProved!Q!AddRateLimited, Cluster!Present, ClusterProved!Present,
         Cluster!queueVars, ClusterProved!queueVars, Cluster!worldVars,
         ClusterProved!worldVars, Cluster!workerVars, ClusterProved!workerVars
<1>3. \A c \in ClusterConfig : Cluster!AddReady(c) <=> ClusterProved!AddReady(c)
  BY DEF Cluster!AddReady, ClusterProved!AddReady, Cluster!Q!AddReady,
         ClusterProved!Q!AddReady, Cluster!worldVars, ClusterProved!worldVars,
         Cluster!viewVars, ClusterProved!viewVars, Cluster!workerVars,
         ClusterProved!workerVars
<1> QED
  BY <1>1, <1>2, <1>3

LEMMA SameUpstream ==
    \A g, a : Cluster!EditUpstream(g, a) <=> ClusterProved!EditUpstream(g, a)
BY DEF Cluster!EditUpstream, ClusterProved!EditUpstream, Cluster!Spend,
       ClusterProved!Spend, Cluster!viewVars, ClusterProved!viewVars,
       Cluster!queueVars, ClusterProved!queueVars, Cluster!workerVars,
       ClusterProved!workerVars

LEMMA SameBindings ==
    /\ \A n : Cluster!DeleteBindingByHand(n) <=> ClusterProved!DeleteBindingByHand(n)
    /\ \A n : Cluster!GarbageCollect(n) <=> ClusterProved!GarbageCollect(n)
    /\ \A n : Cluster!RefreshBinding(n) <=> ClusterProved!RefreshBinding(n)
    /\ \A n : Cluster!DeleteChild(n) <=> ClusterProved!DeleteChild(n)
    /\ \A n : Cluster!DeleteFails(n) <=> ClusterProved!DeleteFails(n)
<1>1. \A n : Cluster!DeleteBindingByHand(n) <=> ClusterProved!DeleteBindingByHand(n)
  BY DEF Cluster!DeleteBindingByHand, ClusterProved!DeleteBindingByHand, Cluster!Spend,
         ClusterProved!Spend, Cluster!RemoveBinding, ClusterProved!RemoveBinding,
         Cluster!worldVars, ClusterProved!worldVars, Cluster!viewVars,
         ClusterProved!viewVars, Cluster!queueVars, ClusterProved!queueVars,
         Cluster!workerVars, ClusterProved!workerVars
<1>2. \A n : Cluster!GarbageCollect(n) <=> ClusterProved!GarbageCollect(n)
  BY DEF Cluster!GarbageCollect, ClusterProved!GarbageCollect, Cluster!OwnerIsLive,
         ClusterProved!OwnerIsLive, Cluster!Present, ClusterProved!Present,
         Cluster!Live, ClusterProved!Live, Cluster!RemoveBinding,
         ClusterProved!RemoveBinding, Cluster!worldVars, ClusterProved!worldVars,
         Cluster!viewVars, ClusterProved!viewVars, Cluster!queueVars,
         ClusterProved!queueVars, Cluster!workerVars, ClusterProved!workerVars
<1>3. \A n : Cluster!RefreshBinding(n) <=> ClusterProved!RefreshBinding(n)
  BY DEF Cluster!RefreshBinding, ClusterProved!RefreshBinding, Cluster!worldVars,
         ClusterProved!worldVars, Cluster!queueVars, ClusterProved!queueVars,
         Cluster!workerVars, ClusterProved!workerVars
<1>4. \A n : Cluster!DeleteChild(n) <=> ClusterProved!DeleteChild(n)
  BY DEF Cluster!DeleteChild, ClusterProved!DeleteChild, Cluster!worldVars,
         ClusterProved!worldVars, Cluster!viewVars, ClusterProved!viewVars,
         Cluster!queueVars, ClusterProved!queueVars
<1>5. \A n : Cluster!DeleteFails(n) <=> ClusterProved!DeleteFails(n)
  BY DEF Cluster!DeleteFails, ClusterProved!DeleteFails, Cluster!Spend,
         ClusterProved!Spend, Cluster!worldVars, ClusterProved!worldVars,
         Cluster!viewVars, ClusterProved!viewVars, Cluster!queueVars,
         ClusterProved!queueVars
<1> QED
  BY <1>1, <1>2, <1>3, <1>4, <1>5

LEMMA SameProcess ==
    /\ Cluster!Poll <=> ClusterProved!Poll
    /\ Cluster!Stop <=> ClusterProved!Stop
    /\ Cluster!Exit <=> ClusterProved!Exit
    /\ Cluster!Start <=> ClusterProved!Start
    /\ Cluster!Dequeue <=> ClusterProved!Dequeue
<1>1. Cluster!Poll <=> ClusterProved!Poll
  BY DEF Cluster!Poll, ClusterProved!Poll, Cluster!Q!AddRateLimited,
         ClusterProved!Q!AddRateLimited, Cluster!CachedConfigs,
         ClusterProved!CachedConfigs, Cluster!Present, ClusterProved!Present,
         Cluster!Cached, ClusterProved!Cached, Cluster!worldVars,
         ClusterProved!worldVars, Cluster!viewVars, ClusterProved!viewVars,
         Cluster!workerVars, ClusterProved!workerVars
<1>2. Cluster!Stop <=> ClusterProved!Stop
  BY DEF Cluster!Stop, ClusterProved!Stop, Cluster!Q!ShutDown, ClusterProved!Q!ShutDown,
         Cluster!Spend, ClusterProved!Spend, Cluster!worldVars, ClusterProved!worldVars,
         Cluster!viewVars, ClusterProved!viewVars, Cluster!workerVars,
         ClusterProved!workerVars
<1>3. Cluster!Exit <=> ClusterProved!Exit
  BY DEF Cluster!Exit, ClusterProved!Exit, Cluster!Spend, ClusterProved!Spend,
         Cluster!IdleWorker, ClusterProved!IdleWorker, Cluster!worldVars,
         ClusterProved!worldVars, Cluster!viewVars, ClusterProved!viewVars
<1>4. Cluster!Start <=> ClusterProved!Start
  BY DEF Cluster!Start, ClusterProved!Start, Cluster!Q!AddRateLimited,
         ClusterProved!Q!AddRateLimited, Cluster!CachedConfigs,
         ClusterProved!CachedConfigs, Cluster!Present, ClusterProved!Present,
         Cluster!Cached, ClusterProved!Cached, Cluster!worldVars,
         ClusterProved!worldVars, Cluster!viewVars, ClusterProved!viewVars,
         Cluster!workerVars, ClusterProved!workerVars
<1>5. Cluster!Dequeue <=> ClusterProved!Dequeue
  BY DEF Cluster!Dequeue, ClusterProved!Dequeue, Cluster!Q!Get, ClusterProved!Q!Get,
         Cluster!worldVars, ClusterProved!worldVars, Cluster!viewVars,
         ClusterProved!viewVars
<1> QED
  BY <1>1, <1>2, <1>3, <1>4, <1>5

LEMMA SameReads ==
    /\ Cluster!Load <=> ClusterProved!Load
    /\ Cluster!LoadMissing <=> ClusterProved!LoadMissing
    /\ Cluster!RejectKind <=> ClusterProved!RejectKind
    /\ Cluster!SelectorError <=> ClusterProved!SelectorError
    /\ Cluster!Finish <=> ClusterProved!Finish
    /\ Cluster!ListChildren <=> ClusterProved!ListChildren
<1>1. Cluster!Load <=> ClusterProved!Load
  BY DEF Cluster!Load, ClusterProved!Load, Cluster!Present, ClusterProved!Present,
         Cluster!Cached, ClusterProved!Cached, Cluster!worldVars,
         ClusterProved!worldVars, Cluster!viewVars, ClusterProved!viewVars,
         Cluster!queueVars, ClusterProved!queueVars
<1>2. Cluster!LoadMissing <=> ClusterProved!LoadMissing
  BY DEF Cluster!LoadMissing, ClusterProved!LoadMissing, Cluster!Present,
         ClusterProved!Present, Cluster!Cached, ClusterProved!Cached, Cluster!EndPass,
         ClusterProved!EndPass, Cluster!Q!Done, ClusterProved!Q!Done,
         Cluster!IdleWorker, ClusterProved!IdleWorker, Cluster!worldVars,
         ClusterProved!worldVars, Cluster!viewVars, ClusterProved!viewVars
<1>3. Cluster!RejectKind <=> ClusterProved!RejectKind
  BY DEF Cluster!RejectKind, ClusterProved!RejectKind, Cluster!AtEntry,
         ClusterProved!AtEntry, Cluster!HasEntry, ClusterProved!HasEntry,
         Cluster!Entries, ClusterProved!Entries, Cluster!Entry, ClusterProved!Entry,
         Cluster!Skip, ClusterProved!Skip, Cluster!Record, ClusterProved!Record,
         Cluster!worldVars, ClusterProved!worldVars, Cluster!viewVars,
         ClusterProved!viewVars, Cluster!queueVars, ClusterProved!queueVars
<1>4. Cluster!SelectorError <=> ClusterProved!SelectorError
  BY DEF Cluster!SelectorError, ClusterProved!SelectorError, Cluster!HasEntry,
         ClusterProved!HasEntry, Cluster!Entries, ClusterProved!Entries,
         Cluster!EndPass, ClusterProved!EndPass, Cluster!Q!Done, ClusterProved!Q!Done,
         Cluster!IdleWorker, ClusterProved!IdleWorker, Cluster!worldVars,
         ClusterProved!worldVars, Cluster!viewVars, ClusterProved!viewVars
<1>5. Cluster!Finish <=> ClusterProved!Finish
  BY DEF Cluster!Finish, ClusterProved!Finish, Cluster!EndPass, ClusterProved!EndPass,
         Cluster!Q!Done, ClusterProved!Q!Done, Cluster!IdleWorker,
         ClusterProved!IdleWorker, Cluster!worldVars, ClusterProved!worldVars,
         Cluster!viewVars, ClusterProved!viewVars
<1>6. Cluster!ListChildren <=> ClusterProved!ListChildren
  BY DEF Cluster!ListChildren, ClusterProved!ListChildren, Cluster!HasEntry,
         ClusterProved!HasEntry, Cluster!Entries, ClusterProved!Entries, Cluster!Name,
         ClusterProved!Name, Cluster!BindingName, ClusterProved!BindingName,
         Cluster!Self, ClusterProved!Self, Cluster!worldVars, ClusterProved!worldVars,
         Cluster!viewVars, ClusterProved!viewVars, Cluster!queueVars,
         ClusterProved!queueVars
<1> QED
  BY <1>1, <1>2, <1>3, <1>4, <1>5, <1>6

LEMMA SameMerges ==
    /\ Cluster!Answer = ClusterProved!Answer
    /\ \A e : Cluster!Failure(e) = ClusterProved!Failure(e)
    /\ \A ms, g, a : Cluster!ResolveMembers(ms, g, a)
                       = ClusterProved!ResolveMembers(ms, g, a)
<1>1. /\ \A S : Cluster!Success(S) = ClusterProved!Success(S)
      /\ \A e : Cluster!Failure(e) = ClusterProved!Failure(e)
  BY DEF Cluster!Success, ClusterProved!Success, Cluster!Failure, ClusterProved!Failure
<1>2. Cluster!Answer = ClusterProved!Answer
  BY <1>1 DEF Cluster!Answer, ClusterProved!Answer, Cluster!Errors, ClusterProved!Errors
<1>3. \A ms : Cluster!GroupMapOf(ms) = ClusterProved!GroupMapOf(ms)
  BY DEF Cluster!GroupMapOf, ClusterProved!GroupMapOf, Cluster!Range, ClusterProved!Range
<1>4. \A gm, g : Cluster!GroupMapMembers(gm, g) = ClusterProved!GroupMapMembers(gm, g)
  BY <1>1 DEF Cluster!GroupMapMembers, ClusterProved!GroupMapMembers
<1>5. \A as : Cluster!MergedMembers(as) = ClusterProved!MergedMembers(as)
  BY DEF Cluster!MergedMembers, ClusterProved!MergedMembers, Cluster!IsNotFound,
         ClusterProved!IsNotFound, Cluster!Success, ClusterProved!Success,
         Cluster!Failure, ClusterProved!Failure
<1> QED
  BY <1>1, <1>2, <1>3, <1>4, <1>5
  DEF Cluster!ResolveMembers, ClusterProved!ResolveMembers

LEMMA SameLookups ==
    \A m : Cluster!Lookup(m) <=> ClusterProved!Lookup(m)
BY SameMerges
   DEF Cluster!Lookup, ClusterProved!Lookup, Cluster!AtEntry, ClusterProved!AtEntry,
       Cluster!HasEntry, ClusterProved!HasEntry, Cluster!Entries,
       ClusterProved!Entries, Cluster!Entry, ClusterProved!Entry, Cluster!Spend,
       ClusterProved!Spend

LEMMA SameResolves ==
    /\ Cluster!NoMembers <=> ClusterProved!NoMembers
    /\ Cluster!KeepUnknown <=> ClusterProved!KeepUnknown
    /\ Cluster!IgnoreDuplicate <=> ClusterProved!IgnoreDuplicate
    /\ Cluster!Resolve <=> ClusterProved!Resolve
<1>1. Cluster!NoMembers <=> ClusterProved!NoMembers
  BY SameLookups DEF Cluster!NoMembers, ClusterProved!NoMembers, Cluster!AtEntry,
                     ClusterProved!AtEntry, Cluster!HasEntry, ClusterProved!HasEntry,
                     Cluster!Entries, ClusterProved!Entries, Cluster!Entry, ClusterProved!Entry,
                     Cluster!NameOf, ClusterProved!NameOf, Cluster!BindingName,
                     ClusterProved!BindingName, Cluster!worldVars, ClusterProved!worldVars,
                     Cluster!viewVars, ClusterProved!viewVars, Cluster!queueVars,
                     ClusterProved!queueVars, Cluster!IsUnknownMemberships,
                     ClusterProved!IsUnknownMemberships, Cluster!Skip, ClusterProved!Skip,
                     Cluster!Record, ClusterProved!Record, Cluster!Answer, ClusterProved!Answer,
                     Cluster!Success, ClusterProved!Success, Cluster!Failure, ClusterProved!Failure,
                     Cluster!Errors, ClusterProved!Errors
<1>2. Cluster!KeepUnknown <=> ClusterProved!KeepUnknown
  BY SameLookups DEF Cluster!KeepUnknown, ClusterProved!KeepUnknown, Cluster!AtEntry,
                     ClusterProved!AtEntry, Cluster!HasEntry, ClusterProved!HasEntry,
                     Cluster!Entries, ClusterProved!Entries, Cluster!Entry, ClusterProved!Entry,
                     Cluster!NameOf, ClusterProved!NameOf, Cluster!BindingName,
                     ClusterProved!BindingName, Cluster!worldVars, ClusterProved!worldVars,
                     Cluster!viewVars, ClusterProved!viewVars, Cluster!queueVars,
                     ClusterProved!queueVars, Cluster!IsUnknownMemberships,
                     ClusterProved!IsUnknownMemberships, Cluster!Skip, ClusterProved!Skip,
                     Cluster!Record, ClusterProved!Record, Cluster!Answer, ClusterProved!Answer,
                     Cluster!Success, ClusterProved!Success, Cluster!Failure, ClusterProved!Failure,
                     Cluster!Errors, ClusterProved!Errors
<1>3. Cluster!IgnoreDuplicate <=> ClusterProved!IgnoreDuplicate
  BY SameLookups DEF Cluster!IgnoreDuplicate, ClusterProved!IgnoreDuplicate, Cluster!AtEntry,
                     ClusterProved!AtEntry, Cluster!HasEntry, ClusterProved!HasEntry,
                     Cluster!Entries, ClusterProved!Entries, Cluster!Entry, ClusterProved!Entry,
                     Cluster!NameOf, ClusterProved!NameOf, Cluster!BindingName,
                     ClusterProved!BindingName, Cluster!worldVars, ClusterProved!worldVars,
                     Cluster!viewVars, ClusterProved!viewVars, Cluster!queueVars,
                     ClusterProved!queueVars, Cluster!Skip, ClusterProved!Skip, Cluster!Record,
                     ClusterProved!Record, Cluster!Answer, ClusterProved!Answer, Cluster!Success,
                     ClusterProved!Success, Cluster!Failure, ClusterProved!Failure, Cluster!Errors,
                     ClusterProved!Errors
<1>4. Cluster!Resolve <=> ClusterProved!Resolve
  BY SameLookups DEF Cluster!Resolve, ClusterProved!Resolve, Cluster!AtEntry, ClusterProved!AtEntry, Cluster!HasEntry,
                     ClusterProved!HasEntry, Cluster!Entries, ClusterProved!Entries, Cluster!NameOf,
                     ClusterProved!NameOf, Cluster!BindingName, ClusterProved!BindingName,
                     Cluster!Entry, ClusterProved!Entry, Cluster!worldVars, ClusterProved!worldVars,
                     Cluster!viewVars, ClusterProved!viewVars, Cluster!queueVars,
                     ClusterProved!queueVars, Cluster!Answer, ClusterProved!Answer, Cluster!Success,
                     ClusterProved!Success, Cluster!Failure, ClusterProved!Failure, Cluster!Errors,
                     ClusterProved!Errors
<1> QED
  BY <1>1, <1>2, <1>3, <1>4

LEMMA SameWrites ==
    /\ Cluster!UpdateOk <=> ClusterProved!UpdateOk
    /\ Cluster!UpdateNotFound <=> ClusterProved!UpdateNotFound
    /\ Cluster!UpdateRefused <=> ClusterProved!UpdateRefused
    /\ Cluster!CreateOk <=> ClusterProved!CreateOk
    /\ Cluster!CreateRefused <=> ClusterProved!CreateRefused
    /\ Cluster!WriteFails <=> ClusterProved!WriteFails
<1>1. Cluster!UpdateOk <=> ClusterProved!UpdateOk
  BY DEF Cluster!UpdateOk, ClusterProved!UpdateOk, Cluster!Accepted,
         ClusterProved!Accepted, Cluster!Entry, ClusterProved!Entry, Cluster!Entries,
         ClusterProved!Entries, Cluster!NameOf, ClusterProved!NameOf,
         Cluster!BindingName, ClusterProved!BindingName, Cluster!Written,
         ClusterProved!Written, Cluster!Desired, ClusterProved!Desired, Cluster!Self,
         ClusterProved!Self, Cluster!Wrote, ClusterProved!Wrote, Cluster!Record,
         ClusterProved!Record, Cluster!worldVars, ClusterProved!worldVars,
         Cluster!viewVars, ClusterProved!viewVars, Cluster!queueVars,
         ClusterProved!queueVars
<1>2. Cluster!UpdateNotFound <=> ClusterProved!UpdateNotFound
  BY DEF Cluster!UpdateNotFound, ClusterProved!UpdateNotFound, Cluster!NameOf,
         ClusterProved!NameOf, Cluster!BindingName, ClusterProved!BindingName,
         Cluster!Entry, ClusterProved!Entry, Cluster!Entries, ClusterProved!Entries,
         Cluster!worldVars, ClusterProved!worldVars, Cluster!viewVars,
         ClusterProved!viewVars, Cluster!queueVars, ClusterProved!queueVars
<1>3. Cluster!UpdateRefused <=> ClusterProved!UpdateRefused
  BY DEF Cluster!UpdateRefused, ClusterProved!UpdateRefused, Cluster!Accepted,
         ClusterProved!Accepted, Cluster!Entry, ClusterProved!Entry, Cluster!Entries,
         ClusterProved!Entries, Cluster!NameOf, ClusterProved!NameOf,
         Cluster!BindingName, ClusterProved!BindingName, Cluster!Wrote,
         ClusterProved!Wrote, Cluster!Record, ClusterProved!Record, Cluster!worldVars,
         ClusterProved!worldVars, Cluster!viewVars, ClusterProved!viewVars,
         Cluster!queueVars, ClusterProved!queueVars
<1>4. Cluster!CreateOk <=> ClusterProved!CreateOk
  BY DEF Cluster!CreateOk, ClusterProved!CreateOk, Cluster!NameOf, ClusterProved!NameOf,
         Cluster!BindingName, ClusterProved!BindingName, Cluster!Entry,
         ClusterProved!Entry, Cluster!Entries, ClusterProved!Entries, Cluster!Accepted,
         ClusterProved!Accepted, Cluster!Written, ClusterProved!Written,
         Cluster!Desired, ClusterProved!Desired, Cluster!Self, ClusterProved!Self,
         Cluster!Wrote, ClusterProved!Wrote, Cluster!Record, ClusterProved!Record,
         Cluster!worldVars, ClusterProved!worldVars, Cluster!viewVars,
         ClusterProved!viewVars, Cluster!queueVars, ClusterProved!queueVars
<1>5. Cluster!CreateRefused <=> ClusterProved!CreateRefused
  BY DEF Cluster!CreateRefused, ClusterProved!CreateRefused, Cluster!NameOf,
         ClusterProved!NameOf, Cluster!BindingName, ClusterProved!BindingName,
         Cluster!Entry, ClusterProved!Entry, Cluster!Entries, ClusterProved!Entries,
         Cluster!Accepted, ClusterProved!Accepted, Cluster!Wrote, ClusterProved!Wrote,
         Cluster!Record, ClusterProved!Record, Cluster!worldVars,
         ClusterProved!worldVars, Cluster!viewVars, ClusterProved!viewVars,
         Cluster!queueVars, ClusterProved!queueVars
<1>6. Cluster!WriteFails <=> ClusterProved!WriteFails
  BY DEF Cluster!WriteFails, ClusterProved!WriteFails, Cluster!Spend,
         ClusterProved!Spend, Cluster!Accepted, ClusterProved!Accepted, Cluster!Entry,
         ClusterProved!Entry, Cluster!Entries, ClusterProved!Entries, Cluster!NameOf,
         ClusterProved!NameOf, Cluster!BindingName, ClusterProved!BindingName,
         Cluster!Written, ClusterProved!Written, Cluster!Desired, ClusterProved!Desired,
         Cluster!Self, ClusterProved!Self, Cluster!Wrote, ClusterProved!Wrote,
         Cluster!Record, ClusterProved!Record, Cluster!worldVars,
         ClusterProved!worldVars, Cluster!viewVars, ClusterProved!viewVars,
         Cluster!queueVars, ClusterProved!queueVars
<1> QED
  BY <1>1, <1>2, <1>3, <1>4, <1>5, <1>6

LEMMA SameInit ==
    Cluster!Init <=> ClusterProved!Init
BY DEF Cluster!Init, ClusterProved!Init, Cluster!Q!Init, ClusterProved!Q!Init,
       Cluster!Name, ClusterProved!Name, Cluster!BindingName,
       ClusterProved!BindingName

LEMMA SameSpec == Cluster!Spec => ClusterProved!Spec
<1>1. Cluster!Next => ClusterProved!Next
  BY SameVariables, SameEdits, SameDeletes, SameUpstream, SameBindings, SameProcess,
     SameReads, SameResolves, SameWrites
  DEF Cluster!Next, Cluster!Users, Cluster!Worker,
      ClusterProved!Next, ClusterProved!Users, ClusterProved!Worker
<1>2. [Cluster!Next]_(Cluster!vars) => [ClusterProved!Next]_(ClusterProved!vars)
  BY <1>1
  DEF Cluster!vars, Cluster!worldVars, Cluster!viewVars, Cluster!queueVars,
      Cluster!workerVars, ClusterProved!vars, ClusterProved!worldVars,
      ClusterProved!viewVars, ClusterProved!queueVars, ClusterProved!workerVars
<1> QED
  BY <1>2, SameInit, PTL DEF Cluster!Spec, ClusterProved!Spec

\* What Controller assumes of its constants holds of the cluster half's.
LEMMA ClusterAssumed ==
    /\ \A s \in ClusterSpecs :
          /\ s \in [bindings : Seq(ClusterProved!BindingEntry),
                    memberships : Seq(ClusterProved!Membership)]
          /\ s # NoSpec
    /\ UpstreamAnswers \subseteq ClusterProved!Answer
    /\ ClusterValidLabel \subseteq ClusterConfig
    /\ NoConfig \notin ClusterConfig
    /\ Absent \notin [config : ClusterConfig, uid : Nat]
    /\ RoleRefImmutable \in BOOLEAN /\ PollEnabled \in BOOLEAN
    /\ MaxClusterEdits \in Nat /\ MaxFaults \in Nat /\ MaxCrashes \in Nat
BY ControllerAssumption, ClusterAssumption
DEF ControllerAssumption, ClusterAssumption, BindingEntry, Membership, Answer, Success,
    Failure, Errors, ClusterProved!BindingEntry, ClusterProved!Membership,
    ClusterProved!Answer, ClusterProved!Success, ClusterProved!Failure,
    ClusterProved!Errors

\* No change of a ClusterRBACSyncConfig that an informer has seen is lost, whatever
\* the namespaced half and the stop channel do meanwhile.
THEOREM ClusterNothingLost == BothSpec => []ClusterNoLostUpdate
<1>1. ClusterProved!Spec => []ClusterProved!NoLostUpdate
  BY ClusterAssumed, ClusterProved!NothingLost
<1>2. ClusterProved!NoLostUpdate <=> ClusterNoLostUpdate
  BY DEF ClusterNoLostUpdate, Cluster!NoLostUpdate, Cluster!CachedConfigs, Cluster!Present,
     Cluster!Cached, ClusterProved!NoLostUpdate, ClusterProved!CachedConfigs,
     ClusterProved!Present, ClusterProved!Cached
<1> QED
  BY <1>1, <1>2, HalvesAreControllers, SameSpec, PTL

\* handleClusterConfig deletes no ClusterRoleBinding but those of the object it
\* handles, if no two ClusterRBACSyncConfigs' bindings share a name.
THEOREM ClusterCustodyKept ==
    ASSUME Cluster!DistinctNames
    PROVE  BothSpec => []Cluster!Custody
<1>1. ClusterProved!DistinctNames
  BY DEF Cluster!DistinctNames, ClusterProved!DistinctNames, Cluster!BindingName,
         ClusterProved!BindingName
<1>2. ClusterProved!Spec => []ClusterProved!Custody
  BY <1>1, ClusterAssumed, ClusterProved!CustodyKept
<1>3. ClusterProved!Custody <=> Cluster!Custody
  BY DEF Cluster!Custody, ClusterProved!Custody, Cluster!Self, ClusterProved!Self
<1> QED
  BY <1>2, <1>3, HalvesAreControllers, SameSpec, PTL

\* Every ClusterRoleBinding was asked for by one version of its owner and resolved
\* from one upstream answer.
THEOREM ClusterBindingsJustified == BothSpec => []Cluster!Justified
<1>1. ClusterProved!Spec => []ClusterProved!Justified
  BY ClusterAssumed, ClusterProved!EveryBindingJustified
<1>2. ASSUME NEW c, NEW v, NEW n, NEW rb
      PROVE  Cluster!Grants(c, v, n, rb) <=> ClusterProved!Grants(c, v, n, rb)
  <2>1. \A S : Cluster!Success(S) = ClusterProved!Success(S)
    BY DEF Cluster!Success, ClusterProved!Success
  <2> QED
    BY <2>1, SameMerges DEF Cluster!Grants, ClusterProved!Grants, Cluster!BindingName,
                            ClusterProved!BindingName
<1>3. ClusterProved!Justified <=> Cluster!Justified
  <2>1. Cluster!Name = ClusterProved!Name
    BY SameVariables
  <2>2. \A f : Cluster!Range(f) = ClusterProved!Range(f)
    BY DEF Cluster!Range, ClusterProved!Range
  <2>3. \A v : Cluster!Present(v) <=> ClusterProved!Present(v)
    BY DEF Cluster!Present, ClusterProved!Present
  <2> QED
    BY <1>2, <2>1, <2>2, <2>3 DEF Cluster!Justified, ClusterProved!Justified
<1> QED
  BY <1>1, <1>3, HalvesAreControllers, SameSpec, PTL

\* A pass of handleClusterConfig in which the lookup of a group failed leaves the
\* group's ClusterRoleBinding as it was.
THEOREM ClusterLookupsHarmless == BothSpec => Cluster!UnknownLeavesAlone
<1> DEFINE Alone == \A n \in Cluster!Name :
                      (clusterPc # "idle" /\ n \in Cluster!UnknownNames
                         /\ (Cluster!workerVars)' # Cluster!workerVars)
                        => crbs'[n] = crbs[n]
           AloneProved == \A n \in ClusterProved!Name :
                            (clusterPc # "idle" /\ n \in ClusterProved!UnknownNames
                               /\ (ClusterProved!workerVars)' # ClusterProved!workerVars)
                              => crbs'[n] = crbs[n]
<1>1. ClusterProved!Spec => ClusterProved!UnknownLeavesAlone
  BY ClusterAssumed, ClusterProved!FailedLookupIsHarmless
<1>2. ClusterProved!Spec => [][AloneProved]_(ClusterProved!vars)
  BY <1>1 DEF ClusterProved!UnknownLeavesAlone
<1>3. [AloneProved]_(ClusterProved!vars) => [Alone]_(Cluster!vars)
  <2>1. Cluster!UnknownNames = ClusterProved!UnknownNames
    BY DEF Cluster!UnknownNames, ClusterProved!UnknownNames, Cluster!NameOf,
           ClusterProved!NameOf, Cluster!BindingName, ClusterProved!BindingName,
           Cluster!Entries, ClusterProved!Entries
  <2>2. Cluster!Name = ClusterProved!Name
    BY SameVariables
  <2> QED
    BY <2>1, <2>2
    DEF Cluster!vars, Cluster!worldVars, Cluster!viewVars, Cluster!queueVars,
        Cluster!workerVars, ClusterProved!vars, ClusterProved!worldVars,
        ClusterProved!viewVars, ClusterProved!queueVars, ClusterProved!workerVars
<1>4. ClusterProved!Spec => [][Alone]_(Cluster!vars)
  BY <1>2, <1>3, PTL
<1>5. BothSpec => [][Alone]_(Cluster!vars)
  BY <1>4, HalvesAreControllers, SameSpec, PTL
<1> QED
  BY <1>5 DEF Cluster!UnknownLeavesAlone

LEMMA SameSettled ==
    /\ Cluster!InPass <=> ClusterProved!InPass
    /\ Cluster!Settled = ClusterProved!Settled
    /\ Cluster!InPass' <=> ClusterProved!InPass'
    /\ Cluster!Settled' = ClusterProved!Settled'
BY DEF Cluster!InPass, ClusterProved!InPass, Cluster!Settled, ClusterProved!Settled,
       Cluster!NameOf, ClusterProved!NameOf, Cluster!BindingName,
       ClusterProved!BindingName, Cluster!Entries, ClusterProved!Entries

\* The two instances of the keeper are one as well.
LEMMA SameKeeper ==
    ClusterProved!KeepsBindings => Cluster!KeepsBindings
<1> USE SameSettled, SameVariables
<1>1. ClusterProved!Keeper!vars = Cluster!Keeper!vars
  BY DEF Cluster!Keeper!vars, ClusterProved!Keeper!vars, Cluster!Keeper!world,
      ClusterProved!Keeper!world, Cluster!Keeper!keeper,
      ClusterProved!Keeper!keeper
<1>2. ClusterProved!Keeper!Init => Cluster!Keeper!Init
  BY DEF Cluster!Keeper!Init, ClusterProved!Keeper!Init
<1>3. \A c, s : ClusterProved!Keeper!EditConfig(c, s) => Cluster!Keeper!EditConfig(c, s)
  BY DEF Cluster!Keeper!EditConfig, ClusterProved!Keeper!EditConfig,
      Cluster!Keeper!Live, ClusterProved!Keeper!Live, Cluster!Keeper!keeper,
      ClusterProved!Keeper!keeper
<1>4. \A g, a : ClusterProved!Keeper!EditUpstream(g, a) => Cluster!Keeper!EditUpstream(g, a)
  BY DEF Cluster!Keeper!EditUpstream, ClusterProved!Keeper!EditUpstream,
      Cluster!Keeper!keeper, ClusterProved!Keeper!keeper
<1>5. /\ \A n : ClusterProved!Keeper!RemoveByHand(n) => Cluster!Keeper!RemoveByHand(n)
      /\ \A n : ClusterProved!Keeper!Collect(n) => Cluster!Keeper!Collect(n)
  BY DEF Cluster!Keeper!RemoveByHand, ClusterProved!Keeper!RemoveByHand,
      Cluster!Keeper!Collect, ClusterProved!Keeper!Collect,
      Cluster!Keeper!Live, ClusterProved!Keeper!Live, Cluster!Keeper!world,
      ClusterProved!Keeper!world, Cluster!Keeper!keeper,
      ClusterProved!Keeper!keeper
<1>6. /\ \A c : ClusterProved!Keeper!Learn(c) => Cluster!Keeper!Learn(c)
      /\ \A c : ClusterProved!Keeper!Begin(c) => Cluster!Keeper!Begin(c)
  BY DEF Cluster!Keeper!Learn, ClusterProved!Keeper!Learn, Cluster!Keeper!Begin,
      ClusterProved!Keeper!Begin, Cluster!Keeper!world,
      ClusterProved!Keeper!world
<1>7. ClusterProved!Keeper!End => Cluster!Keeper!End
  BY DEF Cluster!Keeper!End, ClusterProved!Keeper!End, Cluster!Keeper!world,
      ClusterProved!Keeper!world
<1>8. /\ Cluster!Keeper!Object = ClusterProved!Keeper!Object
      /\ \A n : Cluster!Keeper!Claims(n) = ClusterProved!Keeper!Claims(n)
      /\ \A e, a : Cluster!Keeper!AskedFor(e, a) = ClusterProved!Keeper!AskedFor(e, a)
  BY DEF Cluster!Keeper!Object, ClusterProved!Keeper!Object,
      Cluster!Keeper!Claims, ClusterProved!Keeper!Claims,
      Cluster!Keeper!AskedFor, ClusterProved!Keeper!AskedFor,
      Cluster!Keeper!Listed, ClusterProved!Keeper!Listed
<1>9. \A n : ClusterProved!Keeper!Grant(n) => Cluster!Keeper!Grant(n)
  BY <1>8
  DEF Cluster!Keeper!Grant, ClusterProved!Keeper!Grant, Cluster!Keeper!world,
      ClusterProved!Keeper!world
<1>10. /\ \A n : ClusterProved!Keeper!Settle(n) => Cluster!Keeper!Settle(n)
       /\ \A n : ClusterProved!Keeper!Revoke(n) => Cluster!Keeper!Revoke(n)
  BY <1>8
  DEF Cluster!Keeper!Settle, ClusterProved!Keeper!Settle,
      Cluster!Keeper!Revoke, ClusterProved!Keeper!Revoke,
      Cluster!Keeper!world, ClusterProved!Keeper!world, Cluster!Keeper!keeper,
      ClusterProved!Keeper!keeper
<1>11. ClusterProved!Keeper!Next => Cluster!Keeper!Next
  <2> SUFFICES ASSUME ClusterProved!Keeper!Next PROVE Cluster!Keeper!Next
    OBVIOUS
  <2> USE DEF Cluster!Keeper!Next
  <2>1. ASSUME NEW c \in ClusterConfig, NEW s \in ClusterSpecs \union {NoSpec},
               ClusterProved!Keeper!EditConfig(c, s)
        PROVE  Cluster!Keeper!Next
    BY <1>3, <2>1
  <2>2. ASSUME NEW g \in Group, NEW a \in UpstreamAnswers,
               ClusterProved!Keeper!EditUpstream(g, a)
        PROVE  Cluster!Keeper!Next
    BY <1>4, <2>2
  <2>3. ASSUME NEW n \in Cluster!Name,
               \/ ClusterProved!Keeper!RemoveByHand(n) \/ ClusterProved!Keeper!Collect(n)
               \/ ClusterProved!Keeper!Grant(n) \/ ClusterProved!Keeper!Settle(n)
               \/ ClusterProved!Keeper!Revoke(n)
        PROVE  Cluster!Keeper!Next
    BY <1>5, <1>9, <1>10, <2>3
  <2>4. ASSUME NEW c \in ClusterConfig,
               ClusterProved!Keeper!Learn(c) \/ ClusterProved!Keeper!Begin(c)
        PROVE  Cluster!Keeper!Next
    BY <1>6, <2>4
  <2>5. CASE ClusterProved!Keeper!End
    BY <1>7, <2>5
  <2> QED
    BY <2>1, <2>2, <2>3, <2>4, <2>5 DEF ClusterProved!Keeper!Next
<1>12. [ClusterProved!Keeper!Next]_(ClusterProved!Keeper!vars)
         => [Cluster!Keeper!Next]_(Cluster!Keeper!vars)
  BY <1>11
  DEF Cluster!Keeper!vars, ClusterProved!Keeper!vars, Cluster!Keeper!world,
      ClusterProved!Keeper!world, Cluster!Keeper!keeper,
      ClusterProved!Keeper!keeper
<1> QED
  BY <1>2, <1>12, PTL DEF Cluster!KeepsBindings, ClusterProved!KeepsBindings,
     Cluster!Keeper!Spec, ClusterProved!Keeper!Spec

\* The cluster half implements the same keeper as the namespaced one: whatever
\* the other half does to the shared process, handleClusterConfig grants what its
\* configs ask for, takes nothing over and revokes only what is its own.
THEOREM ClusterKeepsBindings ==
    ASSUME Cluster!DistinctNames
    PROVE  BothSpec => Cluster!KeepsBindings
<1>1. ClusterProved!DistinctNames
  BY DEF Cluster!DistinctNames, ClusterProved!DistinctNames, Cluster!BindingName,
         ClusterProved!BindingName
<1>2. ClusterProved!Spec => ClusterProved!KeepsBindings
  BY <1>1, ClusterAssumed, ClusterProved!ControllerKeepsBindings
<1> QED
  BY <1>2, SameKeeper, HalvesAreControllers, SameSpec, PTL
=============================================================================
