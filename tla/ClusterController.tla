-------------------------- MODULE ClusterController --------------------------
(***************************************************************************)
(* Both halves of the controller in one process.  Controller's variables   *)
(* are the namespaced half; the cluster half, handleClusterConfig and what *)
(* feeds it, is a second instance of the same algorithm over               *)
(* ClusterRBACSyncConfigs and ClusterRoleBindings, with variables of its   *)
(* own and these differences: ClusterRole is the only kind it accepts, and *)
(* Run never shuts its queue down.  The two share the upstream grouper,    *)
(* the stop channel and the process, and nothing else.                     *)
(***************************************************************************)
EXTENDS Controller

CONSTANTS
    ClusterConfig,       \* names of ClusterRBACSyncConfigs
    ClusterSpecs,        \* the specs users give them
    ClusterValidLabel,   \* those whose name is a valid label value
    MaxClusterEdits      \* bound: edits by users, upstream and cluster

ASSUME ClusterAssumption ==
    /\ \A s \in ClusterSpecs : /\ s \in [bindings : Seq(BindingEntry),
                                         memberships : Seq(Membership)]
                               /\ s # NoSpec
    /\ ClusterValidLabel \subseteq ClusterConfig
    /\ NoConfig \notin ClusterConfig
    /\ Absent \notin [config : ClusterConfig, uid : Nat]
    /\ MaxClusterEdits \in Nat

VARIABLES
    clusterHistory, crbs,           \* the API server's configs and bindings
    clusterSeen, crbCache,          \* the caches of the cluster informers
    clusterWaiting, clusterQueue, clusterDirty, clusterProcessing,
    clusterShuttingDown,            \* stays FALSE: Run shuts down c.queue only
    clusterPc, clusterKey, clusterCfg, clusterOutcome, clusterMembers,
    clusterActive, clusterTodo,     \* the second worker
    clusterLoaded, clusterSpent

Cluster == INSTANCE Controller WITH
    Config <- ClusterConfig, Specs <- ClusterSpecs,
    ValidKinds <- {"ClusterRole"}, ValidLabel <- ClusterValidLabel,
    MaxEdits <- MaxClusterEdits,
    history <- clusterHistory, rbs <- crbs,
    seen <- clusterSeen, rbCache <- crbCache,
    waiting <- clusterWaiting, queue <- clusterQueue, dirty <- clusterDirty,
    processing <- clusterProcessing, shuttingDown <- clusterShuttingDown,
    pc <- clusterPc, key <- clusterKey, cfg <- clusterCfg,
    outcome <- clusterOutcome, members <- clusterMembers,
    active <- clusterActive, todo <- clusterTodo,
    loaded <- clusterLoaded, spent <- clusterSpent

\* What only one half has.  upstream and running are in neither list.
namespacedVars == <<history, rbs, viewVars, queueVars, workerVars, loaded, spent>>
clusterVars ==
    <<clusterHistory, crbs, clusterSeen, crbCache, clusterWaiting, clusterQueue,
      clusterDirty, clusterProcessing, clusterShuttingDown, clusterPc, clusterKey,
      clusterCfg, clusterOutcome, clusterMembers, clusterActive, clusterTodo, clusterLoaded,
      clusterSpent>>
bothVars == <<upstream, running, namespacedVars, clusterVars>>

BothInit == Init /\ Cluster!Init

-----------------------------------------------------------------------------
(* The namespaced half *)

NamespacedStep ==
    \/ \E c \in Config, s \in Specs : CreateConfig(c, s) \/ UpdateConfig(c, s)
    \/ \E c \in Config : DeleteConfig(c) \/ Sync(c) \/ AddReady(c)
    \/ \E n \in Name : DeleteBindingByHand(n) \/ GarbageCollect(n) \/ RefreshBinding(n)
    \/ Poll \/ Stop \/ Dequeue \/ Worker

-----------------------------------------------------------------------------
(* The cluster half *)

ClusterUsers ==
    \/ \E c \in ClusterConfig, s \in ClusterSpecs :
          Cluster!CreateConfig(c, s) \/ Cluster!UpdateConfig(c, s)
    \/ \E c \in ClusterConfig : Cluster!DeleteConfig(c)
    \/ \E n \in Cluster!Name : Cluster!DeleteBindingByHand(n)

\* (mistake) Once stopCh is closed the handlers drop cluster configs, as c.queue
\* does with its own.
ClusterSyncUntilStop(c) ==
    IF shuttingDown
      THEN \E i \in (clusterSeen[c] + 1)..Len(clusterHistory[c]) :
              /\ clusterSeen' = [clusterSeen EXCEPT ![c] = i]
              /\ UNCHANGED <<upstream, running, clusterHistory, crbs, crbCache,
                             clusterWaiting, clusterQueue, clusterDirty,
                             clusterProcessing, clusterShuttingDown, clusterPc,
                             clusterKey, clusterCfg, clusterOutcome, clusterMembers, clusterActive,
                             clusterTodo, clusterLoaded, clusterSpent>>
      ELSE Cluster!Sync(c)

\* The cluster informer's handlers; enqueue picks the queue by the object's type.
ClusterSync(c) == Cluster!Sync(c)

\* The poller ends with the stop channel, though its queue would still take keys.
PollClusters == ~shuttingDown /\ Cluster!Poll

\* (mistake) One worker takes turns on both queues.
ClusterDequeueInTurn == pc = "idle" /\ Cluster!Dequeue

\* The cluster worker.  Its Get does not end with the stop channel: until the
\* process exits it goes on taking keys.
ClusterDequeue == Cluster!Dequeue

LoadCluster == Cluster!Load \/ Cluster!LoadMissing

\* handleClusterConfig: a binding that is not written, a resolved one, then the
\* cleanup.
ClusterBinding ==
    \/ Cluster!RejectKind \/ Cluster!NoMembers \/ Cluster!KeepUnknown
    \/ Cluster!IgnoreDuplicate \/ Cluster!Resolve

CreateOrUpdateClusterRoleBinding ==
    \/ Cluster!UpdateOk \/ Cluster!UpdateNotFound \/ Cluster!UpdateRefused
    \/ Cluster!CreateOk \/ Cluster!CreateRefused \/ Cluster!WriteFails

ClusterCleanup ==
    \/ Cluster!ListChildren \/ Cluster!SelectorError
    \/ \E n \in Cluster!Name : Cluster!DeleteChild(n) \/ Cluster!DeleteFails(n)
    \/ Cluster!Finish

HandleClusterConfig ==
    LoadCluster \/ ClusterBinding \/ CreateOrUpdateClusterRoleBinding \/ ClusterCleanup

ClusterStep ==
    \/ ClusterUsers
    \/ \E c \in ClusterConfig : ClusterSync(c) \/ Cluster!AddReady(c)
    \/ \E n \in Cluster!Name : Cluster!GarbageCollect(n) \/ Cluster!RefreshBinding(n)
    \/ PollClusters \/ ClusterDequeue \/ HandleClusterConfig

-----------------------------------------------------------------------------
(* What the halves share *)

EditUpstreamForBoth(g, a) == EditUpstream(g, a) /\ Cluster!EditUpstream(g, a)

\* main returns after Run, or the process is killed, whatever the workers do.
ProcessExit == Exit /\ Cluster!Exit

\* Run waits for all the caches, and starts both workers.
ProcessStart == Start /\ Cluster!Start

SharedStep ==
    \/ \E g \in Group, a \in UpstreamAnswers : EditUpstreamForBoth(g, a)
    \/ ProcessExit
    \/ ProcessStart

BothNext ==
    \/ NamespacedStep /\ UNCHANGED clusterVars
    \/ ClusterStep /\ UNCHANGED namespacedVars
    \/ SharedStep

BothSpec == BothInit /\ [][BothNext]_bothVars

\* Everything the cluster half depends on goes on.  Of the namespaced half
\* nothing is assumed: its worker may hang in a lookup or an API call for ever.
ClusterFairness ==
    /\ \A c \in ClusterConfig :
          WF_bothVars(ClusterSync(c) /\ UNCHANGED namespacedVars)
          /\ WF_bothVars(Cluster!AddReady(c) /\ UNCHANGED namespacedVars)
    /\ \A n \in Cluster!Name :
          WF_bothVars(Cluster!RefreshBinding(n) /\ UNCHANGED namespacedVars)
          /\ WF_bothVars(Cluster!GarbageCollect(n) /\ UNCHANGED namespacedVars)
    /\ WF_bothVars(PollClusters /\ UNCHANGED namespacedVars)
    /\ WF_bothVars(ProcessStart) /\ WF_bothVars(shuttingDown /\ ProcessExit)
    /\ WF_bothVars(ClusterDequeue /\ UNCHANGED namespacedVars)
    /\ WF_bothVars(HandleClusterConfig /\ UNCHANGED namespacedVars)

FairBothSpec == BothSpec /\ ClusterFairness

-----------------------------------------------------------------------------
\* No version of a ClusterRBACSyncConfig that reached the cache is forgotten.
\* The process being about to stop is no exception here, because nothing shuts
\* the cluster queue down.
ClusterNoLostUpdate == Cluster!NoLostUpdate

\* The cluster half converges even if the namespaced worker never comes back
\* from a call: the halves have a queue and a worker each.
ClusterConverges == Cluster!Converges
=============================================================================
