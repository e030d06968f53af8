----------------------------- MODULE Controller -----------------------------
(***************************************************************************)
(* pkg/controller: the loop that turns RBACSyncConfigs into RoleBindings.  *)
(*                                                                         *)
(* Around the controller (external): the API server holding configs and    *)
(* bindings, its garbage collector, the upstream grouper, and the watches  *)
(* through which the informers see the API server with a delay.  In it:    *)
(* the event handlers and the poller that enqueue configs, the work queue, *)
(* and one worker that takes a config off the queue, reads it from the     *)
(* informer's cache and runs handleConfig.                                 *)
(*                                                                         *)
(* The module is the namespaced half of the controller seen in one         *)
(* namespace; objects of different namespaces share nothing but the queue. *)
(* ValidKinds is the one difference of the cluster half,                   *)
(* handleClusterConfig, which takes only ClusterRole.                      *)
(***************************************************************************)
EXTENDS Groups, FiniteSets

CONSTANTS
    Config,            \* names of RBACSyncConfigs
    Role,              \* names of Roles and ClusterRoles
    Kinds,             \* values of roleRef.kind that users write
    ValidKinds,        \* the ones handleConfig accepts
    Specs,             \* the specs users give their configs
    UpstreamAnswers,   \* what the upstream grouper may answer for a group
    ValidLabel,        \* configs whose name is a valid label value
    RoleRefImmutable,  \* does the API server refuse to change a roleRef?
    PollEnabled,       \* -poll-period > 0
    MaxEdits,          \* bound: edits by users, upstream and cluster
    MaxFaults,         \* bound: failed lookups and API calls
    MaxCrashes,        \* bound: restarts of the process
    NoSpec, NoConfig, NoVersion, Absent   \* markers

\* A binding's name is config-group-role.  Names are written as sequences of
\* their hyphen-free segments, so that joining them with "-" is \o.
BindingName(c, g, r) == c \o g \o r
Name == {BindingName(c, g, r) : c \in Config, g \in Group, r \in Role}

\* No two configs' bindings share a name.  Names of configs, groups and roles
\* may contain hyphens, so this is not a given.
DistinctNames ==
    \A c1, c2 \in Config, g1, g2 \in Group, r1, r2 \in Role :
        BindingName(c1, g1, r1) = BindingName(c2, g2, r2) => c1 = c2

BindingEntry == [group : Group, kind : Kinds, role : Role]

ASSUME ControllerAssumption ==
    /\ \A s \in Specs : /\ s \in [bindings : Seq(BindingEntry),
                                  memberships : Seq(Membership)]
                        /\ s # NoSpec
    /\ UpstreamAnswers \subseteq Answer
    /\ ValidLabel \subseteq Config
    /\ NoConfig \notin Config
    /\ Absent \notin [config : Config, uid : Nat]
    /\ RoleRefImmutable \in BOOLEAN /\ PollEnabled \in BOOLEAN
    /\ MaxEdits \in Nat /\ MaxFaults \in Nat /\ MaxCrashes \in Nat

VARIABLES
    history,     \* history[c]: every version config c had, the last is live
    upstream,    \* upstream[g]: every answer upstream had for g, the last is live
    rbs,         \* rbs[n]: the RoleBinding named n, or Absent
    seen,        \* seen[c]: the version of c in the informer's cache
    rbCache,     \* rbCache[n]: the owner of n in the lister's cache, or Absent
    running,     \* is there a controller process?
    waiting, queue, dirty, processing, shuttingDown,   \* the work queue
    pc,          \* where the worker is
    key, cfg,    \* the config it handles, the version it read
    outcome,     \* what became of each of its bindings so far
    members,     \* subjects resolved for the binding at hand
    active,      \* handleConfig's set of names that are still part of cfg
    todo,        \* bindings the cleanup loop has still to delete
    loaded,      \* loaded[c]: the version last read by this process (history)
    spent        \* how much of each bound is used

queueVars   == <<waiting, queue, dirty, processing, shuttingDown>>
workerVars  == <<pc, key, cfg, outcome, members, active, todo>>
worldVars   == <<history, upstream>>
viewVars    == <<seen, rbCache>>
vars == <<worldVars, rbs, viewVars, running, queueVars, workerVars, loaded, spent>>

Q == INSTANCE WorkQueue WITH Key <- Config

-----------------------------------------------------------------------------
\* A version of a config.  uid numbers its creations: a config deleted and
\* created again is another object to the API server.
Version == [uid : Nat, spec : Specs \union {NoSpec}]
Present(v) == v.spec # NoSpec
Live(c)    == history[c][Len(history[c])]
Cached(c)  == history[c][seen[c]]
CachedConfigs == {c \in Config : Present(Cached(c))}

Owner == [config : Config, uid : Nat]
OwnerIsLive(o) == Present(Live(o.config)) /\ Live(o.config).uid = o.uid

\* A RoleBinding: the controller reference (its config is also the value of the
\* label "owner"), the group annotation, the role reference and the subjects.
Binding == [owner : Owner, group : Group, kind : Kinds, role : Role,
            subjects : SUBSET Subject]

Outcomes == {"invalid", "noMembers", "unknown", "duplicate", "failed", "configured"}

Spend(what, max) == spent[what] < max /\ spent' = [spent EXCEPT ![what] = @ + 1]

WorldTypes ==
    /\ history \in [Config -> Seq(Version)]
    /\ upstream \in [Group -> Seq(Answer)]
    /\ \A g \in Group : upstream[g] # <<>>
    /\ rbs \in [Name -> Binding \union {Absent}]

ViewTypes ==
    /\ seen \in [Config -> Nat \ {0}]
    /\ \A c \in Config : seen[c] <= Len(history[c])
    /\ rbCache \in [Name -> Owner \union {Absent}]
    /\ loaded \in [Config -> Nat \ {0}]
    /\ \A c \in Config : loaded[c] <= seen[c]

\* The worker's variables carry something only where its code uses them.
WorkerTypes ==
    /\ running \in BOOLEAN
    /\ shuttingDown => running
    /\ pc \in {"idle", "load", "bindings", "update", "create", "cleanup"}
    /\ pc = "idle" => key = NoConfig
    /\ pc # "idle" => running /\ key \in Config
    /\ pc \notin {"idle", "load"} =>
          /\ cfg \in Version /\ Present(cfg)
          /\ Len(outcome) <= Len(cfg.spec.bindings)
    /\ pc \in {"update", "create"} => Len(outcome) < Len(cfg.spec.bindings)
    /\ outcome \in Seq(Outcomes)
    /\ pc \in {"idle", "load"} => outcome = <<>>
    /\ members \in SUBSET Subject
    /\ active \in SUBSET Name
    /\ todo \in SUBSET Name
    /\ todo # {} => pc = "cleanup"

SpentTypes ==
    /\ spent \in [{"edit", "fault", "crash"} -> Nat]
    /\ spent["edit"] <= MaxEdits
    /\ spent["fault"] <= MaxFaults
    /\ spent["crash"] <= MaxCrashes

TypeOK == WorldTypes /\ ViewTypes /\ WorkerTypes /\ SpentTypes

Init ==
    /\ history = [c \in Config |-> <<[uid |-> 0, spec |-> NoSpec]>>]
    /\ upstream \in [Group -> {<<a>> : a \in UpstreamAnswers}]
    /\ rbs = [n \in Name |-> Absent]
    /\ seen = [c \in Config |-> 1]
    /\ rbCache = [n \in Name |-> Absent]
    /\ running = FALSE
    /\ Q!Init
    /\ pc = "idle" /\ key = NoConfig /\ cfg = NoVersion
    /\ outcome = <<>> /\ members = {} /\ active = {} /\ todo = {}
    /\ loaded = [c \in Config |-> 1]
    /\ spent = [what \in {"edit", "fault", "crash"} |-> 0]

-----------------------------------------------------------------------------
(* The world: users, the upstream directory, the cluster *)

Edit(c, v) ==
    /\ Spend("edit", MaxEdits)
    /\ history' = [history EXCEPT ![c] = Append(@, v)]
    /\ UNCHANGED <<upstream, rbs, viewVars, running, queueVars, workerVars, loaded>>

CreateConfig(c, s) ==
    /\ ~Present(Live(c))
    /\ Edit(c, [uid |-> Live(c).uid + 1, spec |-> s])

UpdateConfig(c, s) ==
    /\ Present(Live(c))
    /\ Live(c).spec # s
    /\ Edit(c, [uid |-> Live(c).uid, spec |-> s])

DeleteConfig(c) ==
    /\ Present(Live(c))
    /\ Edit(c, [uid |-> Live(c).uid, spec |-> NoSpec])

EditUpstream(g, a) ==
    /\ upstream[g][Len(upstream[g])] # a
    /\ Spend("edit", MaxEdits)
    /\ upstream' = [upstream EXCEPT ![g] = Append(@, a)]
    /\ UNCHANGED <<history, rbs, viewVars, running, queueVars, workerVars, loaded>>

RemoveBinding(n) ==
    /\ rbs[n] # Absent
    /\ rbs' = [rbs EXCEPT ![n] = Absent]
    /\ UNCHANGED <<worldVars, viewVars, running, queueVars, workerVars, loaded>>

\* Somebody else deletes a binding.
DeleteBindingByHand(n) ==
    /\ Spend("edit", MaxEdits)
    /\ RemoveBinding(n)

\* The cluster's garbage collector follows the controller reference.
GarbageCollect(n) ==
    /\ rbs[n] # Absent
    /\ ~OwnerIsLive(rbs[n].owner)
    /\ RemoveBinding(n)
    /\ UNCHANGED spent

-----------------------------------------------------------------------------
(* Informers and event handlers *)

\* (mistake) The update handler takes a resync for a change and the other way
\* round: an update is dropped, only an added config is enqueued.
SyncIgnoresUpdates(c) ==
    \E i \in (seen[c] + 1)..Len(history[c]) :
        /\ seen' = [seen EXCEPT ![c] = i]
        /\ IF running /\ Present(history[c][i]) /\ ~Present(Cached(c))
             THEN Q!AddRateLimited({c})
             ELSE UNCHANGED queueVars
        /\ UNCHANGED <<worldVars, rbs, rbCache, running, workerVars, loaded, spent>>

\* A watch event brings the cache of config c to some later version (versions
\* in between may be skipped by a relist).  Adding and changing a config
\* enqueues it; there is no handler for a deletion.  A resync is not an event:
\* the update handler returns when the resource version is the same.
Sync(c) ==
    \E i \in (seen[c] + 1)..Len(history[c]) :
        /\ seen' = [seen EXCEPT ![c] = i]
        /\ IF running /\ Present(history[c][i])
             THEN Q!AddRateLimited({c})
             ELSE UNCHANGED queueVars
        /\ UNCHANGED <<worldVars, rbs, rbCache, running, workerVars, loaded, spent>>

\* The same for the lister of RoleBindings, on which no handler is registered.
\* Only ownership and name are read from it.
RefreshBinding(n) ==
    LET current == IF rbs[n] = Absent THEN Absent ELSE rbs[n].owner
    IN  /\ rbCache[n] # current
        /\ rbCache' = [rbCache EXCEPT ![n] = current]
        /\ UNCHANGED <<worldVars, rbs, seen, running, queueVars, workerVars, loaded, spent>>

\* (mistake) The poller enqueues only configs that changed since they were read.
PollChangedOnly ==
    /\ running /\ PollEnabled
    /\ Q!AddRateLimited({c \in CachedConfigs : loaded[c] # seen[c]})
    /\ UNCHANGED <<worldVars, rbs, viewVars, running, workerVars, loaded, spent>>

\* pollRBACSyncConfigs enqueues every config of the lister.
Poll ==
    /\ running /\ PollEnabled
    /\ Q!AddRateLimited(CachedConfigs)
    /\ UNCHANGED <<worldVars, rbs, viewVars, running, workerVars, loaded, spent>>

AddReady(c) ==
    /\ Q!AddReady(c)
    /\ UNCHANGED <<worldVars, rbs, viewVars, running, workerVars, loaded, spent>>

-----------------------------------------------------------------------------
(* The process *)

IdleWorker ==
    /\ pc' = "idle" /\ key' = NoConfig /\ cfg' = NoVersion
    /\ outcome' = <<>> /\ members' = {} /\ active' = {} /\ todo' = {}

\* The stop channel is closed: Run returns and its deferred call shuts the
\* queue down.  The worker's goroutine goes on until main has exited.
Stop ==
    /\ running
    /\ Spend("crash", MaxCrashes)
    /\ Q!ShutDown
    /\ UNCHANGED <<worldVars, rbs, viewVars, running, workerVars, loaded>>

\* The process ends, wherever the worker is: main exits after Run, or the pod
\* is killed.  What the API server's watches have delivered is what the next
\* process will find when it lists.
Exit ==
    /\ running
    /\ IF shuttingDown THEN UNCHANGED spent ELSE Spend("crash", MaxCrashes)
    /\ running' = FALSE
    /\ waiting' = {} /\ queue' = <<>> /\ dirty' = {} /\ processing' = {}
    /\ shuttingDown' = FALSE
    /\ loaded' = [c \in Config |-> 1]
    /\ IdleWorker
    /\ UNCHANGED <<worldVars, rbs, viewVars>>

\* A new process: the caches are filled (WaitForCacheSync) and the informers
\* call AddFunc for every config in them.
Start ==
    /\ ~running
    /\ running' = TRUE
    /\ Q!AddRateLimited(CachedConfigs)
    /\ UNCHANGED <<worldVars, rbs, viewVars, workerVars, loaded, spent>>

-----------------------------------------------------------------------------
(* The worker: makeWorker and handleConfig *)

\* queue.Done runs on every way out of the handler; an error of the handler
\* is logged and nothing is enqueued again.
EndPass ==
    /\ Q!Done(key)
    /\ IdleWorker
    /\ UNCHANGED <<worldVars, rbs, viewVars, running>>

Dequeue ==
    /\ running /\ pc = "idle"
    /\ \E c \in Config :
          /\ Q!Get(c)
          /\ key' = c
    /\ pc' = "load"
    /\ UNCHANGED <<worldVars, rbs, viewVars, running, cfg, outcome, members,
                   active, todo, loaded, spent>>

\* (mistake) The lister's error is not looked at.
LoadUnchecked ==
    /\ pc = "load"
    /\ cfg' = Cached(key)
    /\ loaded' = [loaded EXCEPT ![key] = seen[key]]
    /\ pc' = "bindings"
    /\ UNCHANGED <<worldVars, rbs, viewVars, running, queueVars, key, outcome,
                   members, active, todo, spent>>

\* The config is read from the lister when it is handled, not when enqueued.
Load ==
    /\ pc = "load"
    /\ Present(Cached(key))
    /\ cfg' = Cached(key)
    /\ loaded' = [loaded EXCEPT ![key] = seen[key]]
    /\ pc' = "bindings"
    /\ UNCHANGED <<worldVars, rbs, viewVars, running, queueVars, key, outcome,
                   members, active, todo, spent>>

LoadMissing ==
    /\ pc = "load"
    /\ ~Present(Cached(key))
    /\ EndPass
    /\ UNCHANGED <<loaded, spent>>

Entries    == cfg.spec.bindings
HasEntry   == Len(outcome) < Len(Entries)
Entry      == Entries[Len(outcome) + 1]     \* the loop's binding
NameOf(e)  == BindingName(key, e.group, e.role)

Record(o) == outcome' = Append(outcome, o)

\* An iteration that ends without having written anything.
Skip(o) ==
    /\ Record(o)
    /\ UNCHANGED <<worldVars, rbs, viewVars, running, queueVars, pc, key, cfg,
                   members, todo, loaded>>

AtEntry == pc = "bindings" /\ HasEntry

RejectKind ==
    /\ AtEntry
    /\ Entry.kind \notin ValidKinds
    /\ Skip("invalid")
    /\ UNCHANGED <<active, spent>>

\* gm.Members(binding.Group) returns m: upstream answers, or the lookup fails.
Lookup(m) ==
    /\ AtEntry
    /\ Entry.kind \in ValidKinds
    /\ LET answers == upstream[Entry.group]
           Resolve(a) == ResolveMembers(cfg.spec.memberships, Entry.group, a)
       IN  \/ /\ m = Resolve(answers[Len(answers)])
              /\ UNCHANGED spent
           \/ /\ \E e \in {"unknown", "timeout", "canceled"} : m = Resolve(Failure(e))
              /\ Spend("fault", MaxFaults)

\* Not found, an error of no known cause, or no members: the binding is not
\* marked active, so that the cleanup deletes it.
NoMembers ==
    /\ \E m \in Answer :
          /\ Lookup(m)
          /\ ~IsUnknownMemberships(m.err)
          /\ m.err # "nil" \/ m.subjects = {}
    /\ Skip("noMembers")
    /\ UNCHANGED active

\* (mistake) A failed lookup is treated like an unknown group.
KeepUnknownNot ==
    /\ \E m \in Answer : Lookup(m) /\ IsUnknownMemberships(m.err)
    /\ Skip("unknown")
    /\ UNCHANGED active

\* The lookup failed: the name stays active, so that the cleanup leaves it.
KeepUnknown ==
    /\ \E m \in Answer : Lookup(m) /\ IsUnknownMemberships(m.err)
    /\ Skip("unknown")
    /\ active' = active \union {NameOf(Entry)}

IgnoreDuplicate ==
    /\ \E m \in Answer : Lookup(m) /\ m.err = "nil" /\ m.subjects # {}
    /\ NameOf(Entry) \in active
    /\ Skip("duplicate")
    /\ UNCHANGED active

Resolve ==
    /\ AtEntry
    /\ NameOf(Entry) \notin active
    /\ \E m \in Answer :
          /\ Lookup(m)
          /\ m.err = "nil" /\ m.subjects # {}
          /\ members' = m.subjects
    /\ pc' = "update"
    /\ UNCHANGED <<worldVars, rbs, viewVars, running, queueVars, key, cfg,
                   outcome, active, todo, loaded>>

-----------------------------------------------------------------------------
(* createOrUpdateRoleBinding: Update, and Create when that says NotFound *)

Self == [config |-> key, uid |-> cfg.uid]

\* (mistake) The owner is looked up again instead of taken from the config
\* the pass works on.
DesiredByLiveOwner ==
    [owner |-> [config |-> key, uid |-> Live(key).uid],
     group |-> Entry.group, kind |-> Entry.kind, role |-> Entry.role,
     subjects |-> members]

Desired == [owner |-> Self, group |-> Entry.group, kind |-> Entry.kind,
            role |-> Entry.role, subjects |-> members]

\* Validation in the API server: the label "owner" must be a valid value, and
\* a roleRef may be immutable.
Accepted(old) ==
    /\ key \in ValidLabel
    /\ old # Absent /\ RoleRefImmutable =>
          old.kind = Entry.kind /\ old.role = Entry.role

Written == rbs' = [rbs EXCEPT ![NameOf(Entry)] = Desired]

\* The end of an iteration that called the API server.
Wrote(o) ==
    /\ Record(o)
    /\ pc' = "bindings"
    /\ members' = {}
    /\ active' = IF o = "configured" THEN active \union {NameOf(Entry)} ELSE active
    /\ UNCHANGED <<worldVars, viewVars, running, queueVars, key, cfg, todo, loaded>>

\* An update of a binding that is not there creates it, or is refused with
\* NotFound: the code is written for both.
UpdateOk ==
    /\ pc = "update"
    /\ Accepted(rbs[NameOf(Entry)])
    /\ Written
    /\ Wrote("configured")
    /\ UNCHANGED spent

UpdateNotFound ==
    /\ pc = "update"
    /\ rbs[NameOf(Entry)] = Absent
    /\ pc' = "create"
    /\ UNCHANGED <<worldVars, rbs, viewVars, running, queueVars, key, cfg,
                   outcome, members, active, todo, loaded, spent>>

UpdateRefused ==
    /\ pc = "update"
    /\ ~Accepted(rbs[NameOf(Entry)])
    /\ Wrote("failed")
    /\ UNCHANGED <<rbs, spent>>

CreateOk ==
    /\ pc = "create"
    /\ rbs[NameOf(Entry)] = Absent
    /\ Accepted(Absent)
    /\ Written
    /\ Wrote("configured")
    /\ UNCHANGED spent

CreateRefused ==
    /\ pc = "create"
    /\ rbs[NameOf(Entry)] # Absent \/ ~Accepted(Absent)
    /\ Wrote("failed")
    /\ UNCHANGED <<rbs, spent>>

\* The call fails; the API server may have done it before the answer was lost.
WriteFails ==
    /\ pc \in {"update", "create"}
    /\ Spend("fault", MaxFaults)
    /\ \/ UNCHANGED rbs
       \/ Accepted(rbs[NameOf(Entry)]) /\ (pc = "create" => rbs[NameOf(Entry)] = Absent) /\ Written
    /\ Wrote("failed")

-----------------------------------------------------------------------------
(* The cleanup loop *)

\* (mistake) A selector that cannot be built is tried again.
SelectorRetried ==
    /\ pc = "bindings" /\ ~HasEntry
    /\ key \notin ValidLabel
    /\ UNCHANGED vars

\* (mistake) Children are told by the label alone, not by the owner's uid.
ListChildrenByLabel ==
    /\ pc = "bindings" /\ ~HasEntry
    /\ key \in ValidLabel
    /\ todo' = {n \in Name : rbCache[n] # Absent /\ rbCache[n].config = key} \ active
    /\ pc' = "cleanup"
    /\ UNCHANGED <<worldVars, rbs, viewVars, running, queueVars, key, cfg,
                   outcome, members, active, loaded, spent>>

\* The children in the lister's cache: those with the label whose controller
\* reference has the config's uid.  The active ones are skipped.
ListChildren ==
    /\ pc = "bindings" /\ ~HasEntry
    /\ key \in ValidLabel
    /\ todo' = {n \in Name : rbCache[n] = Self} \ active
    /\ pc' = "cleanup"
    /\ UNCHANGED <<worldVars, rbs, viewVars, running, queueVars, key, cfg,
                   outcome, members, active, loaded, spent>>

SelectorError ==
    /\ pc = "bindings" /\ ~HasEntry
    /\ key \notin ValidLabel
    /\ EndPass
    /\ UNCHANGED <<loaded, spent>>

\* Delete is by name, without a precondition; NotFound counts as success.
DeleteChild(n) ==
    /\ pc = "cleanup" /\ n \in todo
    /\ todo' = todo \ {n}
    /\ rbs' = [rbs EXCEPT ![n] = Absent]
    /\ UNCHANGED <<worldVars, viewVars, running, queueVars, pc, key, cfg, outcome,
                   members, active, loaded, spent>>

DeleteFails(n) ==
    /\ pc = "cleanup" /\ n \in todo
    /\ Spend("fault", MaxFaults)
    /\ todo' = todo \ {n}
    /\ UNCHANGED rbs \/ rbs' = [rbs EXCEPT ![n] = Absent]
    /\ UNCHANGED <<worldVars, viewVars, running, queueVars, pc, key, cfg, outcome,
                   members, active, loaded>>

Finish ==
    /\ pc = "cleanup" /\ todo = {}
    /\ EndPass
    /\ UNCHANGED <<loaded, spent>>

-----------------------------------------------------------------------------
Users ==
    \/ \E c \in Config, s \in Specs : CreateConfig(c, s) \/ UpdateConfig(c, s)
    \/ \E c \in Config : DeleteConfig(c)
    \/ \E g \in Group, a \in UpstreamAnswers : EditUpstream(g, a)
    \/ \E n \in Name : DeleteBindingByHand(n)

Worker ==
    \/ Load \/ LoadMissing
    \/ RejectKind \/ NoMembers \/ KeepUnknown \/ IgnoreDuplicate \/ Resolve
    \/ UpdateOk \/ UpdateNotFound \/ UpdateRefused
    \/ CreateOk \/ CreateRefused \/ WriteFails
    \/ ListChildren \/ SelectorError
    \/ \E n \in Name : DeleteChild(n) \/ DeleteFails(n)
    \/ Finish

Next ==
    \/ Users
    \/ \E n \in Name : GarbageCollect(n) \/ RefreshBinding(n)
    \/ \E c \in Config : Sync(c) \/ AddReady(c)
    \/ Poll \/ Stop \/ Exit \/ Start
    \/ Dequeue \/ Worker

\* Watches deliver, timers and the poller fire, the worker's goroutine runs, the
\* pod is restarted (restartPolicy Always), and the cluster's garbage collector
\* works.  That the worker's calls return is assumed of the API server and the
\* grouper: main gives its clients no timeout.  Nothing is assumed of users.
Fairness ==
    /\ \A c \in Config : WF_vars(Sync(c)) /\ WF_vars(AddReady(c))
    /\ \A n \in Name : WF_vars(RefreshBinding(n)) /\ WF_vars(GarbageCollect(n))
    /\ WF_vars(Poll)
    /\ WF_vars(Start) /\ WF_vars(shuttingDown /\ Exit)
    /\ WF_vars(Dequeue)
    /\ WF_vars(Worker)

Spec == Init /\ [][Next]_vars
FairSpec == Spec /\ Fairness

-----------------------------------------------------------------------------
(* Safety *)

\* A version that reached the cache is handled: it has been read by the worker,
\* or the config is waiting, queued, marked to be queued by Done, or about to be
\* read.  Handlers, delay timer, poller and worker each move the key by
\* themselves; the version handled is read later than the key was enqueued.
NoLostUpdate ==
    running /\ ~shuttingDown =>
        \A c \in CachedConfigs :
            loaded[c] # seen[c] =>
                c \in waiting \union dirty \/ (pc = "load" /\ key = c)

\* The cleanup works from a list read from a cache and deletes by name alone.
\* Even so, whatever it is about to delete is, if it still exists, owned by the
\* very object being handled: not by another config, nor by a later creation of
\* the config under the same name.
Custody ==
    \A n \in todo : rbs[n] # Absent => rbs[n].owner = Self

\* What Custody rests on.  The uid of a config's versions never decreases; what
\* the worker or the cache holds of a config is never of a later creation than
\* the informer has seen; a binding's owner is no later either, and while a pass
\* is under way, no later than the version the pass works on; and the lister
\* never shows a later owner than the binding has.
InPass == pc \notin {"idle", "load"}

OwnerBound(c) == IF InPass /\ key = c THEN cfg.uid ELSE Cached(c).uid

Aged(n, o) ==
    /\ \E g \in Group, r \in Role : n = BindingName(o.config, g, r)
    /\ o.uid <= OwnerBound(o.config)

UidsGrow ==
    \A c \in Config : \A i, j \in DOMAIN history[c] :
        i <= j => history[c][i].uid <= history[c][j].uid

OwnersAged ==
    \A n \in Name :
        /\ rbs[n] # Absent => Aged(n, rbs[n].owner)
        /\ rbCache[n] # Absent => Aged(n, rbCache[n])
        /\ rbs[n] # Absent /\ rbCache[n] # Absent => rbCache[n].uid <= rbs[n].owner.uid

Lineage ==
    /\ UidsGrow
    /\ OwnersAged
    /\ InPass => cfg.uid <= Cached(key).uid
    /\ Custody

\* The names whose group lookup failed in this pass.
UnknownNames ==
    {NameOf(Entries[i]) : i \in {j \in DOMAIN outcome : outcome[j] = "unknown"}}

\* A failed lookup is not evidence: in the pass in which the lookup of its
\* group failed, the worker neither rewrites nor deletes the binding.
UnknownLeavesAlone ==
    [][\A n \in Name :
          (pc # "idle" /\ n \in UnknownNames /\ workerVars' # workerVars)
              => rbs'[n] = rbs[n]]_vars

\* What a binding of version v of config c may contain, taking each upstream
\* answer there ever was.
Grants(c, v, n, rb) ==
    \E i \in DOMAIN v.spec.bindings, j \in DOMAIN upstream[rb.group] :
        LET e == v.spec.bindings[i]
        IN  /\ e.kind \in ValidKinds
            /\ <<e.group, e.kind, e.role>> = <<rb.group, rb.kind, rb.role>>
            /\ n = BindingName(c, e.group, e.role)
            /\ rb.subjects # {}
            /\ ResolveMembers(v.spec.memberships, e.group, upstream[rb.group][j])
                 = Success(rb.subjects)

\* Every binding there is was asked for: its reference, role and subjects all
\* come from one version of the very object that owns it, and its subjects are
\* what one upstream answer made of that version's memberships.
Justified ==
    \A n \in Name :
        LET rb == rbs[n]
        IN  rb # Absent =>
              \E v \in Range(history[rb.owner.config]) :
                  /\ Present(v) /\ v.uid = rb.owner.uid
                  /\ Grants(rb.owner.config, v, n, rb)

\* The names this pass is done with.
Settled ==
    IF InPass
      THEN {NameOf(Entries[i]) : i \in {j \in DOMAIN outcome :
                                          outcome[j] \in {"unknown", "configured"}}}
      ELSE {}

Keeper == INSTANCE BindingKeeper WITH
    bindings <- rbs, edits <- spent["edit"], known <- seen,
    handled <- IF InPass THEN key ELSE NoConfig,
    version <- IF InPass THEN cfg ELSE NoVersion,
    settled <- Settled

\* Whatever the queue, the caches, the loop over the entries, the two calls of a
\* write and the cleanup's stale list do in between, handleConfig does what the
\* keeper may do: see BindingKeeper.
KeepsBindings == Keeper!Spec

-----------------------------------------------------------------------------
(* What comments of handleConfig say, and the code does not keep *)

\* "Since we key on config+group+role, the result will be the same": a binding
\* ignored as a duplicate asks for what an earlier one of that name asked for.
DuplicatesAgree ==
    \A j \in DOMAIN outcome :
        outcome[j] = "duplicate" => \E i \in 1..(j - 1) : Entries[i] = Entries[j]

\* "track active bindings still part of the config so we clean up stragglers":
\* what is cleaned up is not part of the config, except for bindings whose
\* group has no members.
CleansOnlyStragglers ==
    \A n \in todo, i \in DOMAIN outcome :
        NameOf(Entries[i]) = n => outcome[i] \in {"invalid", "noMembers"}

-----------------------------------------------------------------------------
(* Liveness *)

\* The entries of a live config's spec that claim the name n with an answer
\* other than "no members", in order.  The first decides.
ClaimIndices(c, n) ==
    LET es == Live(c).spec.bindings
    IN  {i \in DOMAIN es :
           /\ es[i].kind \in ValidKinds
           /\ n = BindingName(c, es[i].group, es[i].role)
           /\ LET a == upstream[es[i].group]
                  m == ResolveMembers(Live(c).spec.memberships, es[i].group, a[Len(a)])
              IN  m.err = "nil" \/ IsUnknownMemberships(m.err)}

AsClaimed(c, n) ==
    LET i == CHOOSE j \in ClaimIndices(c, n) : \A k \in ClaimIndices(c, n) : j <= k
        e == Live(c).spec.bindings[i]
        a == upstream[e.group]
        m == ResolveMembers(Live(c).spec.memberships, e.group, a[Len(a)])
    IN  m.err = "nil" =>
          rbs[n] = [owner |-> [config |-> c, uid |-> Live(c).uid],
                    group |-> e.group, kind |-> e.kind, role |-> e.role,
                    subjects |-> m.subjects]

\* The bindings are those the live configs and the upstream groups call for,
\* and no other.  A name whose lookup keeps failing is not constrained, and a
\* config whose name is no valid label value gets no binding, but keeps no other
\* config from getting its own.
InSync ==
    /\ \A c \in ValidLabel, n \in Name :
          Present(Live(c)) /\ ClaimIndices(c, n) # {} => AsClaimed(c, n)
    /\ \A n \in Name :
          rbs[n] # Absent =>
             /\ OwnerIsLive(rbs[n].owner)
             /\ ClaimIndices(rbs[n].owner.config, n) # {}

\* When edits, faults and restarts stop, the bindings converge to what the
\* configs ask for and stay there.
Converges == <>[]InSync
=============================================================================
