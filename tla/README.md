# A verification development for rbacsync

rbacsync is a Kubernetes controller. Users write `RBACSyncConfig` objects (in a
namespace) and `ClusterRBACSyncConfig` objects (cluster wide) that map *groups* to
*roles*; the controller resolves each group to its members, from the memberships spelled
out in the config and from an upstream directory (G Suite), and keeps one `RoleBinding`
or `ClusterRoleBinding` per entry up to date. This directory holds TLA+ models of that
program, configurations that check them with TLC, and theorems about them that TLAPS has
checked. Paths below are relative to the repository's root; `controller.go` is
`src/pkg/controller/controller.go`.

    tlc -config OneConfig.cfg MCController      # check a run (table below)
    tlapm ControllerProofs.tla                  # check the proofs of a module

## Inventory

| part | state | operations | interacts with |
|---|---|---|---|
| controller, namespaced half (`controller.go`) | the set `active` and the loop variables of a pass; everything else is in the caches and the queue | event handlers, `enqueue`, `pollRBACSyncConfigs`, `makeWorker`, `handleConfig`, `createOrUpdateRoleBinding`, `Run` | informers call its handlers; it calls the queue, the groupers, the API server |
| controller, cluster half (`controller.go`) | the same for `ClusterRoleBinding`s, with a queue of its own | `pollClusterRBACSyncConfigs`, `handleClusterConfig`, `createOrUpdateClusterRoleBinding` | as above; only `ClusterRole` is accepted; `Run` does not shut its queue down |
| work queue (client-go, used at lines 132-133, 173-174, 243-297) | delayed keys, dirty set, FIFO, keys being processed | `AddRateLimited`, `Get`, `Done`, `Forget`, `ShutDown` | handlers and pollers on one side, one worker on the other |
| groups (`src/pkg/groups`) | none: values | `GroupMap.Members`, `MergeInto`, `Merge`, `Normalize`, the sentinel errors | `resolveGroups` builds a `Merged` of the config's `GroupMap` and the upstream grouper |
| G Suite grouper (`src/pkg/groups/gsuite`) | none between calls | `Members`: pattern check, client, pages under a timeout, classification of the error | called by `Merged.Members`; calls the directory API |
| program (`src/cmd/rbacsync/main.go`) | the stop channel, the goroutines of the process | flags, wiring, signals, debug server | starts the informers and `Run`; exits when `Run` returns |
| API types (`src/pkg/apis`) | the objects users write | none | read by everything above |
| informer factories (`src/pkg/generated/informers`) | the table of informers, which ones were started | `InformerFor`, `Start` | `NewController` asks them for informers, `main` starts them |
| informers, listers, client set (`src/pkg/generated`, client-go) | caches that lag the API server | `List`, `Watch`, `Get`, events, resync every 30 s | between API server and controller |
| metrics (`src/pkg/metrics`, `prometheus.go`) | the registry and the values counted | registration when a queue is made, increments | a queue asks the provider for its metrics; the debug server exposes them |

What makes it hard. Handlers, delay timer, poller, worker and shutdown run in goroutines
of their own and meet only in the queue and the caches. A pass of `handleConfig` makes
many API calls; between two of them users edit, delete and re-create the config, the
garbage collector deletes bindings, upstream changes, the informer delivers newer
versions, and the process may end. The two caches (configs, bindings) are stale
independently of each other. A pass that fails is logged and not enqueued again, so that
only the poller repairs it. Deleting is by name. A name joins three names that may
contain the joining character. Nothing is persisted but the API server's objects: a
restart forgets the queue.

What makes the parts correct:

* *groups*: an upstream failure is never turned into a list, a list is never empty, the
  spelling of the memberships does not matter;
* *queue*: no request is lost, no key is handled twice at a time, nothing is added after
  shutdown;
* *controller*: every version that reaches the cache gets a pass; nothing is deleted
  that another object owns; a failed lookup changes nothing; every binding was asked for
  by its owner; the bindings converge;
* *both halves*: one hangs or stops without the other noticing;
* *informers*: what is stored is announced, however events are reordered, merged or
  repeated on the way; a resync alone causes no work;
* *program*: no worker runs on a cache that is not full, or on one nobody fills; a
  signal ends the process; the exit code is true; every metric a queue asks for is exposed.

`PROJECT.json` lists the hazards line by line with the properties aimed at each.

## Modules

| module | models | depends on |
|---|---|---|
| `Groups` | `src/pkg/groups` and `resolveGroups`, with sets for lists: pure operators | |
| `Subjects` | the same with lists: `Normalize`, `normalizeUniq`, `MergeInto` | `Groups` |
| `MCGroups` | memberships and upstream answers varied step by step | `Subjects` |
| `KeyedWork` | what the controller needs of its queue, and no more | |
| `WorkQueue` | `enqueue`, `makeWorker` and `ShutDown` over client-go's queue | instance of `KeyedWork` |
| `GsuiteGrouper` | `gsuite.Grouper.Members` against a directory that changes | `Groups` |
| `LaggingCache` | what the controller needs of an informer, and no more | |
| `ConfigFeed` | `ListFunc`, `WatchFunc`, the client's `List` and `Watch`, the store and the handlers | instance of `LaggingCache` |
| `BindingKeeper` | what users are promised of `handleConfig`, and no more | |
| `Controller` | the namespaced half, with the world around it | `Groups`, instances of `WorkQueue` and `BindingKeeper` |
| `ClusterController` | both halves in one process | `Controller`, and a second instance of it |
| `InformerFactory` | `sharedInformerFactory` | |
| `QueueMetrics` | `prometheus.go` and the vectors of `pkg/metrics` | |
| `Program` | `main`, `NewController`'s wiring, `Run`, signals: the goroutines of one process | two instances of `InformerFactory`, one of `QueueMetrics` |
| `MCController`, `MCClusterController` | names, specs and answers for TLC | `Controller`, `ClusterController` |
| `...Proofs` (eight) | theorems; those of `GroupsProofs` are about `MCGroups` | the modules they are named after |

A definition preceded by `(mistake)` is not part of a model: it is a plausible slip in
the code, and the check that a property can fail puts it in place of the definition
after it.

**Groups.** An answer of `Members` is `Success(S)` or `Failure(err)`. Every list is made
by `Normalize` or `normalizeUniq`, so a list is its set here; `Subjects` says why that
is enough. `GroupMapOf` is the map `resolveGroups` builds: a membership without subjects
leaves no key, because the inner loop appends nothing. `MergedMembers` is
`Merged.Members`: not-found is skipped, any other error ends the loop. The two causes a
wrapped error can have are all that matters of it (`errors.Cause`).

**Subjects.** `normalizeUniq` ranges over a Go map and sorts by name alone, with a
stable sort. A function that normalizes is therefore an operator whose value is the
*set* of lists it may return. A subject has a number for its name and a kind; a user and
a service account may have one name, and their order is then up to the map: two passes
over an unchanged config may write two orders, which costs an update and nothing else.

**WorkQueue.** `waiting` is the delaying queue behind `AddRateLimited`, then the dirty
set, the FIFO and the processing set of client-go. The queue is not part of the
repository; the calls the controller makes on it are, and the model has one action per
call. Delays are nondeterministic: a key may leave `waiting` at any time. `Forget` only
resets a delay, so it is not a step. After `ShutDown` the worker may still be handed what
is queued, or it may not: `main` returns once `Run` has, and nothing waits for the queue.
The fairness of the queue therefore ends with `ShutDown`.

**GsuiteGrouper.** One call after another of `Members` for one group. `pc` is `client`
while the client is made, `request` between two pages, `wait` with a request under way;
`reply` is the answer on its way, `expired` the state of `tctx`. `steady`, `ever` and
`absent` are history variables about the directory during the call. The directory
service is outside the repository; assumed are a fixed order of members, a page token
that names the last member of its page, 404 for a group that does not exist and for
nothing else, and that a request under an expired context ends (an answer that has
already arrived may still be used). The access token is fetched inside the HTTP client,
which is built on a context without the deadline (line 181); what that means for a token
endpoint that hangs is up to the oauth2 library and not modelled. `Canceled` is in the
switch, but `cancel` is only called after the return, so no run ever takes it.
`Controller` takes a lookup as one step with one answer; a list whose pages straddle an
edit may be one that the group never had as a whole. It lies between the steady members
and all members, which is what `ListIsComplete` says.

**Controller.** The correspondence of state and code:

| variable | in the program |
|---|---|
| `history[c]`, `upstream[g]`, `rbs[n]` | the API server's config objects, the directory, the API server's role bindings. The first two keep every value they ever had; the last one is the live one, and properties look at earlier ones. The program reads none of them. |
| `seen[c]`, `rbCache[n]` | the caches behind `rbacSyncConfigLister` and `roleBindingLister`: the version of a config, the owner of a binding that the informer has shown |
| `waiting` ... `shuttingDown` | `c.queue` |
| `pc`, `key`, `cfg`, `outcome`, `members`, `active`, `todo` | the worker: where `handleConfig` is, its argument, how many entries are done and how each ended, the resolved members, the set `active`, the children still to delete |
| `loaded[c]` | which version this process last handed to `handleConfig`: a history variable |
| `spent` | how much of each bound is used |

One action is one step between two points at which another goroutine, another process or
the API server can act: a cache read, a lookup with all that is decided on its answer,
one API call with what follows it up to the next call. An entry that is not written is
one action (`RejectKind`, `NoMembers`, `KeepUnknown`, `IgnoreDuplicate`), an entry that
is takes `Resolve` and then one of the outcomes of `Update`, which may be followed by
those of `Create`. A deleted config is a version without a spec; a config created again
has a larger `uid`. `Stop` is the signal and `Run`'s return with its deferred
`ShutDown`, `Exit` the end of the process, with or without it, `Start` the next one's
`WaitForCacheSync` and first events.

Abstractions of `Controller`, and why they are sound for the properties:

* One namespace. Configs of different namespaces share the queue (which orders keys
  whatever their namespace) and nothing else.
* Names are sequences of their hyphen-free segments, so that `config-group-role` is
  concatenation and a collision of names is visible. Kubernetes allows hyphens in all
  three.
* The lister's cache of bindings keeps the owner: the cleanup reads the name, the label
  `owner` and the controller reference, and all three follow from it.
* Caches only move forward, also over a restart: a process started again lists from an
  API server whose watch cache does not go back. Events between two versions may be
  skipped, as after a relist.
* An update of a missing binding creates it or is refused with NotFound; the comment at
  `controller.go:488-491` says why the code has both ways.
* A write that fails may have happened (the answer was lost). A call made by a process
  that has ended does not land later.
* `kubectl edit` of a binding the controller owns is not modelled; deleting it by hand
  is.

**BindingKeeper.** What a user may rely on, without queue, delay, second cache, order of
entries or API calls. The keeper knows some version of each config (`known`), works on
one version of one config at a time (`handled`, `version`), and does four things:
`Grant` a binding some entry asks for, over nothing or over one of the same config that
is no younger; `Settle` a name whose group it cannot look up; `Revoke` what the very
object at hand owns; `End`. A settled name is not touched again in the pass. Its
subjects are stated anew, as the union of what the memberships list and what upstream
answered, and not by `ResolveMembers`. `Controller` implements it under the map in
`Keeper`: the pass begins with `Load`, `settled` are the names with outcome "unknown" or
"configured", everything else of the worker, the queue and the lister's cache is
invisible. `edits` counts what people do and is mapped to the bound's counter, so that a
deletion by the cleanup cannot pass for one by hand. It promises no more than the code
keeps: a name whose write has failed is not settled and may be revoked.

**ClusterController.** `handleClusterConfig`, its poller, worker and handlers are the
namespaced code line by line, over other types and with `ClusterRole` as the only kind.
The module therefore is `Controller` and a second instance of it with variables of its
own, and one process around both: `ProcessStart` and `ProcessExit` happen to both
halves, the upstream grouper is one, and `shuttingDown` of the cluster half never
becomes true, because `Run` shuts down `c.queue` only. Each variable `clusterX` is to
the cluster half what `X` is to the namespaced one. The pollers end with `stopCh`, the
cluster worker does not.

**ConfigFeed.** Writes are numbered, and the numbers are the resource versions. The
reflector lists an answer of some version and watches from it; what it learns is queued
per object (`deltas`), stored (`seen`) and announced to the handlers (`notices`), which
run in a goroutine of their own and may find that the store has moved on. `Enqueues` is
the two handlers of `NewController`: add, and update unless the resource versions agree.
`Resync` queues what is stored once more. `owed` is the work queue, for which only
membership matters here. client-go is outside the repository. Assumed of it and of the
API server: a list is not older than what the reflector has seen, and not so old that it
could not be watched from.

**InformerFactory, Program.** The factory is a table from kinds to informers, and
informers of a kind are numbered as they are made, so that "the informer the lister
reads" and "the one that runs" can differ. `Program` is `main` as a program counter, the
calls of `NewController` one by one, the two goroutines that call `Start`, the debug
server, the signal handler and four goroutines of `Run`: two workers and two pollers
(polling is on, as by default). A worker may be in a call that never returns, so
`GoroutineEnds` has no fairness. `worker` is "done" when its function has returned.
Signals: before `setupSignalHandler` they kill the process; after it the channel holds
two and `Notify` drops the third; the first one read closes `stopCh`, the second exits
with 1. `exit` names the way out: `ok`, `fatal` (klog.Fatal), `second`, `signalled`.

**QueueMetrics.** A full name is the sequence of the words it is joined from, a help
text either common to all queues or a queue's own. `Accepts` is the condition under
which Prometheus registers a metric beside those already there. `MetricsOf` are the seven
metrics that the queue of client-go v0.23.3 (`src/go.mod`) asks a provider for. The seven
`NewDeprecated...Metric` methods of `prometheus.go` (lines 148-235) belong to an older
`MetricsProvider`; that version has no such methods, nothing calls them, and they are left
out.

## Runs

| run | instance | states | asks |
|---|---|---|---|
| `groups` | 2 groups, 3 subjects of two names, up to 3 memberships with 3 subjects in all | 96,309 | is resolution right for every input, and are sets the right picture of lists? |
| `work_queue` | 3 keys | 414 | `QueueInv`, refinement of `KeyedWork`, every request handled |
| `gsuite` | 3 members, pages of 1, 2 edits per call | 15,700 | complete lists, true "not found", every call returns |
| `config_feed` | 2 configs, 3 writes, 1 broken watch, 3 handler calls outstanding before a resync waits, fairness | 831,576 | is the informer the lagging cache the controller relies on? |
| `one_config` | 1 config, 2 groups, specs of two and three entries with a duplicate name through hyphens and an invalid kind, 3 edits, 1 fault | 412,832 | types, no lost update, custody, failed lookups, justification, refinement of `BindingKeeper` |
| `two_configs` | 2 configs, one not a valid label value, 1 group, entries that differ in the kind of role, immutable role references, 3 edits, 1 restart | 283,417 | no lost update, lineage, justification, refinement of `BindingKeeper` |
| `converges` | 2 configs, one not a valid label value, 1 group, specs that shrink and change kind, immutable role references, 2 edits, 1 fault, fairness | 38,963 | do the bindings of the valid config converge, whatever becomes of the other one? |
| `both_halves` | 1 config of each kind, 1 edit of each, 1 restart, fairness for the cluster half only | 30,214 | does the cluster half lose nothing, and converge though the other one hangs? |
| `program` | 3 signals, fairness | 2,849 | full caches, one informer per kind, metrics, exit codes, the end |
| `no_polling` | 1 config, 1 group, specs as in `converges`, 2 edits, polling off, no fault | | fails: see below |
| `duplicates` | entries for a Role and a ClusterRole of one name | | fails: see below |
| `failed_update` | one changed kind or one fault | | fails: see below |

The properties:

* `FailureDominates`, `NeverEmpty`, `OrderFree` (groups). The first is what keeps an
  outage of G Suite from shrinking bindings to the config's own list.
* `ListsAreSets`: whatever order the maps give, a resolved list has the members `Groups`
  says, each once and sorted by name. `MergeIntoIsMerge`: merging one `GroupMap` into
  another answers as asking both in turn, but that it finds a group without subjects.
* `QueueInv`: the FIFO lists exactly the dirty keys that are not being processed, each
  one once. `KeepsRequests`: the refinement. `RequestHandled`: a request that waits comes
  due, and a due one is taken up after it was made, although its key may just then be
  handled; only `ShutDown` may come before that.
* `ListIsComplete`: members of the group during the whole call are in the list,
  strangers are not. `NotFoundMeansAbsent`: no timeout, failure or late answer reads as
  not found. `Returns`: liveness with fairness for the timer and the caller, none for
  the service.
* `FeedIsLaggingCache`: lists, watches, relists, resyncs and late handlers implement a
  cache that never goes back and owes the worker a look at each version from the moment
  the store has it; the handler calls to come count as owed.
  `FeedCatchesUp`: the last write gets read. `ResyncsAreFree`: with equal resource
  versions the queue comes to rest although resyncs go on.
* `NoLostUpdate`: a version in the cache that the worker has not read is waiting, dirty
  or about to be read. It relates the informer, four places a key can be, and a version
  number that is read later than the key is enqueued.
* `Custody`: whatever is about to be deleted by name, if it exists, is owned by the
  object being handled, though it was chosen from a stale list. `Lineage` is the
  inductive reason: owners are never younger than the pass that works on their config,
  and the cache of bindings never shows a younger owner than the binding has. A new
  creation of a config can only be written for by a pass that has read it, and that is
  another pass.
* `UnknownLeavesAlone`: the pass in which the lookup of a group failed neither writes
  nor deletes that group's binding, whatever other entries have its name.
* `Justified`: owner, role, group and subjects of every binding come from one version of
  the owner, and the subjects from one upstream answer.
* `KeepsBindings`: the refinement of `BindingKeeper`. It puts the three before together,
  relates each write and delete to the version the pass began with, and adds that a pass
  changes its mind about no name. `one_config` has the failed lookups and lost answers
  for it, `two_configs` the second config and the restart.
* `Converges`: when edits, faults and restarts have stopped, every name of a config
  whose name is a valid label is eventually, and for good, what the first entry that
  claims it asks for, and there is no other binding. The API server refuses all writes
  for a config with another name; its passes fail, and must not keep the one worker from
  the others.
* `ClusterNoLostUpdate`: no exception for shutdown is needed, because
  nothing shuts the cluster queue down. `ClusterConverges`: with no fairness for the
  namespaced worker.
* `WorksOnFullCaches`: a worker runs only when the informers that the four listers read
  have synced, and these are the ones whose events are enqueued. `OneInformerPerKind` is
  the reason.
* `AllExposed`: after `NewController` every metric that the two queues ask for is
  registered.
* `ExitCodeIsTrue`: 0 only after serving and an orderly stop. `SignalEnds`: a signal
  ends the process even if all workers hang. `ComesToServe`: if the API server answers.

Bounds. Every violated property, and every mistake seeded in the mutants listed in
`PROJECT.json`, shows within two edits; three edits allow a config to be created,
deleted and created again, or edited twice behind a pass. One fault is enough for each
branch that follows a fault, and one restart cuts a pass at every point. `one_config`
and `converges` have the fault, `two_configs` and `both_halves` the restart, which keeps
each run to a few hundred thousand states; the theorems have no such bound, but of
liveness no run shows a fault and a restart together. Two groups are needed for a failed
lookup beside a good one, and two configs for a shared queue. In `both_halves` one write
to each half and one restart of the process suffice, because the run asks only what the
halves do to each other; the specs differ in a kind that one half refuses. In `groups`
one upstream answer at a time differs from "not found": no group's members depend on
another's. `config_feed` bounds writes and broken watches, not resyncs: `MaxNotices`
only holds the next resync back until handlers have caught up. Three signals are one
more than the channel holds. Deadlock is checked in all runs but three: in `no_polling`
the system stops when there is nothing to do, in `program` when the process has ended,
in `config_feed` when all configs are deleted and the writes used up.

Fairness (`Controller!Fairness`). Watches deliver (`Sync`, `RefreshBinding`), delay
timers and the poller fire, the worker goroutine runs and its calls return, the garbage
collector works, and the pod is restarted (`restartPolicy: Always` in
`deploy/20-deployment.yml`) and exits after its signal. All are weak. That calls return
is assumed of the API server and of the grouper: G Suite's `Members` has a timeout (see
`Returns`), but `main` configures none for the Kubernetes clients. Nothing is assumed of
users, and nothing of faults but that they are bounded. With polling off, `Poll` is
never enabled and its fairness is void. `ClusterFairness` is the same for the cluster
half and for the process, and has nothing for the namespaced half. `WorkQueue!Fairness`:
until `ShutDown` the delay timer fires and the worker comes back to `Get`.
`ConfigFeed!Fairness`: the reflector and the goroutines of the informer run, an expired
watch is noticed and the worker comes round; no fairness for resyncs or breaks.
`Program!Fairness`: `main`, the two starts and the signal handler run; none for workers,
pollers, signals or the debug server, and the informers' (`ApiFairness`) is a premise of
`ComesToServe` alone.

### What the failing runs show

* `no_polling`: a config is edited right after a binding was written for it. The next
  pass lists children from a cache that does not show that binding yet, so it is not
  cleaned up, and no event will enqueue the config again: the handlers watch configs
  only. The binding stays until the config changes. The poller, every five minutes by
  default, is what makes the cleanup reliable.
* `duplicates`: the name leaves the kind of the role out. A `Role` and a `ClusterRole`
  of the same name for one group are taken for a duplicate, and the second is dropped.
* `failed_update`: an entry whose write failed is not in `active`, so the cleanup
  deletes the binding it could not update. For an immutable `roleRef` this is how the
  change comes through at all: the next pass creates the binding. For a transient
  failure it takes access away until the next poll. A failed *lookup* is handled the
  opposite way.

## Proofs

The assumptions are those named in the modules (`ControllerAssumption`,
`ClusterAssumption`, `GsuiteAssumption`, `FeedAssumption`, `ProgramAssumption`: the
values of constants are of their types, the markers are not values; `BoundsAssumption`:
the bounds of `MCGroups` are numbers; `SubjectsAssumption`: a
subject's name is a number); `LineageKept`, `CustodyKept` and the two theorems
about the keeper also assume `DistinctNames`. There is no bound on configs, groups,
memberships, subjects, pages, edits, faults, restarts, writes, lists or signals. Every
invariant and every step property that a passing run checks has a theorem.

| theorem | states |
|---|---|
| `QueueInvariant` | `WorkQueue!Spec => []QueueInv` |
| `QueueKeepsRequests` | `WorkQueue!Spec => KeepsRequests` |
| `GrouperTypes`, `ListsAreComplete`, `NotFoundIsTrue` | `GsuiteGrouper!Spec` keeps `TypeOK`, `ListIsComplete`, `NotFoundMeansAbsent` |
| `TypeCorrect` | `Controller!Spec => []TypeOK` |
| `ControllerQueue` | the queue inside the controller keeps `QueueInv` |
| `NothingLost` | `Spec => []NoLostUpdate` |
| `LineageKept`, `CustodyKept` | `DistinctNames` implies `Spec => []Lineage` and `Spec => []Custody` |
| `FailedLookupIsHarmless` | `Spec => UnknownLeavesAlone` |
| `EveryBindingJustified` | `Spec => []Justified` |
| `ControllerKeepsBindings` | `DistinctNames` implies `Spec => KeepsBindings` |
| `ClusterNothingLost` | `BothSpec => []ClusterNoLostUpdate` |
| `ClusterCustodyKept`, `ClusterLookupsHarmless`, `ClusterBindingsJustified` | the cluster half keeps `Custody` (with `DistinctNames` of its names), `UnknownLeavesAlone` and `Justified` |
| `ClusterKeepsBindings` | `DistinctNames` of its names implies that the cluster half keeps `KeepsBindings` |
| `FailuresDominate`, `NoEmptyLists`, `SpellingIsFree` | `MCGroups!Spec` keeps `FailureDominates`, `NeverEmpty`, `OrderFree` |
| `ListsAgreeWithSets`, `MergeIntoAgrees` | `MCGroups!Spec` keeps `ListsAreSets`, `MergeIntoIsMerge` |
| `FeedRefines` | `ConfigFeed!Spec => FeedIsLaggingCache` |
| `OneInformer` | `InformerFactory!Spec => []OneInformerPerKind` |
| `Types`, `InformersOfProcess`, `FullCaches`, `ExitCodes` | `Program!Spec` keeps `TypeOK`, `OneInformerPerKind`, `WorksOnFullCaches`, `ExitCodeIsTrue` |
| `MetricsExposed` | `Program!Spec => []AllExposed` |

The argument. In `WorkQueueProofs` one lemma per call shows that it keeps `QueueInv`.
The crux is `Done`: it appends a key only if dirty, and a dirty key being processed is
not in the FIFO, so the list stays injective. The refinement maps `owed` to `waiting`
and `dirty` together; `AddReady` is a stutter.

`GsuiteGrouperProofs` keeps as invariant that nothing steady up to the cursor is missing
and that an answer under way continues from the cursor without a gap; `PageHasNoGap` is
the argument about a page as the first `PageSize` members left. A 404 under way implies
that the group was absent, which edits cannot undo.

`ControllerProofs` uses those lemmas for the queue inside the controller. The invariant
is `TypeOK`, `Q!QueueInv` and `WorkerHoldsKey`: the key the worker handles is the one
key being processed (between Get and Done), and none is when it is idle. The last is
needed because `TypeOK` alone does not let `EndPass` call `Done`. `NoLostUpdate` is
inductive with it: `Sync` enqueues what it makes stale, `AddReady` and `Done` move keys
inside `waiting` and `dirty`, `Dequeue` moves the key to the worker, and `Load` records
the version read in the very step that gives the key up. `LineageKept` is behind
`CustodyKept`: uids grow along a history, so a pass works on a uid no younger owner can
precede, and with distinct names only passes for `c` write the names of `c`.
`FailedLookupIsHarmless` proves that the names with outcome "unknown" are in `active`
and `active` is disjoint from `todo`; the worker writes only names that are not active
and deletes only those in `todo`.

`EveryBindingJustified` rests on `Provenance`: the config a pass works on was a version
of it (`FromVersion`), and what is about to be written was resolved from that version
and an answer of upstream (`Resolved`). Histories only grow, so that a justification
once given lasts; the only steps with something to prove are the two writes and the
failed write that happened after all.

`ControllerKeepsBindings` is where these meet. A write maps to `Grant`: `Provenance`
gives the version, the entry and the upstream answer (`DesiredIsAsked`; `ListIsAsked`
turns `ResolveMembers` into the keeper's union), `Lineage` with distinct names says that
what is written over belongs to the same config and is no younger (`NothingTakenOver`),
and the name is not settled because settled names are active (`SettledActive`, the one
new invariant) and the entry's name is not. A delete maps to `Revoke` by `Custody` and
because `todo` and `active` are disjoint, or to nothing when the binding is gone
already. `Load` is `Begin`, the ends of a pass and of the process are `End`, a failed
lookup is `Settle`, and everything else is a stutter.

The lemma `HalvesAreControllers` says that each half, looked at alone, is a
`Controller`: what one half does is a stutter of the other, and shared steps are steps
of both. `ClusterNothingLost` then takes `NothingLost` over to the cluster half. The
instance through which the theorem comes (`ClusterProved`) and the one the model has
(`Cluster`) are two names for the same formulas, which the prover sees only when they
are expanded: the lemmas named `Same...` do that action by action. Custody, failed
lookups, justification and the refinement of the keeper carry over in the same way.

In `GroupsProofs` the lemmas about `MergedMembers` go through the position of the first
fatal error, and `TogetherIsAll` says that the map knows of a group only the union of
its subjects, which is why spelling makes no difference. Lists are made by folds
(insertion sort, the map built entry by entry). The library's induction rules cannot be
used, but the argument behind them can: `AllNumbers` says that a set of numbers with 0
in it, and with k + 1 for each k, has all of them, because otherwise it would lack a
least one (`LeastOf`), and `PrefixCount` and `FoldDefined` apply that to the first k
elements of a fold. `Inserted` and `SortKeeps` say that sorting keeps the elements and
orders the names, `NormalizedIs` what a list that is normalized has, and `OwnLists` and
`GatheredAll` what the map holds; `MergedListsAre` puts them together.

`ConfigFeedProofs` keeps `FeedInv`: the deltas of a config are writes of it in their
order, none before what the store shows nor after what the reflector has come to. The
store therefore never goes back, each step maps to one of `LaggingCache` or to a
stutter, and `Store` announces in the step in which it stores.

`InformerFactoryProofs` keeps `TableInv`: at most one informer per kind was made, and it
was run once or not at all. `ProgramProofs` uses it for both factories through an
instance, keeps `StageInv` (which stage of `main` goes with which state of handler,
channel and workers) for the exit codes, and `WiringInv` (each call of `NewController`
done so far got informer 1 of its kind) for the caches. `MetricsExposed` keeps
`RegistryInv`: the registry holds the controller's vectors and all metrics of the queues
made so far, and nothing was refused. Two metrics of one queue differ in the second word
of their names, those of two queues in the label `name` (`QueueMetricIs`), and none
begins like a metric of the controller (`ControllerMetricIs`).

Only model-checked: liveness (`RequestHandled`, `Returns`, `Converges`,
`ClusterConverges`, `FeedCatchesUp`, `ResyncsAreFree`, `SignalEnds`, `ComesToServe`),
because the prover can neither use fairness nor `ENABLED`.

## Not modelled

* inside `Controller`, the pages of a lookup: each lookup succeeds, is not found, or
  fails in any of the three ways that leave the memberships unknown;
* credentials and token of the G Suite client;
* the events recorded for users and the numbers the metrics count: nothing in the
  program reads them;
* the values of flags, `dumpYAML`, and which kube configuration `resolveConfig` takes:
  read once, before anything runs; that setting up may fail is in `Program`;
* the factory's `WaitForCacheSync` and `ForResource` and the client's writes of configs:
  the program does not call them; the fake client set: for tests;
* the generated deep copies (`zz_generated.deepcopy.go`) and `GroupMap.DeepCopy`: values
  are not shared in TLA+, so that a copy is the value;
* `-version`, which prints the version and ends `main` before it sets anything up
  (`main.go:98-101`): `Program` is about a process that is to serve;
* the `NewDeprecated...Metric` methods of `prometheus.go`: nothing calls them;
* test helpers, build and version: no state;
* two replicas at once: the deployment asks for one.

Known limits. Two configs whose binding names collide are outside `DistinctNames`: the
cleanup deletes by name and without a precondition (`controller.go:460`), so that a pass
for one of them may delete what the other has just written, and the two passes overwrite
each other. Somebody else who writes bindings under the controller's names
(`controller.go:492`) and a token endpoint that hangs (`grouper.go:181`) are hazards
without a property: the first is another program, the second is decided in a library.

## Plan

Done: everything in the table of modules, in the order `Groups`, `KeyedWork` and
`WorkQueue`, `Controller`, `GsuiteGrouper`, `ClusterController`, `Subjects`,
`InformerFactory`, `QueueMetrics`, `Program`, `LaggingCache`, `ConfigFeed` and
`BindingKeeper`, with the proofs named above. Left:

1. An abstract specification of `GsuiteGrouper` (one answer about one moment between
   call and return), which paging over a directory that is edited implements only for
   lists that are not torn: what exactly `Controller` may take a lookup for.
2. What a collision of names leads to, as an instance of `two_configs` without
   `DistinctNames`.
3. Which numbers the two status metrics count in a pass.
