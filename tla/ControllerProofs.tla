-------------------------- MODULE ControllerProofs --------------------------
(***************************************************************************)
(* Theorems about Controller, for every value of its constants: types, the *)
(* queue inside it, no lost update, what the cleanup deletes, failed       *)
(* lookups, where bindings come from, and, from all of these together,     *)
(* that it implements BindingKeeper.                                       *)
(***************************************************************************)
EXTENDS Controller, TLAPS

QP == INSTANCE WorkQueueProofs WITH Key <- Config

-----------------------------------------------------------------------------
(* The work queue inside the controller *)

LEMMA QueueInvSame == Q!QueueInv <=> QP!QueueInv
BY DEF Q!QueueInv, QP!QueueInv, Q!TypeOK, QP!TypeOK, Q!QueueMatchesDirty,
       QP!QueueMatchesDirty, Q!OneProcessed, QP!OneProcessed,
       Q!Range, QP!Range, Q!IsInjective, QP!IsInjective

LEMMA QueueInvSameNext == Q!QueueInv' <=> QP!QueueInv'
BY DEF Q!QueueInv, QP!QueueInv, Q!TypeOK, QP!TypeOK, Q!QueueMatchesDirty,
       QP!QueueMatchesDirty, Q!OneProcessed, QP!OneProcessed,
       Q!Range, QP!Range, Q!IsInjective, QP!IsInjective

LEMMA QueueAdd ==
    ASSUME NEW K \in SUBSET Config, Q!QueueInv, Q!AddRateLimited(K)
    PROVE  Q!QueueInv'
<1>1. QP!AddRateLimited(K)
  BY DEF Q!AddRateLimited, QP!AddRateLimited
<1> QED
  BY <1>1, QP!AddRateLimitedKeeps, QueueInvSame, QueueInvSameNext

LEMMA QueueAddReady ==
    ASSUME NEW c \in Config, Q!QueueInv, Q!AddReady(c)
    PROVE  Q!QueueInv'
<1>1. QP!AddReady(c)
  BY DEF Q!AddReady, QP!AddReady
<1> QED
  BY <1>1, QP!AddReadyKeeps, QueueInvSame, QueueInvSameNext

LEMMA QueueGet ==
    ASSUME NEW c \in Config, Q!QueueInv, Q!Get(c)
    PROVE  Q!QueueInv'
<1>1. QP!Get(c)
  BY DEF Q!Get, QP!Get
<1> QED
  BY <1>1, QP!GetKeeps, QueueInvSame, QueueInvSameNext

LEMMA QueueDone ==
    ASSUME NEW c \in Config, Q!QueueInv, Q!Done(c)
    PROVE  Q!QueueInv'
<1>1. QP!Done(c)
  BY DEF Q!Done, QP!Done
<1> QED
  BY <1>1, QP!DoneKeeps, QueueInvSame, QueueInvSameNext

LEMMA QueueShutDown ==
    ASSUME Q!QueueInv, Q!ShutDown
    PROVE  Q!QueueInv'
<1>1. QP!ShutDown
  BY DEF Q!ShutDown, QP!ShutDown
<1> QED
  BY <1>1, QP!ShutDownKeeps, QueueInvSame, QueueInvSameNext

LEMMA QueueInit ==
    ASSUME Q!Init
    PROVE  Q!QueueInv
<1>1. QP!Init
  BY DEF Q!Init, QP!Init
<1> QED
  BY <1>1, QP!InitEstablishes, QueueInvSame

LEMMA QueueReset ==
    ASSUME waiting' = {}, queue' = <<>>, dirty' = {}, processing' = {},
           shuttingDown' = FALSE
    PROVE  Q!QueueInv'
<1>1. Q!IsInjective(queue') /\ Q!Range(queue') = {} /\ queue' \in Seq(Config)
  BY DEF Q!IsInjective, Q!Range
<1> QED
  BY <1>1 DEF Q!QueueInv, Q!TypeOK, Q!QueueMatchesDirty, Q!OneProcessed

LEMMA QueueStutter ==
    ASSUME Q!QueueInv, UNCHANGED queueVars
    PROVE  Q!QueueInv'
BY DEF queueVars, Q!QueueInv, Q!TypeOK, Q!QueueMatchesDirty, Q!OneProcessed

-----------------------------------------------------------------------------
(* Types *)

\* The key being processed is the one the worker holds.
WorkerHoldsKey == processing = IF pc = "idle" THEN {} ELSE {key}

IInv == TypeOK /\ Q!QueueInv /\ WorkerHoldsKey

USE DEF worldVars, viewVars, queueVars, workerVars

LEMMA NameType ==
    ASSUME NEW c \in Config, NEW g \in Group, NEW r \in Role
    PROVE  BindingName(c, g, r) \in Name
BY DEF Name

LEMMA EntryType ==
    ASSUME WorkerTypes, pc \in {"bindings", "update", "create"}, HasEntry
    PROVE  /\ Entry \in BindingEntry
           /\ NameOf(Entry) \in Name
           /\ key \in Config
           /\ Len(outcome) \in Nat
           /\ Len(outcome) + 1 \in DOMAIN Entries
<1>1. key \in Config /\ cfg \in Version /\ Present(cfg) /\ outcome \in Seq(Outcomes)
  BY DEF WorkerTypes
<1>2. cfg.spec \in Specs
  BY <1>1 DEF Version, Present
<1>3. Entries \in Seq(BindingEntry)
  BY <1>2, ControllerAssumption DEF Entries
<1>4. Len(outcome) \in Nat /\ Len(outcome) + 1 \in 1..Len(Entries)
  BY <1>1, <1>3 DEF HasEntry
<1>5. Entry \in BindingEntry
  BY <1>3, <1>4 DEF Entry
<1> QED
  BY <1>1, <1>3, <1>4, <1>5, NameType DEF NameOf, BindingEntry

LEMMA SpendType ==
    ASSUME SpentTypes,
           \/ Spend("edit", MaxEdits) \/ Spend("fault", MaxFaults)
           \/ Spend("crash", MaxCrashes)
    PROVE  SpentTypes'
BY ControllerAssumption DEF SpentTypes, Spend

LEMMA SpendNothing == ASSUME SpentTypes, UNCHANGED spent PROVE SpentTypes'
BY DEF SpentTypes

LEMMA SameWorld ==
    ASSUME WorldTypes, UNCHANGED <<worldVars, rbs>>
    PROVE  WorldTypes'
BY DEF WorldTypes

LEMMA SameViews ==
    ASSUME ViewTypes, UNCHANGED <<history, viewVars, loaded>>
    PROVE  ViewTypes'
BY DEF ViewTypes

LEMMA SameWorker ==
    ASSUME WorkerTypes, UNCHANGED <<running, workerVars>>, UNCHANGED shuttingDown \/ ~shuttingDown'
    PROVE  WorkerTypes'
BY DEF WorkerTypes

LEMMA LiveType ==
    ASSUME TypeOK, NEW c \in Config
    PROVE  /\ Len(history[c]) \in Nat \ {0}
           /\ Live(c) \in Version
           /\ Cached(c) \in Version
           /\ seen[c] \in 1..Len(history[c])
<1>1. /\ history[c] \in Seq(Version) /\ seen[c] \in Nat \ {0} /\ seen[c] <= Len(history[c])
  BY DEF TypeOK, WorldTypes, ViewTypes
<1> QED
  BY <1>1 DEF Live, Cached

LEMMA InitTypes == Init => IInv
<1> SUFFICES ASSUME Init PROVE IInv
  OBVIOUS
<1>1. Q!QueueInv
  BY QueueInit DEF Init
<1>2. WorkerHoldsKey
  BY DEF Init, WorkerHoldsKey, Q!Init
<1>3. /\ history \in [Config -> Seq(Version)]
      /\ \A c \in Config : Len(history[c]) = 1
  <2>1. [uid |-> 0, spec |-> NoSpec] \in Version
    BY DEF Version
  <2> QED
    BY <2>1 DEF Init
<1>4. /\ upstream \in [Group -> Seq(Answer)]
      /\ \A g \in Group : upstream[g] # <<>>
  <2>1. ASSUME NEW a \in UpstreamAnswers PROVE <<a>> \in Seq(Answer) /\ <<a>> # <<>>
    <3>1. a \in Answer
      BY ControllerAssumption
    <3>2. <<a>> \in Seq(Answer) /\ Len(<<a>>) = 1 /\ Len(<<>>) = 0
      BY <3>1
    <3> QED
      BY <3>2
  <2> QED
    BY <2>1 DEF Init
<1>5. /\ seen \in [Config -> Nat \ {0}] /\ loaded \in [Config -> Nat \ {0}]
      /\ \A c \in Config : seen[c] <= Len(history[c]) /\ loaded[c] <= seen[c]
  BY <1>3 DEF Init
<1>6. /\ outcome \in Seq(Outcomes) /\ shuttingDown = FALSE
      /\ spent \in [{"edit", "fault", "crash"} -> Nat]
      /\ spent["edit"] <= MaxEdits /\ spent["fault"] <= MaxFaults
      /\ spent["crash"] <= MaxCrashes
  BY ControllerAssumption DEF Init, Q!Init
<1>7. TypeOK
  BY <1>3, <1>4, <1>5, <1>6
  DEF Init, TypeOK, WorldTypes, ViewTypes, WorkerTypes, SpentTypes
<1> QED
  BY <1>1, <1>2, <1>7 DEF IInv

\* Users, the upstream directory, the cluster.
LEMMA EditTypes ==
    ASSUME TypeOK, NEW c \in Config, NEW v \in Version, Edit(c, v)
    PROVE  TypeOK'
<1>1. /\ history' \in [Config -> Seq(Version)]
      /\ \A d \in Config : history'[d] = history[d] \/ history'[d] = Append(history[d], v)
  BY DEF Edit, TypeOK, WorldTypes
<1>2. \A d \in Config : seen[d] <= Len(history'[d])
  <2>1. ASSUME NEW d \in Config PROVE Len(history[d]) \in Nat /\ Len(history'[d]) >= Len(history[d])
    BY <1>1 DEF TypeOK, WorldTypes
  <2> QED
    BY <2>1, <1>1 DEF TypeOK, ViewTypes
<1>3. WorldTypes' /\ ViewTypes'
  BY <1>1, <1>2 DEF Edit, TypeOK, WorldTypes, ViewTypes
<1>4. WorkerTypes' /\ SpentTypes'
  BY SameWorker, SpendType DEF Edit, TypeOK
<1> QED
  BY <1>3, <1>4 DEF TypeOK

LEMMA RemoveTypes ==
    ASSUME TypeOK, NEW n \in Name, RemoveBinding(n)
    PROVE  WorldTypes' /\ ViewTypes' /\ WorkerTypes'
BY SameViews, SameWorker DEF RemoveBinding, TypeOK, WorldTypes

LEMMA UsersTypes == ASSUME TypeOK, Users PROVE TypeOK'
<1>1. ASSUME NEW c \in Config, NEW s \in Specs, CreateConfig(c, s) PROVE TypeOK'
  <2>1. [uid |-> Live(c).uid + 1, spec |-> s] \in Version
    BY LiveType DEF Version
  <2> QED
    BY <1>1, <2>1, EditTypes DEF CreateConfig
<1>2. ASSUME NEW c \in Config, NEW s \in Specs, UpdateConfig(c, s) PROVE TypeOK'
  <2>1. [uid |-> Live(c).uid, spec |-> s] \in Version
    BY LiveType DEF Version
  <2> QED
    BY <1>2, <2>1, EditTypes DEF UpdateConfig
<1>3. ASSUME NEW c \in Config, DeleteConfig(c) PROVE TypeOK'
  <2>1. [uid |-> Live(c).uid, spec |-> NoSpec] \in Version
    BY LiveType DEF Version
  <2> QED
    BY <1>3, <2>1, EditTypes DEF DeleteConfig
<1>4. ASSUME NEW g \in Group, NEW a \in UpstreamAnswers, EditUpstream(g, a) PROVE TypeOK'
  <2>1. a \in Answer
    BY ControllerAssumption
  <2>2. WorldTypes'
    <3>1. /\ upstream' \in [Group -> Seq(Answer)]
          /\ \A d \in Group : upstream'[d] = upstream[d] \/ upstream'[d] = Append(upstream[d], a)
      BY <1>4, <2>1 DEF EditUpstream, TypeOK, WorldTypes
    <3>2. ASSUME NEW d \in Group PROVE upstream'[d] # <<>>
      <4>1. upstream[d] \in Seq(Answer) /\ upstream[d] # <<>>
        BY DEF TypeOK, WorldTypes
      <4>2. Append(upstream[d], a) # <<>>
        BY <4>1, <2>1
      <4> QED
        BY <3>1, <4>1, <4>2
    <3> QED
      BY <1>4, <3>1, <3>2 DEF EditUpstream, TypeOK, WorldTypes
  <2> QED
    BY <1>4, <2>2, SameViews, SameWorker, SpendType DEF EditUpstream, TypeOK
<1>5. ASSUME NEW n \in Name, DeleteBindingByHand(n) PROVE TypeOK'
  BY <1>5, RemoveTypes, SpendType DEF DeleteBindingByHand, TypeOK
<1> QED
  BY <1>1, <1>2, <1>3, <1>4, <1>5 DEF Users

\* Garbage collector, informers, timers and poller.
LEMMA AroundTypes ==
    ASSUME TypeOK,
           \/ \E n \in Name : GarbageCollect(n) \/ RefreshBinding(n)
           \/ \E c \in Config : Sync(c) \/ AddReady(c)
           \/ Poll
    PROVE  TypeOK'
<1>1. ASSUME NEW n \in Name, GarbageCollect(n) PROVE TypeOK'
  BY <1>1, RemoveTypes, SpendNothing DEF GarbageCollect, TypeOK
<1>2. ASSUME NEW n \in Name, RefreshBinding(n) PROVE TypeOK'
  <2>1. rbs[n] # Absent => rbs[n].owner \in Owner
    BY DEF TypeOK, WorldTypes, Binding
  <2>2. ViewTypes'
    BY <1>2, <2>1 DEF RefreshBinding, TypeOK, ViewTypes
  <2> QED
    BY <1>2, <2>2, SameWorld, SameWorker, SpendNothing DEF RefreshBinding, TypeOK
<1>3. ASSUME NEW c \in Config, Sync(c) PROVE TypeOK'
  <2>1. PICK i \in (seen[c] + 1)..Len(history[c]) : seen' = [seen EXCEPT ![c] = i]
    BY <1>3 DEF Sync
  <2>2. i \in Nat \ {0} /\ i > seen[c] /\ i <= Len(history[c])
    BY <2>1, LiveType
  <2>3. UNCHANGED <<worldVars, rbs, rbCache, running, workerVars, loaded, spent, shuttingDown>>
    BY <1>3 DEF Sync, Q!AddRateLimited
  <2>4. ViewTypes'
    BY <2>1, <2>2, <2>3 DEF TypeOK, ViewTypes
  <2> QED
    BY <2>3, <2>4, SameWorld, SameWorker, SpendNothing DEF TypeOK
<1>4. ASSUME NEW c \in Config, AddReady(c) PROVE TypeOK'
  BY <1>4, SameWorld, SameViews, SameWorker, SpendNothing DEF AddReady, Q!AddReady, TypeOK
<1>5. CASE Poll
  BY <1>5, SameWorld, SameViews, SameWorker, SpendNothing DEF Poll, Q!AddRateLimited, TypeOK
<1> QED
  BY <1>1, <1>2, <1>3, <1>4, <1>5

LEMMA IdleTypes ==
    ASSUME IdleWorker, running' \in BOOLEAN, shuttingDown' => running'
    PROVE  WorkerTypes'
BY DEF IdleWorker, WorkerTypes

LEMMA ProcessTypes ==
    ASSUME TypeOK, Stop \/ Exit \/ Start
    PROVE  TypeOK'
<1>1. CASE Stop
  <2>1. running /\ UNCHANGED <<running, workerVars>>
    BY <1>1 DEF Stop
  <2>2. WorkerTypes'
    BY <2>1 DEF TypeOK, WorkerTypes
  <2> QED
    BY <1>1, <2>2, SameWorld, SameViews, SpendType DEF Stop, TypeOK
<1>2. CASE Exit
  <2>1. ViewTypes'
    BY <1>2 DEF Exit, TypeOK, ViewTypes
  <2>2. WorkerTypes'
    BY <1>2, IdleTypes DEF Exit
  <2>3. SpentTypes'
    BY <1>2, SpendType, SpendNothing DEF Exit, TypeOK
  <2> QED
    BY <1>2, <2>1, <2>2, <2>3, SameWorld DEF Exit, TypeOK
<1>3. CASE Start
  <2>1. WorkerTypes'
    BY <1>3 DEF Start, Q!AddRateLimited, TypeOK, WorkerTypes
  <2> QED
    BY <1>3, <2>1, SameWorld, SameViews, SpendNothing DEF Start, TypeOK
<1> QED
  BY <1>1, <1>2, <1>3

\* An iteration of the loop ends: the outcome is recorded.
LEMMA RecordTypes ==
    ASSUME WorkerTypes, pc \in {"bindings", "update", "create"}, HasEntry,
           NEW o \in Outcomes, Record(o), pc' = "bindings",
           UNCHANGED <<running, shuttingDown, key, cfg, todo>>,
           members' \in SUBSET Subject, active' \in SUBSET Name
    PROVE  WorkerTypes'
<1>1. Len(outcome') = Len(outcome) + 1 /\ outcome' \in Seq(Outcomes) /\ Len(outcome) \in Nat
  BY DEF Record, WorkerTypes
<1>2. Len(outcome') <= Len(cfg.spec.bindings)
  BY <1>1, EntryType DEF HasEntry, Entries
<1> QED
  BY <1>1, <1>2 DEF WorkerTypes

LEMMA SkipTypes ==
    ASSUME TypeOK, AtEntry, NEW o \in Outcomes, Skip(o), active' \in SUBSET Name
    PROVE  WorldTypes' /\ ViewTypes' /\ WorkerTypes'
<1>1. WorkerTypes'
  BY RecordTypes DEF TypeOK, WorkerTypes, AtEntry, Skip
<1> QED
  BY <1>1, SameWorld, SameViews DEF Skip, TypeOK

LEMMA WroteTypes ==
    ASSUME TypeOK, pc \in {"update", "create"}, NEW o \in Outcomes, Wrote(o)
    PROVE  ViewTypes' /\ WorkerTypes'
<1>1. HasEntry
  BY DEF TypeOK, WorkerTypes, HasEntry, Entries
<1>2. active' \in SUBSET Name
  BY <1>1, EntryType DEF TypeOK, WorkerTypes, Wrote
<1>3. WorkerTypes'
  BY <1>1, <1>2, RecordTypes DEF TypeOK, Wrote
<1> QED
  BY <1>3, SameViews DEF Wrote, TypeOK

LEMMA WrittenTypes ==
    ASSUME TypeOK, pc \in {"update", "create"}, Written, UNCHANGED worldVars
    PROVE  WorldTypes'
<1>1. HasEntry
  BY DEF TypeOK, WorkerTypes, HasEntry, Entries
<1>2. Desired \in Binding
  <2>1. Entry \in BindingEntry /\ cfg \in Version /\ key \in Config /\ members \in SUBSET Subject
    BY <1>1, EntryType DEF TypeOK, WorkerTypes
  <2> QED
    BY <2>1 DEF Desired, Self, Binding, Owner, BindingEntry, Version
<1> QED
  BY <1>2 DEF Written, TypeOK, WorldTypes

LEMMA LookupSpends ==
    ASSUME TypeOK, NEW m, Lookup(m)
    PROVE  SpentTypes' /\ AtEntry
BY SpendType, SpendNothing DEF Lookup, TypeOK

LEMMA EndPassTypes ==
    ASSUME TypeOK, EndPass, UNCHANGED <<loaded, spent>>
    PROVE  TypeOK'
BY IdleTypes, SameWorld, SameViews, SpendNothing
DEF EndPass, Q!Done, TypeOK, WorkerTypes

\* The worker, up to its lookups.
LEMMA ReadingTypes ==
    ASSUME TypeOK,
           \/ Dequeue \/ Load \/ LoadMissing
           \/ RejectKind \/ NoMembers \/ KeepUnknown \/ IgnoreDuplicate \/ Resolve
    PROVE  TypeOK'
<1>1. CASE Dequeue
  <2>1. WorkerTypes'
    BY <1>1 DEF Dequeue, Q!Get, TypeOK, WorkerTypes
  <2> QED
    BY <1>1, <2>1, SameWorld, SameViews, SpendNothing DEF Dequeue, TypeOK
<1>2. CASE Load
  <2>1. key \in Config /\ running /\ outcome = <<>>
    BY <1>2 DEF Load, TypeOK, WorkerTypes
  <2>2. cfg' \in Version /\ Present(cfg')
    BY <1>2, <2>1, LiveType DEF Load
  <2>3. cfg'.spec.bindings \in Seq(BindingEntry)
    BY <2>2, ControllerAssumption DEF Version, Present
  <2>4. WorkerTypes'
    BY <1>2, <2>1, <2>2, <2>3 DEF Load, TypeOK, WorkerTypes
  <2>5. ViewTypes'
    BY <1>2, <2>1 DEF Load, TypeOK, ViewTypes
  <2> QED
    BY <1>2, <2>4, <2>5, SameWorld, SpendNothing DEF Load, TypeOK
<1>3. CASE LoadMissing
  BY <1>3, EndPassTypes DEF LoadMissing
<1>4. CASE RejectKind
  BY <1>4, SkipTypes, SpendNothing DEF RejectKind, TypeOK, WorkerTypes, Outcomes
<1>5. CASE NoMembers
  <2>1. SpentTypes' /\ AtEntry
    BY <1>5, LookupSpends DEF NoMembers
  <2> QED
    BY <1>5, <2>1, SkipTypes DEF NoMembers, TypeOK, WorkerTypes, Outcomes
<1>6. CASE KeepUnknown
  <2>1. SpentTypes' /\ AtEntry
    BY <1>6, LookupSpends DEF KeepUnknown
  <2>2. active' \in SUBSET Name
    BY <1>6, <2>1, EntryType DEF KeepUnknown, AtEntry, TypeOK, WorkerTypes
  <2> QED
    BY <1>6, <2>1, <2>2, SkipTypes DEF KeepUnknown, TypeOK, Outcomes
<1>7. CASE IgnoreDuplicate
  <2>1. SpentTypes' /\ AtEntry
    BY <1>7, LookupSpends DEF IgnoreDuplicate
  <2> QED
    BY <1>7, <2>1, SkipTypes DEF IgnoreDuplicate, TypeOK, WorkerTypes, Outcomes
<1>8. CASE Resolve
  <2>1. SpentTypes' /\ AtEntry
    BY <1>8, LookupSpends DEF Resolve
  <2>2. members' \in SUBSET Subject
    BY <1>8 DEF Resolve, Answer, Success, Failure
  <2>3. Len(outcome) < Len(cfg.spec.bindings)
    BY <2>1 DEF AtEntry, HasEntry, Entries
  <2>4. WorkerTypes'
    BY <1>8, <2>1, <2>2, <2>3 DEF Resolve, AtEntry, TypeOK, WorkerTypes
  <2> QED
    BY <1>8, <2>1, <2>4, SameWorld, SameViews DEF Resolve, TypeOK
<1> QED
  BY <1>1, <1>2, <1>3, <1>4, <1>5, <1>6, <1>7, <1>8

\* The worker's calls to the API server, and the end of a pass.
LEMMA WritingTypes ==
    ASSUME TypeOK,
           \/ UpdateOk \/ UpdateNotFound \/ UpdateRefused
           \/ CreateOk \/ CreateRefused \/ WriteFails
           \/ ListChildren \/ SelectorError
           \/ \E n \in Name : DeleteChild(n) \/ DeleteFails(n)
           \/ Finish
    PROVE  TypeOK'
<1> USE DEF Outcomes
<1>1. CASE UpdateOk \/ CreateOk
  <2>1. pc \in {"update", "create"} /\ Written /\ Wrote("configured") /\ UNCHANGED spent
    BY <1>1 DEF UpdateOk, CreateOk
  <2>2. WorldTypes'
    BY <2>1, WrittenTypes DEF Wrote
  <2> QED
    BY <2>1, <2>2, WroteTypes, SpendNothing DEF TypeOK
<1>2. CASE UpdateRefused \/ CreateRefused
  <2>1. pc \in {"update", "create"} /\ Wrote("failed") /\ UNCHANGED <<rbs, spent>>
    BY <1>2 DEF UpdateRefused, CreateRefused
  <2> QED
    BY <2>1, WroteTypes, SameWorld, SpendNothing DEF TypeOK, Wrote
<1>3. CASE WriteFails
  <2>1. pc \in {"update", "create"} /\ Wrote("failed") /\ Spend("fault", MaxFaults)
        /\ (UNCHANGED rbs \/ Written)
    BY <1>3 DEF WriteFails
  <2>2. WorldTypes'
    BY <2>1, WrittenTypes, SameWorld DEF Wrote, TypeOK
  <2> QED
    BY <2>1, <2>2, WroteTypes, SpendType DEF TypeOK
<1>4. CASE UpdateNotFound
  <2>1. WorkerTypes'
    BY <1>4 DEF UpdateNotFound, TypeOK, WorkerTypes
  <2> QED
    BY <1>4, <2>1, SameWorld, SameViews, SpendNothing DEF UpdateNotFound, TypeOK
<1>5. CASE ListChildren
  <2>1. WorkerTypes'
    BY <1>5 DEF ListChildren, TypeOK, WorkerTypes
  <2> QED
    BY <1>5, <2>1, SameWorld, SameViews, SpendNothing DEF ListChildren, TypeOK
<1>6. CASE SelectorError \/ Finish
  BY <1>6, EndPassTypes DEF SelectorError, Finish
<1>7. ASSUME NEW n \in Name, DeleteChild(n) \/ DeleteFails(n) PROVE TypeOK'
  <2>1. WorldTypes'
    BY <1>7 DEF DeleteChild, DeleteFails, TypeOK, WorldTypes
  <2>2. WorkerTypes'
    BY <1>7 DEF DeleteChild, DeleteFails, TypeOK, WorkerTypes
  <2>3. SpentTypes'
    BY <1>7, SpendType, SpendNothing DEF DeleteChild, DeleteFails, TypeOK
  <2> QED
    BY <1>7, <2>1, <2>2, <2>3, SameViews DEF DeleteChild, DeleteFails, TypeOK
<1> QED
  BY <1>1, <1>2, <1>3, <1>4, <1>5, <1>6, <1>7

LEMMA StutterTypes == ASSUME TypeOK, UNCHANGED vars PROVE TypeOK'
BY SameWorld, SameViews, SameWorker, SpendNothing DEF vars, TypeOK

LEMMA NextTypes == ASSUME TypeOK, [Next]_vars PROVE TypeOK'
BY UsersTypes, AroundTypes, ProcessTypes, ReadingTypes, WritingTypes, StutterTypes
DEF Next, Worker

-----------------------------------------------------------------------------
(* The queue's invariant, whichever action uses the queue *)

LEMMA WorkerQuiet ==
    ASSUME \/ Load \/ RejectKind \/ NoMembers \/ KeepUnknown \/ IgnoreDuplicate
           \/ Resolve \/ UpdateOk \/ UpdateNotFound \/ UpdateRefused
           \/ CreateOk \/ CreateRefused \/ WriteFails \/ ListChildren
           \/ \E n \in Name : DeleteChild(n) \/ DeleteFails(n)
    PROVE  /\ UNCHANGED <<queueVars, running, worldVars, viewVars, key>>
           /\ pc \notin {"idle"} /\ pc' \notin {"idle", "load"}
           /\ pc = "load" => Load
           /\ ~Load => UNCHANGED <<loaded, cfg>>
<1>1. CASE Load
  BY <1>1 DEF Load
<1>2. CASE RejectKind \/ NoMembers \/ KeepUnknown \/ IgnoreDuplicate \/ Resolve
  BY <1>2 DEF RejectKind, NoMembers, KeepUnknown, IgnoreDuplicate, Resolve, Skip,
              Lookup, AtEntry
<1>3. CASE UpdateOk \/ UpdateNotFound \/ UpdateRefused \/ CreateOk \/ CreateRefused \/ WriteFails
  BY <1>3 DEF UpdateOk, UpdateNotFound, UpdateRefused, CreateOk, CreateRefused, WriteFails, Wrote
<1>4. CASE ListChildren
  BY <1>4 DEF ListChildren
<1>5. CASE \E n \in Name : DeleteChild(n) \/ DeleteFails(n)
  BY <1>5 DEF DeleteChild, DeleteFails
<1> QED
  BY <1>1, <1>2, <1>3, <1>4, <1>5

LEMMA UsersQuiet ==
    ASSUME \/ Users
           \/ \E n \in Name : GarbageCollect(n) \/ RefreshBinding(n)
           \/ UNCHANGED vars
    PROVE  UNCHANGED <<queueVars, workerVars, running, loaded, seen>>
BY DEF Users, CreateConfig, UpdateConfig, DeleteConfig, Edit, EditUpstream,
       DeleteBindingByHand, RemoveBinding, GarbageCollect, RefreshBinding, vars

LEMMA NextQueue ==
    ASSUME IInv, [Next]_vars
    PROVE  Q!QueueInv' /\ WorkerHoldsKey'
<1> USE DEF IInv
<1>1. CASE \/ Users
           \/ \E n \in Name : GarbageCollect(n) \/ RefreshBinding(n)
           \/ UNCHANGED vars
  BY <1>1, UsersQuiet, QueueStutter DEF WorkerHoldsKey
<1>2. ASSUME NEW c \in Config, Sync(c) PROVE Q!QueueInv' /\ WorkerHoldsKey'
  <2>1. Q!AddRateLimited({c}) \/ UNCHANGED queueVars
    BY <1>2 DEF Sync
  <2>2. UNCHANGED <<processing, pc, key>>
    BY <1>2, <2>1 DEF Sync, Q!AddRateLimited
  <2> QED
    BY <2>1, <2>2, QueueAdd, QueueStutter DEF WorkerHoldsKey
<1>3. ASSUME NEW c \in Config, AddReady(c) PROVE Q!QueueInv' /\ WorkerHoldsKey'
  BY <1>3, QueueAddReady DEF AddReady, Q!AddReady, WorkerHoldsKey
<1>4. CASE Poll \/ Start
  <2>1. Q!AddRateLimited(CachedConfigs) /\ CachedConfigs \in SUBSET Config
    BY <1>4 DEF Poll, Start, CachedConfigs
  <2> QED
    BY <1>4, <2>1, QueueAdd DEF Poll, Start, Q!AddRateLimited, WorkerHoldsKey
<1>5. CASE Stop
  BY <1>5, QueueShutDown DEF Stop, Q!ShutDown, WorkerHoldsKey
<1>6. CASE Exit
  BY <1>6, QueueReset DEF Exit, IdleWorker, WorkerHoldsKey
<1>7. CASE Dequeue
  <2>1. PICK c \in Config : Q!Get(c) /\ key' = c
    BY <1>7 DEF Dequeue
  <2> QED
    BY <1>7, <2>1, QueueGet DEF Dequeue, Q!Get, WorkerHoldsKey
<1>8. CASE LoadMissing \/ SelectorError \/ Finish
  <2>1. EndPass /\ pc # "idle"
    BY <1>8 DEF LoadMissing, SelectorError, Finish
  <2>2. key \in Config
    BY <2>1 DEF TypeOK, WorkerTypes
  <2>3. Q!Done(key)
    BY <2>1 DEF EndPass
  <2> QED
    BY <2>1, <2>2, <2>3, QueueDone DEF EndPass, IdleWorker, Q!Done, WorkerHoldsKey
<1>9. CASE \/ Load \/ RejectKind \/ NoMembers \/ KeepUnknown \/ IgnoreDuplicate
           \/ Resolve \/ UpdateOk \/ UpdateNotFound \/ UpdateRefused
           \/ CreateOk \/ CreateRefused \/ WriteFails \/ ListChildren
           \/ \E n \in Name : DeleteChild(n) \/ DeleteFails(n)
  BY <1>9, WorkerQuiet, QueueStutter DEF WorkerHoldsKey
<1> QED
  BY <1>1, <1>2, <1>3, <1>4, <1>5, <1>6, <1>7, <1>8, <1>9 DEF Next, Worker

LEMMA InductiveTypes == Spec => []IInv
<1>1. ASSUME IInv, [Next]_vars PROVE IInv'
  BY <1>1, NextTypes, NextQueue DEF IInv
<1> QED
  BY <1>1, InitTypes, PTL DEF Spec

\* Type correctness of the controller, the work queue's own variables apart.
THEOREM TypeCorrect == Spec => []TypeOK
BY InductiveTypes, PTL DEF IInv

\* The queue keeps its invariant inside the controller, and the one key in
\* processing is the config whose pass is under way (makeWorker's deferred Done
\* is reached on every way out of handleConfig).
THEOREM ControllerQueue == Spec => [](Q!QueueInv /\ WorkerHoldsKey)
BY InductiveTypes, PTL DEF IInv

-----------------------------------------------------------------------------
(* No version that reached the cache is left unread *)

LEMMA EditsKeepHistory ==
    ASSUME TypeOK,
           \/ Users
           \/ \E n \in Name : GarbageCollect(n) \/ RefreshBinding(n)
           \/ UNCHANGED vars
    PROVE  \A c \in Config : \A i \in DOMAIN history[c] :
              /\ i \in DOMAIN history'[c]
              /\ history'[c][i] = history[c][i]
<1>1. CASE UNCHANGED history
  BY <1>1
<1>2. ASSUME NEW d \in Config, NEW v \in Version, history' = [history EXCEPT ![d] = Append(@, v)]
      PROVE  \A c \in Config : \A i \in DOMAIN history[c] :
                i \in DOMAIN history'[c] /\ history'[c][i] = history[c][i]
  <2>1. \A c \in Config : history[c] \in Seq(Version)
    BY DEF TypeOK, WorldTypes
  <2>2. \A c \in Config : history'[c] = history[c] \/ history'[c] = Append(history[c], v)
    BY <1>2 DEF TypeOK, WorldTypes
  <2> QED
    BY <2>1, <2>2
<1>3. ASSUME NEW c \in Config, NEW s \in Specs
      PROVE  /\ [uid |-> Live(c).uid + 1, spec |-> s] \in Version
             /\ [uid |-> Live(c).uid, spec |-> s] \in Version
             /\ [uid |-> Live(c).uid, spec |-> NoSpec] \in Version
  BY LiveType DEF Version
<1>4. ASSUME NEW c \in Config PROVE [uid |-> Live(c).uid, spec |-> NoSpec] \in Version
  BY LiveType DEF Version
<1>5. \/ UNCHANGED history
      \/ \E d \in Config, v \in Version : history' = [history EXCEPT ![d] = Append(@, v)]
  BY <1>3, <1>4 DEF Users, CreateConfig, UpdateConfig, DeleteConfig, Edit, EditUpstream,
     DeleteBindingByHand, RemoveBinding, GarbageCollect, RefreshBinding, vars
<1> QED
  BY <1>1, <1>2, <1>5

LEMMA EditsKeepCached ==
    ASSUME TypeOK,
           \/ Users
           \/ \E n \in Name : GarbageCollect(n) \/ RefreshBinding(n)
           \/ UNCHANGED vars
    PROVE  \A c \in Config : Cached(c)' = Cached(c)
<1>1. ASSUME NEW c \in Config PROVE seen[c] \in DOMAIN history[c]
  BY LiveType DEF TypeOK, WorldTypes
<1> QED
  BY <1>1, EditsKeepHistory, UsersQuiet DEF Cached

LEMMA NextNoLostUpdate ==
    ASSUME IInv, NoLostUpdate, [Next]_vars
    PROVE  NoLostUpdate'
<1> USE DEF IInv
<1>1. CASE \/ Users
           \/ \E n \in Name : GarbageCollect(n) \/ RefreshBinding(n)
           \/ UNCHANGED vars
  BY <1>1, UsersQuiet, EditsKeepCached DEF NoLostUpdate, CachedConfigs
<1>2. ASSUME NEW c \in Config, Sync(c) PROVE NoLostUpdate'
  <2>1. PICK i \in (seen[c] + 1)..Len(history[c]) :
            /\ seen' = [seen EXCEPT ![c] = i]
            /\ IF running /\ Present(history[c][i])
                 THEN Q!AddRateLimited({c}) ELSE UNCHANGED queueVars
            /\ UNCHANGED <<worldVars, running, workerVars, loaded>>
    BY <1>2 DEF Sync
  <2>2. /\ \A d \in Config \ {c} : seen'[d] = seen[d] /\ Cached(d)' = Cached(d)
        /\ Cached(c)' = history[c][i]
        /\ UNCHANGED <<dirty, shuttingDown>>
        /\ waiting \subseteq waiting'
    BY <2>1 DEF TypeOK, ViewTypes, Cached, Q!AddRateLimited
  <2>3. running /\ ~shuttingDown /\ Present(history[c][i]) => c \in waiting'
    BY <2>1 DEF Q!AddRateLimited
  <2> QED
    BY <2>1, <2>2, <2>3 DEF NoLostUpdate, CachedConfigs
<1>3. ASSUME NEW c \in Config, AddReady(c) PROVE NoLostUpdate'
  BY <1>3 DEF AddReady, Q!AddReady, NoLostUpdate, CachedConfigs, Cached
<1>4. CASE Poll
  BY <1>4 DEF Poll, Q!AddRateLimited, NoLostUpdate, CachedConfigs, Cached
<1>5. CASE Start
  <2>1. CachedConfigs' = CachedConfigs /\ (~shuttingDown => CachedConfigs \subseteq waiting')
        /\ UNCHANGED shuttingDown
    BY <1>5 DEF Start, Q!AddRateLimited, CachedConfigs, Cached
  <2> QED
    BY <2>1 DEF NoLostUpdate
<1>6. CASE Stop \/ Exit
  BY <1>6 DEF Stop, Exit, Q!ShutDown, NoLostUpdate
<1>7. CASE Dequeue
  BY <1>7 DEF Dequeue, Q!Get, NoLostUpdate, CachedConfigs, Cached
<1>8. CASE Load
  <2>1. key \in Config /\ loaded' = [loaded EXCEPT ![key] = seen[key]]
        /\ UNCHANGED <<worldVars, viewVars, running, queueVars, key>>
    BY <1>8 DEF Load, TypeOK, WorkerTypes
  <2>2. \A c \in Config \ {key} : loaded'[c] = loaded[c]
    BY <2>1 DEF TypeOK, ViewTypes
  <2>3. loaded'[key] = seen[key]
    BY <2>1 DEF TypeOK, ViewTypes
  <2> QED
    BY <2>1, <2>2, <2>3 DEF NoLostUpdate, CachedConfigs, Cached
<1>9. CASE LoadMissing \/ SelectorError \/ Finish
  <2>1. /\ UNCHANGED <<worldVars, viewVars, running, waiting, dirty, shuttingDown, loaded>>
        /\ pc = "load" => key \notin CachedConfigs
    BY <1>9 DEF LoadMissing, SelectorError, Finish, EndPass, Q!Done, CachedConfigs
  <2> QED
    BY <2>1 DEF NoLostUpdate, CachedConfigs, Cached
<1>10. CASE \/ RejectKind \/ NoMembers \/ KeepUnknown \/ IgnoreDuplicate
            \/ Resolve \/ UpdateOk \/ UpdateNotFound \/ UpdateRefused
            \/ CreateOk \/ CreateRefused \/ WriteFails \/ ListChildren
            \/ \E n \in Name : DeleteChild(n) \/ DeleteFails(n)
  <2>1. CASE Load
    BY <2>1, <1>8
  <2>2. CASE ~Load
    BY <1>10, <2>2, WorkerQuiet DEF NoLostUpdate, CachedConfigs, Cached
  <2> QED
    BY <2>1, <2>2
<1> QED
  BY <1>1, <1>2, <1>3, <1>4, <1>5, <1>6, <1>7, <1>8, <1>9, <1>10 DEF Next, Worker

\* No change of a config that an informer has seen is lost on its way through
\* the handlers, the delay queue, the FIFO and the worker, in whatever order
\* they run.
THEOREM NothingLost == Spec => []NoLostUpdate
<1>1. Init => NoLostUpdate
  BY DEF Init, NoLostUpdate
<1> QED
  BY <1>1, InductiveTypes, NextNoLostUpdate, PTL DEF Spec

-----------------------------------------------------------------------------
(* The cleanup deletes nothing but the children of the object it handles *)

LEMMA OwnerTypes ==
    ASSUME TypeOK
    PROVE  /\ \A n \in Name : rbs[n] # Absent => rbs[n].owner \in Owner
           /\ \A n \in Name : rbCache[n] # Absent => rbCache[n] \in Owner
           /\ \A c \in Config : OwnerBound(c) \in Nat
           /\ \A c \in Config : Cached(c).uid \in Nat
           /\ InPass => cfg.uid \in Nat /\ key \in Config
<1>1. \A n \in Name : rbs[n] # Absent => rbs[n].owner \in Owner
  BY DEF TypeOK, WorldTypes, Binding
<1>2. \A n \in Name : rbCache[n] # Absent => rbCache[n] \in Owner
  BY DEF TypeOK, ViewTypes
<1>3. ASSUME NEW c \in Config PROVE Cached(c).uid \in Nat
  BY LiveType DEF Version
<1>4. InPass => cfg.uid \in Nat /\ key \in Config
  BY DEF InPass, TypeOK, WorkerTypes, Version
<1> QED
  BY <1>1, <1>2, <1>3, <1>4 DEF OwnerBound

LEMMA CachedNext ==
    ASSUME TypeOK', NEW c \in Config
    PROVE  Cached(c)'.uid \in Nat
<1>1. /\ history'[c] \in Seq(Version) /\ seen'[c] \in Nat \ {0}
      /\ seen'[c] <= Len(history'[c])
  BY DEF TypeOK, WorldTypes, ViewTypes
<1>2. history'[c][seen'[c]] \in Version
  BY <1>1
<1> QED
  BY <1>2 DEF Cached, Version

LEMMA LineageBoundNext ==
    ASSUME TypeOK'
    PROVE  \A c \in Config : OwnerBound(c)' \in Nat
<1>1. ASSUME NEW c \in Config PROVE Cached(c)'.uid \in Nat
  BY CachedNext
<1>2. InPass' => cfg'.uid \in Nat
  BY DEF InPass, TypeOK, WorkerTypes, Version
<1> QED
  BY <1>1, <1>2 DEF OwnerBound

\* OwnersAged survives every step that lets the bounds grow, removes bindings
\* and refreshes the lister.
LEMMA AgedMonotone ==
    ASSUME TypeOK, TypeOK', OwnersAged,
           \A c \in Config : OwnerBound(c) <= OwnerBound(c)',
           \A n \in Name : rbs'[n] \in {rbs[n], Absent},
           \A n \in Name : \/ rbCache'[n] \in {rbCache[n], Absent}
                          \/ /\ rbs[n] # Absent /\ rbs'[n] = rbs[n]
                             /\ rbCache'[n] = rbs[n].owner
    PROVE  OwnersAged'
<1>1. ASSUME NEW n \in Name, NEW o \in Owner, Aged(n, o)
      PROVE  o.uid <= OwnerBound(o.config)'
  <2>1. o.config \in Config /\ o.uid \in Nat
    BY DEF Owner
  <2>2. OwnerBound(o.config) \in Nat /\ OwnerBound(o.config)' \in Nat
    BY <2>1, OwnerTypes, LineageBoundNext
  <2> QED
    BY <1>1, <2>1, <2>2 DEF Aged
<1> SUFFICES ASSUME NEW n \in Name
             PROVE  /\ rbs'[n] # Absent => Aged(n, rbs[n].owner)'
                    /\ rbCache'[n] # Absent => Aged(n, rbCache[n])'
                    /\ rbs'[n] # Absent /\ rbCache'[n] # Absent
                          => rbCache'[n].uid <= rbs'[n].owner.uid
  BY DEF OwnersAged
<1>2. CASE rbs'[n] # Absent
  <2>1. rbs'[n] = rbs[n] /\ rbs[n].owner \in Owner /\ Aged(n, rbs[n].owner)
    BY <1>2, OwnerTypes DEF OwnersAged
  <2>2. Aged(n, rbs[n].owner)'
    BY <1>1, <2>1 DEF Aged
  <2>3. ASSUME rbCache'[n] # Absent
        PROVE  Aged(n, rbCache[n])' /\ rbCache'[n].uid <= rbs'[n].owner.uid
    <3>1. CASE rbCache'[n] = rbCache[n]
      <4>1. rbCache[n] # Absent /\ rbs[n] # Absent
        BY <1>2, <2>1, <2>3, <3>1
      <4>2. rbCache[n] \in Owner
        BY <4>1, OwnerTypes
      <4>3. Aged(n, rbCache[n]) /\ rbCache[n].uid <= rbs[n].owner.uid
        BY <4>1 DEF OwnersAged
      <4> QED
        BY <1>1, <2>1, <3>1, <4>2, <4>3 DEF Aged
    <3>2. CASE rbCache'[n] = rbs[n].owner
      <4>1. rbs[n].owner.uid \in Nat
        BY <2>1 DEF Owner
      <4> QED
        BY <2>1, <2>2, <3>2, <4>1 DEF Aged
    <3> QED
      BY <2>1, <2>3, <3>1, <3>2
  <2> QED
    BY <2>2, <2>3
<1>3. CASE rbs'[n] = Absent
  <2>1. ASSUME rbCache'[n] # Absent PROVE Aged(n, rbCache[n])'
    <3>1. rbCache'[n] = rbCache[n] /\ rbCache[n] \in Owner /\ Aged(n, rbCache[n])
      BY <1>3, <2>1, OwnerTypes DEF OwnersAged
    <3> QED
      BY <1>1, <3>1 DEF Aged
  <2> QED
    BY <1>3, <2>1
<1> QED
  BY <1>2, <1>3

LEMMA EditsUidsGrow ==
    ASSUME TypeOK, UidsGrow,
           \/ Users
           \/ \E n \in Name : GarbageCollect(n) \/ RefreshBinding(n)
           \/ UNCHANGED vars
    PROVE  UidsGrow'
<1>1. CASE UNCHANGED history
  BY <1>1 DEF UidsGrow
<1>2. ASSUME NEW d \in Config, NEW v \in Version, v.uid >= Live(d).uid, Edit(d, v)
      PROVE  UidsGrow'
  <2>1. /\ history[d] \in Seq(Version) /\ Len(history[d]) \in Nat \ {0}
        /\ history'[d] = Append(history[d], v)
        /\ \A c \in Config \ {d} : history'[c] = history[c]
    BY <1>2, LiveType DEF Edit, TypeOK, WorldTypes
  <2>2. ASSUME NEW i \in DOMAIN history'[d], NEW j \in DOMAIN history'[d], i <= j
        PROVE  history'[d][i].uid <= history'[d][j].uid
    <3>1. i \in 1..(Len(history[d]) + 1) /\ j \in 1..(Len(history[d]) + 1)
      BY <2>1, <2>2
    <3>2. ASSUME NEW k \in 1..Len(history[d])
          PROVE  history[d][k].uid <= v.uid /\ history'[d][k] = history[d][k]
      <4>1. history[d][k].uid <= Live(d).uid
        BY <2>1 DEF UidsGrow, Live
      <4>2. history[d][k] \in Version /\ history'[d][k] = history[d][k]
        BY <2>1
      <4>3. history[d][k].uid \in Nat /\ Live(d).uid \in Nat /\ v.uid \in Nat
        BY <4>2, LiveType DEF Version
      <4> QED
        BY <1>2, <4>1, <4>2, <4>3
    <3>3. history'[d][Len(history[d]) + 1] = v /\ v.uid \in Nat
      BY <2>1 DEF Version
    <3>4. CASE j = Len(history[d]) + 1
      BY <2>1, <3>1, <3>2, <3>3, <3>4
    <3>5. CASE j # Len(history[d]) + 1
      <4>1. i \in 1..Len(history[d]) /\ j \in 1..Len(history[d])
        BY <2>1, <2>2, <3>1, <3>5
      <4> QED
        BY <2>1, <2>2, <3>2, <4>1 DEF UidsGrow
    <3> QED
      BY <3>4, <3>5
  <2> QED
    BY <2>1, <2>2 DEF UidsGrow
<1>3. ASSUME NEW c \in Config, NEW s \in Specs, CreateConfig(c, s) PROVE UidsGrow'
  <2>1. Live(c).uid \in Nat
    BY LiveType DEF Version
  <2>2. [uid |-> Live(c).uid + 1, spec |-> s] \in Version
    BY <2>1 DEF Version
  <2> QED
    BY <1>2, <1>3, <2>1, <2>2 DEF CreateConfig
<1>4. ASSUME NEW c \in Config, NEW s \in Specs, UpdateConfig(c, s) PROVE UidsGrow'
  <2>1. Live(c).uid \in Nat
    BY LiveType DEF Version
  <2>2. [uid |-> Live(c).uid, spec |-> s] \in Version
    BY <2>1 DEF Version
  <2> QED
    BY <1>2, <1>4, <2>1, <2>2 DEF UpdateConfig
<1>5. ASSUME NEW c \in Config, DeleteConfig(c) PROVE UidsGrow'
  <2>1. Live(c).uid \in Nat
    BY LiveType DEF Version
  <2>2. [uid |-> Live(c).uid, spec |-> NoSpec] \in Version
    BY <2>1 DEF Version
  <2> QED
    BY <1>2, <1>5, <2>1, <2>2 DEF DeleteConfig
<1>6. \/ UNCHANGED history
      \/ \E c \in Config, s \in Specs : CreateConfig(c, s) \/ UpdateConfig(c, s)
      \/ \E c \in Config : DeleteConfig(c)
  BY DEF Users, EditUpstream, DeleteBindingByHand, RemoveBinding, GarbageCollect,
     RefreshBinding, vars
<1> QED
  BY <1>1, <1>3, <1>4, <1>5, <1>6

LEMMA EditsLineage ==
    ASSUME TypeOK, TypeOK', Lineage,
           \/ Users
           \/ \E n \in Name : GarbageCollect(n) \/ RefreshBinding(n)
           \/ UNCHANGED vars
    PROVE  Lineage'
<1>1. UNCHANGED <<workerVars, seen>> /\ \A c \in Config : Cached(c)' = Cached(c)
  BY UsersQuiet, EditsKeepCached
<1>2. UidsGrow'
  BY EditsUidsGrow DEF Lineage
<1>3. \A c \in Config : OwnerBound(c)' = OwnerBound(c)
  BY <1>1 DEF OwnerBound, InPass
<1>4. \A c \in Config : OwnerBound(c) <= OwnerBound(c)'
  BY <1>3, OwnerTypes
<1>5. \/ UNCHANGED <<rbs, rbCache>>
      \/ \E n \in Name : rbs' = [rbs EXCEPT ![n] = Absent] /\ UNCHANGED rbCache
      \/ \E n \in Name : RefreshBinding(n)
  BY DEF Users, CreateConfig, UpdateConfig, DeleteConfig, Edit, EditUpstream,
     DeleteBindingByHand, RemoveBinding, GarbageCollect, vars
<1>6. /\ \A n \in Name : rbs'[n] \in {rbs[n], Absent}
      /\ \A n \in Name : \/ rbCache'[n] \in {rbCache[n], Absent}
                        \/ /\ rbs[n] # Absent /\ rbs'[n] = rbs[n]
                           /\ rbCache'[n] = rbs[n].owner
  BY <1>5 DEF RefreshBinding, TypeOK, WorldTypes, ViewTypes
<1>7. OwnersAged'
  BY <1>4, <1>6, AgedMonotone DEF Lineage
<1>8. (InPass => cfg.uid <= Cached(key).uid)'
  BY <1>1, OwnerTypes DEF Lineage, InPass
<1>9. Custody'
  BY <1>1, <1>6 DEF Lineage, Custody, Self, TypeOK, WorkerTypes
<1> QED
  BY <1>2, <1>7, <1>8, <1>9 DEF Lineage

LEMMA SyncLineage ==
    ASSUME TypeOK, TypeOK', Lineage, NEW c \in Config, Sync(c)
    PROVE  Lineage'
<1>1. PICK i \in (seen[c] + 1)..Len(history[c]) :
          seen' = [seen EXCEPT ![c] = i] /\ UNCHANGED <<worldVars, rbs, rbCache, workerVars>>
  BY DEF Sync
<1>2. /\ history[c] \in Seq(Version) /\ seen[c] \in DOMAIN history[c]
      /\ i \in DOMAIN history[c] /\ seen[c] <= i
  BY <1>1, LiveType DEF TypeOK, WorldTypes
<1>3. \A d \in Config : Cached(d).uid <= Cached(d)'.uid
  <2>1. Cached(c)' = history[c][i]
    BY <1>1 DEF Cached, TypeOK, ViewTypes
  <2>2. \A d \in Config \ {c} : Cached(d)' = Cached(d)
    BY <1>1 DEF Cached, TypeOK, ViewTypes
  <2> QED
    BY <1>2, <2>1, <2>2, OwnerTypes DEF Lineage, UidsGrow, Cached
<1>4. \A d \in Config : OwnerBound(d) <= OwnerBound(d)'
  BY <1>1, <1>3, OwnerTypes DEF OwnerBound, InPass
<1>5. OwnersAged'
  BY <1>1, <1>4, AgedMonotone DEF Lineage
<1>6. (InPass => cfg.uid <= Cached(key).uid)'
  <2>1. ASSUME InPass, NEW d \in Config, d = key PROVE cfg.uid <= Cached(d)'.uid
    <3>1. cfg.uid \in Nat /\ Cached(d).uid \in Nat /\ Cached(d)'.uid \in Nat
      BY <2>1, OwnerTypes, CachedNext
    <3>2. cfg.uid <= Cached(d).uid
      BY <2>1 DEF Lineage
    <3> QED
      BY <1>3, <3>1, <3>2
  <2>2. InPass' => InPass /\ key' = key /\ cfg' = cfg /\ key \in Config
    BY <1>1, OwnerTypes DEF InPass
  <2> QED
    BY <2>1, <2>2 DEF Cached
<1> QED
  BY <1>1, <1>5, <1>6 DEF Lineage, UidsGrow, Custody, Self

\* Steps that touch no object and no view, and at most end a pass.
LEMMA QuietLineage ==
    ASSUME TypeOK, TypeOK', Lineage,
           UNCHANGED <<worldVars, rbs, viewVars>>,
           InPass' => InPass /\ UNCHANGED <<key, cfg>>,
           todo' = {} \/ UNCHANGED <<todo, key, cfg>>
    PROVE  Lineage'
<1>1. \A c \in Config : Cached(c)' = Cached(c)
  BY DEF Cached
<1>2. ASSUME NEW c \in Config PROVE OwnerBound(c) <= OwnerBound(c)'
  <2>1. OwnerBound(c) \in Nat /\ Cached(c).uid \in Nat
    BY OwnerTypes
  <2>2. CASE InPass /\ key = c
    <3>1. cfg.uid <= Cached(c).uid /\ OwnerBound(c) = cfg.uid
      BY <2>2 DEF Lineage, OwnerBound
    <3>2. OwnerBound(c)' \in {cfg.uid, Cached(c).uid}
      BY <1>1, <2>2 DEF OwnerBound
    <3> QED
      BY <2>1, <3>1, <3>2
  <2>3. CASE ~(InPass /\ key = c)
    <3>1. OwnerBound(c)' = OwnerBound(c)
      BY <1>1, <2>3 DEF OwnerBound
    <3> QED
      BY <2>1, <3>1
  <2> QED
    BY <2>2, <2>3
<1>3. OwnersAged'
  BY <1>2, AgedMonotone DEF Lineage
<1>4. (InPass => cfg.uid <= Cached(key).uid)'
  BY DEF Lineage, Cached
<1>5. Custody'
  BY DEF Lineage, Custody, Self
<1>6. UidsGrow'
  BY DEF Lineage, UidsGrow
<1> QED
  BY <1>3, <1>4, <1>5, <1>6 DEF Lineage

LEMMA LoadLineage ==
    ASSUME TypeOK, TypeOK', Lineage, Load
    PROVE  Lineage'
<1>1. /\ cfg' = Cached(key) /\ ~InPass /\ InPass' /\ key \in Config
      /\ UNCHANGED <<worldVars, rbs, viewVars, key, todo>>
  BY DEF Load, InPass, TypeOK, WorkerTypes
<1>2. \A c \in Config : Cached(c)' = Cached(c)
  BY <1>1 DEF Cached
<1>3. \A c \in Config : OwnerBound(c)' = OwnerBound(c)
  BY <1>1, <1>2 DEF OwnerBound
<1>4. \A c \in Config : OwnerBound(c) <= OwnerBound(c)'
  BY <1>3, OwnerTypes
<1>5. OwnersAged'
  BY <1>1, <1>4, AgedMonotone DEF Lineage
<1>6. (cfg.uid <= Cached(key).uid)'
  <2>1. Cached(key).uid \in Nat
    BY <1>1, OwnerTypes
  <2> QED
    BY <1>1, <2>1 DEF Cached
<1>7. todo = {}
  BY DEF Load, TypeOK, WorkerTypes
<1> QED
  BY <1>1, <1>5, <1>6, <1>7 DEF Lineage, UidsGrow, Custody

LEMMA WrittenLineage ==
    ASSUME DistinctNames, TypeOK, TypeOK', Lineage,
           pc \in {"update", "create"}, Written, pc' = "bindings",
           UNCHANGED <<worldVars, viewVars, key, cfg, todo>>
    PROVE  Lineage'
<1>1. InPass /\ InPass' /\ HasEntry /\ todo = {}
  BY DEF InPass, TypeOK, WorkerTypes, HasEntry, Entries
<1>0. PICK n \in Name : n = NameOf(Entry)
  BY <1>1, EntryType DEF TypeOK
<1>2. /\ n \in Name /\ key \in Config /\ Entry.group \in Group /\ Entry.role \in Role
      /\ n = BindingName(key, Entry.group, Entry.role)
  BY <1>0, <1>1, EntryType DEF TypeOK, BindingEntry, NameOf
<1>3. /\ rbs'[n] = Desired
      /\ \A m \in Name \ {n} : rbs'[m] = rbs[m]
      /\ Desired.owner = [config |-> key, uid |-> cfg.uid]
  BY <1>0 DEF Written, TypeOK, WorldTypes, Desired, Self
<1>4. cfg.uid \in Nat
  BY <1>1, OwnerTypes
<1>5. \A c \in Config : OwnerBound(c)' = OwnerBound(c)
  BY <1>1 DEF OwnerBound, Cached
<1>6. ASSUME NEW m \in Name, NEW o \in Owner, Aged(m, o) PROVE Aged(m, o)'
  <2>1. o.config \in Config
    BY DEF Owner
  <2> QED
    BY <1>5, <1>6, <2>1 DEF Aged
<1>7. ASSUME NEW m \in Name \ {n}
      PROVE  /\ rbs'[m] # Absent => Aged(m, rbs[m].owner)'
             /\ rbCache'[m] # Absent => Aged(m, rbCache[m])'
             /\ rbs'[m] # Absent /\ rbCache'[m] # Absent
                   => rbCache'[m].uid <= rbs'[m].owner.uid
  <2>1. rbs'[m] = rbs[m] /\ rbCache'[m] = rbCache[m]
    BY <1>3
  <2>2. rbs[m] # Absent => rbs[m].owner \in Owner /\ Aged(m, rbs[m].owner)
    BY OwnerTypes DEF Lineage, OwnersAged
  <2>3. rbCache[m] # Absent => rbCache[m] \in Owner /\ Aged(m, rbCache[m])
    BY OwnerTypes DEF Lineage, OwnersAged
  <2>4. rbs'[m] # Absent => Aged(m, rbs[m].owner)'
    BY <1>5, <2>1, <2>2 DEF Aged, Owner
  <2>5. rbCache'[m] # Absent => Aged(m, rbCache[m])'
    BY <1>5, <2>1, <2>3 DEF Aged, Owner
  <2> QED
    BY <2>1, <2>4, <2>5 DEF Lineage, OwnersAged
<1>8. Aged(n, rbs[n].owner)'
  <2>1. OwnerBound(key) = cfg.uid
    BY <1>1 DEF OwnerBound
  <2> QED
    BY <1>1, <1>2, <1>3, <1>4, <1>5, <2>1 DEF Aged
<1>9. ASSUME rbCache'[n] # Absent
      PROVE  Aged(n, rbCache[n])' /\ rbCache'[n].uid <= rbs'[n].owner.uid
  <2>1. rbCache'[n] = rbCache[n] /\ rbCache[n] # Absent
    BY <1>9
  <2>2. rbCache[n] \in Owner /\ Aged(n, rbCache[n])
    BY <1>2, <2>1, OwnerTypes DEF Lineage, OwnersAged
  <2>3. rbCache[n].config = key
    BY <1>2, <2>2 DEF Aged, DistinctNames, Owner
  <2>4. rbCache[n].uid <= cfg.uid
    BY <1>1, <2>2, <2>3 DEF Aged, OwnerBound
  <2>5. Aged(n, rbCache[n])'
    BY <1>5, <2>1, <2>2 DEF Aged, Owner
  <2> QED
    BY <1>3, <2>1, <2>4, <2>5
<1>10. OwnersAged'
  BY <1>7, <1>8, <1>9 DEF OwnersAged
<1> QED
  BY <1>1, <1>10 DEF Lineage, UidsGrow, Custody, Cached

LEMMA ListLineage ==
    ASSUME DistinctNames, TypeOK, TypeOK', Lineage, ListChildren
    PROVE  Lineage'
<1>1. /\ InPass /\ InPass' /\ key \in Config
      /\ UNCHANGED <<worldVars, rbs, viewVars, key, cfg>>
      /\ todo' = {n \in Name : rbCache[n] = Self} \ active
  BY DEF ListChildren, InPass, TypeOK, WorkerTypes
<1>2. OwnersAged'
  <2>1. \A c \in Config : OwnerBound(c)' = OwnerBound(c)
    BY <1>1 DEF OwnerBound, Cached
  <2>2. \A c \in Config : OwnerBound(c) <= OwnerBound(c)'
    BY <2>1, OwnerTypes
  <2> QED
    BY <1>1, <2>2, AgedMonotone DEF Lineage
<1>3. ASSUME NEW n \in todo', rbs[n] # Absent PROVE rbs[n].owner = Self
  <2>1. n \in Name /\ rbCache[n] = Self
    BY <1>1, <1>3
  <2>2. rbCache[n] # Absent
    <3>1. Self \in Owner
      BY <1>1, OwnerTypes DEF Self, Owner
    <3> QED
      BY <2>1, <3>1, ControllerAssumption DEF Owner
  <2>3. rbs[n].owner \in Owner /\ Aged(n, rbs[n].owner) /\ Aged(n, rbCache[n])
        /\ rbCache[n].uid <= rbs[n].owner.uid
    BY <1>3, <2>1, <2>2, OwnerTypes DEF Lineage, OwnersAged
  <2>4. rbs[n].owner.config = key
    BY <1>1, <2>1, <2>3 DEF Aged, DistinctNames, Self, Owner
  <2>5. rbs[n].owner.uid <= cfg.uid /\ cfg.uid <= rbs[n].owner.uid
    BY <1>1, <2>1, <2>3, <2>4 DEF Aged, OwnerBound, Self
  <2>6. rbs[n].owner.uid \in Nat /\ cfg.uid \in Nat
    BY <1>1, <2>3, OwnerTypes DEF Owner
  <2> QED
    BY <2>3, <2>4, <2>5, <2>6 DEF Owner, Self
<1>4. Custody'
  BY <1>1, <1>3 DEF Custody, Self
<1> QED
  BY <1>1, <1>2, <1>4 DEF Lineage, UidsGrow, Cached

LEMMA DeleteLineage ==
    ASSUME TypeOK, TypeOK', Lineage, NEW n \in Name, DeleteChild(n) \/ DeleteFails(n)
    PROVE  Lineage'
<1>1. /\ InPass /\ InPass' /\ todo' = todo \ {n}
      /\ UNCHANGED <<worldVars, viewVars, key, cfg>>
      /\ \A m \in Name : rbs'[m] \in {rbs[m], Absent}
  BY DEF DeleteChild, DeleteFails, InPass, TypeOK, WorldTypes
<1>2. OwnersAged'
  <2>1. \A c \in Config : OwnerBound(c)' = OwnerBound(c)
    BY <1>1 DEF OwnerBound, Cached
  <2>2. \A c \in Config : OwnerBound(c) <= OwnerBound(c)'
    BY <2>1, OwnerTypes
  <2> QED
    BY <1>1, <2>2, AgedMonotone DEF Lineage
<1>3. Custody'
  BY <1>1 DEF Lineage, Custody, Self, TypeOK, WorkerTypes
<1> QED
  BY <1>1, <1>2, <1>3 DEF Lineage, UidsGrow, Cached

LEMMA NextLineage ==
    ASSUME DistinctNames, TypeOK, TypeOK', Lineage, [Next]_vars
    PROVE  Lineage'
<1>1. CASE \/ Users
           \/ \E n \in Name : GarbageCollect(n) \/ RefreshBinding(n)
           \/ UNCHANGED vars
  BY <1>1, EditsLineage
<1>2. CASE \E c \in Config : Sync(c)
  BY <1>2, SyncLineage
<1>3. CASE \/ \E c \in Config : AddReady(c)
           \/ Poll \/ Start \/ Stop
  BY <1>3, QuietLineage DEF AddReady, Poll, Start, Stop, InPass
<1>4. CASE Exit
  BY <1>4, QuietLineage DEF Exit, IdleWorker, InPass
<1>5. CASE Dequeue
  BY <1>5, QuietLineage DEF Dequeue, InPass, TypeOK, WorkerTypes
<1>6. CASE LoadMissing \/ SelectorError \/ Finish
  BY <1>6, QuietLineage DEF LoadMissing, SelectorError, Finish, EndPass, IdleWorker, InPass
<1>7. CASE Load
  BY <1>7, LoadLineage
<1>8. CASE RejectKind \/ NoMembers \/ KeepUnknown \/ IgnoreDuplicate \/ Resolve
  BY <1>8, QuietLineage DEF RejectKind, NoMembers, KeepUnknown, IgnoreDuplicate,
     Resolve, Skip, Lookup, AtEntry, InPass
<1>9. CASE UpdateNotFound \/ UpdateRefused \/ CreateRefused
  BY <1>9, QuietLineage DEF UpdateNotFound, UpdateRefused, CreateRefused, Wrote, InPass
<1>10. CASE UpdateOk \/ CreateOk
  BY <1>10, WrittenLineage DEF UpdateOk, CreateOk, Wrote
<1>11. CASE WriteFails
  <2>1. CASE Written
    BY <1>11, <2>1, WrittenLineage DEF WriteFails, Wrote
  <2>2. CASE UNCHANGED rbs
    BY <1>11, <2>2, QuietLineage DEF WriteFails, Wrote, InPass
  <2> QED
    BY <1>11, <2>1, <2>2 DEF WriteFails
<1>12. CASE ListChildren
  BY <1>12, ListLineage
<1>13. CASE \E n \in Name : DeleteChild(n) \/ DeleteFails(n)
  BY <1>13, DeleteLineage
<1> QED
  BY <1>1, <1>2, <1>3, <1>4, <1>5, <1>6, <1>7, <1>8, <1>9, <1>10, <1>11, <1>12, <1>13
  DEF Next, Worker

\* What the cleanup's safety rests on holds throughout, if no two configs' bindings
\* share a name: uids grow along a config's history, and neither the lister nor a
\* binding is ahead of what the worker may have seen of its owner.
THEOREM LineageKept == ASSUME DistinctNames PROVE Spec => []Lineage
<1>1. Init => Lineage
  <2> SUFFICES ASSUME Init PROVE Lineage
    OBVIOUS
  <2>1. UidsGrow
    BY DEF Init, UidsGrow
  <2>2. OwnersAged
    BY DEF Init, OwnersAged
  <2>3. ~InPass /\ todo = {}
    BY DEF Init, InPass
  <2> QED
    BY <2>1, <2>2, <2>3 DEF Lineage, Custody
<1>2. TypeOK /\ TypeOK' /\ Lineage /\ [Next]_vars => Lineage'
  BY NextLineage
<1> QED
  BY <1>1, <1>2, TypeCorrect, PTL DEF Spec

\* Deleting by name what a stale list shows is nevertheless safe: if no two
\* configs' bindings share a name, the worker never deletes a binding that does
\* not belong to the very object it is handling (handleConfig's cleanup loop).
THEOREM CustodyKept == ASSUME DistinctNames PROVE Spec => []Custody
<1>1. Lineage => Custody
  BY DEF Lineage
<1> QED
  BY <1>1, LineageKept, PTL

-----------------------------------------------------------------------------
(* A failed lookup leaves its binding alone *)

\* The names with a failed lookup are active, the binding about to be written is
\* not, and neither is a binding about to be deleted.
ActiveSplits ==
    /\ UnknownNames \subseteq active
    /\ todo \intersect active = {}
    /\ pc \in {"update", "create"} => NameOf(Entry) \notin active

LEMMA RecordNames ==
    ASSUME TypeOK, AtEntry \/ pc \in {"update", "create"}, NEW o \in Outcomes,
           Record(o), UNCHANGED <<key, cfg>>
    PROVE  UnknownNames' = IF o = "unknown" THEN UnknownNames \union {NameOf(Entry)}
                                            ELSE UnknownNames
<1>1. /\ outcome \in Seq(Outcomes) /\ Len(outcome) \in Nat
      /\ outcome' = Append(outcome, o)
  BY DEF TypeOK, WorkerTypes, Record
<1>2. /\ DOMAIN outcome = 1..Len(outcome)
      /\ DOMAIN outcome' = 1..Len(outcome) \union {Len(outcome) + 1}
      /\ \A i \in 1..Len(outcome) : outcome'[i] = outcome[i]
      /\ outcome'[Len(outcome) + 1] = o
  BY <1>1
<1>3. {j \in DOMAIN outcome' : outcome'[j] = "unknown"} =
          {j \in DOMAIN outcome : outcome[j] = "unknown"}
            \union (IF o = "unknown" THEN {Len(outcome) + 1} ELSE {})
  BY <1>2
<1>4. \A i : NameOf(Entries[i])' = NameOf(Entries[i])
  BY DEF NameOf, Entries
<1> QED
  BY <1>3, <1>4 DEF UnknownNames, Entry, NameOf, Entries

LEMMA IdleSplits ==
    ASSUME IdleWorker
    PROVE  ActiveSplits'
<1>1. outcome' = <<>> /\ active' = {} /\ todo' = {} /\ pc' = "idle"
  BY DEF IdleWorker
<1>2. DOMAIN outcome' = {}
  BY <1>1
<1> QED
  BY <1>1, <1>2 DEF ActiveSplits, UnknownNames

LEMMA SameSplits ==
    ASSUME ActiveSplits, UNCHANGED <<pc, key, cfg, outcome, active, todo>>
    PROVE  ActiveSplits'
BY DEF ActiveSplits, UnknownNames, NameOf, Entry, Entries

LEMMA NextSplits ==
    ASSUME TypeOK, ActiveSplits, [Next]_vars
    PROVE  ActiveSplits'
<1>1. CASE \/ Users
           \/ \E n \in Name : GarbageCollect(n) \/ RefreshBinding(n)
           \/ UNCHANGED vars
  BY <1>1, UsersQuiet, SameSplits
<1>2. CASE \/ \E c \in Config : Sync(c) \/ AddReady(c)
           \/ Poll \/ Start \/ Stop
  BY <1>2, SameSplits DEF Sync, AddReady, Poll, Start, Stop
<1>3. CASE Exit \/ LoadMissing \/ SelectorError \/ Finish
  BY <1>3, IdleSplits DEF Exit, LoadMissing, SelectorError, Finish, EndPass
<1>4. CASE Dequeue \/ Load
  <2>1. /\ outcome = <<>> /\ outcome' = <<>> /\ UNCHANGED <<active, todo>>
        /\ pc' \in {"load", "bindings"}
    BY <1>4 DEF Dequeue, Load, TypeOK, WorkerTypes
  <2>2. UnknownNames' = {}
    BY <2>1 DEF UnknownNames
  <2> QED
    BY <2>1, <2>2 DEF ActiveSplits
<1>5. CASE RejectKind \/ NoMembers \/ IgnoreDuplicate
  <2>1. PICK o \in Outcomes \ {"unknown"} : Record(o) /\ AtEntry /\ UNCHANGED <<pc, key, cfg, todo, active>>
    BY <1>5 DEF RejectKind, NoMembers, IgnoreDuplicate, Skip, Lookup, Outcomes
  <2>2. UnknownNames' = UnknownNames
    BY <2>1, RecordNames
  <2> QED
    BY <2>1, <2>2 DEF ActiveSplits, AtEntry
<1>6. CASE KeepUnknown
  <2>1. Record("unknown") /\ AtEntry /\ UNCHANGED <<pc, key, cfg, todo>>
        /\ active' = active \union {NameOf(Entry)}
    BY <1>6 DEF KeepUnknown, Skip, Lookup
  <2>2. UnknownNames' = UnknownNames \union {NameOf(Entry)}
    BY <2>1, RecordNames DEF Outcomes
  <2>3. todo = {}
    BY <2>1 DEF AtEntry, TypeOK, WorkerTypes
  <2> QED
    BY <2>1, <2>2, <2>3 DEF ActiveSplits, AtEntry
<1>7. CASE Resolve
  <2>1. /\ NameOf(Entry) \notin active /\ UNCHANGED <<key, cfg, outcome, active, todo>>
    BY <1>7 DEF Resolve
  <2> QED
    BY <2>1 DEF ActiveSplits, UnknownNames, NameOf, Entry, Entries
<1>8. CASE UpdateNotFound
  <2>1. pc = "update" /\ pc' = "create" /\ UNCHANGED <<key, cfg, outcome, active, todo>>
    BY <1>8 DEF UpdateNotFound
  <2> QED
    BY <2>1 DEF ActiveSplits, UnknownNames, NameOf, Entry, Entries
<1>9. CASE UpdateOk \/ UpdateRefused \/ CreateOk \/ CreateRefused \/ WriteFails
  <2>1. PICK o \in Outcomes \ {"unknown"} : Wrote(o) /\ pc \in {"update", "create"}
    BY <1>9 DEF UpdateOk, UpdateRefused, CreateOk, CreateRefused, WriteFails, Outcomes
  <2>2. UnknownNames' = UnknownNames
    BY <2>1, RecordNames DEF Wrote
  <2>3. active \subseteq active' /\ pc' = "bindings" /\ todo' = todo /\ todo = {}
    BY <2>1 DEF Wrote, TypeOK, WorkerTypes
  <2> QED
    BY <2>2, <2>3 DEF ActiveSplits
<1>10. CASE ListChildren
  <2>1. /\ todo' = {n \in Name : rbCache[n] = Self} \ active /\ pc' = "cleanup"
        /\ UNCHANGED <<key, cfg, outcome, active>>
    BY <1>10 DEF ListChildren
  <2>2. UnknownNames' = UnknownNames
    BY <2>1 DEF UnknownNames, NameOf, Entries
  <2> QED
    BY <2>1, <2>2 DEF ActiveSplits
<1>11. CASE \E n \in Name : DeleteChild(n) \/ DeleteFails(n)
  <2>1. todo' \subseteq todo /\ pc' = "cleanup" /\ UNCHANGED <<key, cfg, outcome, active>>
    BY <1>11 DEF DeleteChild, DeleteFails
  <2>2. UnknownNames' = UnknownNames
    BY <2>1 DEF UnknownNames, NameOf, Entries
  <2> QED
    BY <2>1, <2>2 DEF ActiveSplits
<1> QED
  BY <1>1, <1>2, <1>3, <1>4, <1>5, <1>6, <1>7, <1>8, <1>9, <1>10, <1>11 DEF Next, Worker

LEMMA StepLeavesAlone ==
    ASSUME TypeOK, ActiveSplits, [Next]_vars, NEW n \in Name,
           pc # "idle", n \in UnknownNames, workerVars' # workerVars
    PROVE  rbs'[n] = rbs[n]
<1>1. n \in active /\ n \notin todo
  BY DEF ActiveSplits
<1>2. ASSUME Written, pc \in {"update", "create"} PROVE rbs'[n] = rbs[n]
  BY <1>1, <1>2 DEF Written, ActiveSplits, TypeOK, WorldTypes
<1>3. CASE \/ Users
           \/ \E m \in Name : GarbageCollect(m) \/ RefreshBinding(m)
           \/ UNCHANGED vars
  BY <1>3, UsersQuiet
<1>4. CASE \/ \E c \in Config : Sync(c) \/ AddReady(c)
           \/ Poll \/ Start \/ Stop \/ Exit \/ Dequeue \/ Load
           \/ LoadMissing \/ SelectorError \/ Finish
  BY <1>4 DEF Sync, AddReady, Poll, Start, Stop, Exit, Dequeue, Load, LoadMissing,
     SelectorError, Finish, EndPass
<1>5. CASE RejectKind \/ NoMembers \/ KeepUnknown \/ IgnoreDuplicate \/ Resolve
  BY <1>5 DEF RejectKind, NoMembers, KeepUnknown, IgnoreDuplicate, Resolve, Skip
<1>6. CASE UpdateNotFound \/ UpdateRefused \/ CreateRefused \/ ListChildren
  BY <1>6 DEF UpdateNotFound, UpdateRefused, CreateRefused, ListChildren
<1>7. CASE UpdateOk \/ CreateOk \/ WriteFails
  BY <1>2, <1>7 DEF UpdateOk, CreateOk, WriteFails
<1>8. ASSUME NEW m \in Name, DeleteChild(m) \/ DeleteFails(m) PROVE rbs'[n] = rbs[n]
  <2>1. m \in todo /\ (rbs' = [rbs EXCEPT ![m] = Absent] \/ rbs' = rbs)
    BY <1>8 DEF DeleteChild, DeleteFails
  <2> QED
    BY <1>1, <2>1 DEF TypeOK, WorldTypes
<1> QED
  BY <1>3, <1>4, <1>5, <1>6, <1>7, <1>8 DEF Next, Worker

\* In the pass in which a group's lookup failed, the worker neither rewrites nor
\* deletes that group's binding, whatever else the config says of the name.
THEOREM FailedLookupIsHarmless == Spec => UnknownLeavesAlone
<1>1. Init => ActiveSplits
  <2> SUFFICES ASSUME Init PROVE ActiveSplits
    OBVIOUS
  <2>1. outcome = <<>> /\ todo = {} /\ pc = "idle"
    BY DEF Init
  <2>2. UnknownNames = {}
    BY <2>1 DEF UnknownNames
  <2> QED
    BY <2>1, <2>2 DEF ActiveSplits
<1>2. TypeOK /\ ActiveSplits /\ [Next]_vars => ActiveSplits'
  BY NextSplits
<1>3. TypeOK /\ ActiveSplits /\ [Next]_vars =>
        [\A n \in Name : (pc # "idle" /\ n \in UnknownNames /\ workerVars' # workerVars)
                             => rbs'[n] = rbs[n]]_vars
  BY StepLeavesAlone
<1> QED
  BY <1>1, <1>2, <1>3, TypeCorrect, PTL DEF Spec, UnknownLeavesAlone

-----------------------------------------------------------------------------
(* Every binding was asked for *)

\* An upstream answer that is an error other than NotFound gives no list.
LEMMA FatalAnswerFails ==
    ASSUME NEW ms, NEW g, NEW a, a.err # "nil", ~IsNotFound(a.err)
    PROVE  ResolveMembers(ms, g, a).err # "nil"
<1> DEFINE own     == GroupMapMembers(GroupMapOf(ms), g)
           answers == <<own, a>>
           fatal   == {i \in DOMAIN answers :
                         answers[i].err # "nil" /\ ~IsNotFound(answers[i].err)}
           first   == CHOOSE i \in fatal : \A j \in fatal : i <= j
<1> HIDE DEF own
<1>1. DOMAIN answers = {1, 2} /\ answers[1] = own /\ answers[2] = a
  OBVIOUS
<1>2. fatal \subseteq {1, 2} /\ 2 \in fatal
  BY <1>1
<1>3. first \in fatal
  <2>1. \E i \in fatal : \A j \in fatal : i <= j
    <3>1. CASE 1 \in fatal
      <4>1. \A j \in fatal : 1 <= j
        BY <1>2
      <4> HIDE DEF fatal
      <4> QED
        BY <3>1, <4>1
    <3>2. CASE 1 \notin fatal
      <4>1. \A j \in fatal : 2 <= j
        BY <1>2, <3>2
      <4> HIDE DEF fatal
      <4> QED
        BY <1>2, <4>1
    <3> QED
      BY <3>1, <3>2
  <2> HIDE DEF fatal
  <2> QED
    BY <2>1
<1>4. answers[first].err # "nil"
  BY <1>3
<1>5. MergedMembers(answers) = Failure(answers[first].err)
  BY <1>2 DEF MergedMembers
<1>6. MergedMembers(answers).err = answers[first].err
  <2>1. \A x : Failure(x).err = x
    BY DEF Failure
  <2> HIDE DEF answers, first
  <2> QED
    BY <1>5, <2>1
<1> QED
  BY <1>4, <1>6 DEF ResolveMembers, own

LEMMA FailureFails ==
    ASSUME NEW ms, NEW g, NEW e \in {"unknown", "timeout", "canceled"}
    PROVE  ResolveMembers(ms, g, Failure(e)).err # "nil"
<1>1. Failure(e).err = e
  BY DEF Failure
<1> QED
  BY <1>1, FatalAnswerFails DEF IsNotFound

LEMMA EditsKeepUpstream ==
    ASSUME TypeOK,
           \/ Users
           \/ \E n \in Name : GarbageCollect(n) \/ RefreshBinding(n)
           \/ UNCHANGED vars
    PROVE  \A g \in Group : \A j \in DOMAIN upstream[g] :
              /\ j \in DOMAIN upstream'[g]
              /\ upstream'[g][j] = upstream[g][j]
<1>1. CASE UNCHANGED upstream
  BY <1>1
<1>2. ASSUME NEW h \in Group, NEW a \in Answer, upstream' = [upstream EXCEPT ![h] = Append(@, a)]
      PROVE  \A g \in Group : \A j \in DOMAIN upstream[g] :
                j \in DOMAIN upstream'[g] /\ upstream'[g][j] = upstream[g][j]
  <2>1. \A g \in Group : upstream[g] \in Seq(Answer)
    BY DEF TypeOK, WorldTypes
  <2>2. \A g \in Group : upstream'[g] = upstream[g] \/ upstream'[g] = Append(upstream[g], a)
    BY <1>2 DEF TypeOK, WorldTypes
  <2> QED
    BY <2>1, <2>2
<1>3. \/ UNCHANGED upstream
      \/ \E h \in Group, a \in Answer : upstream' = [upstream EXCEPT ![h] = Append(@, a)]
  BY ControllerAssumption
  DEF Users, CreateConfig, UpdateConfig, DeleteConfig, Edit, EditUpstream,
     DeleteBindingByHand, RemoveBinding, GarbageCollect, RefreshBinding, vars
<1> QED
  BY <1>1, <1>2, <1>3

\* The histories of configs and groups only grow.
WorldGrows ==
    /\ \A c \in Config : \A i \in DOMAIN history[c] :
          i \in DOMAIN history'[c] /\ history'[c][i] = history[c][i]
    /\ \A g \in Group : \A j \in DOMAIN upstream[g] :
          j \in DOMAIN upstream'[g] /\ upstream'[g][j] = upstream[g][j]

\* What the pass works on was a version of the config, and what it is about to
\* write was resolved from an upstream answer and that version.
FromVersion == InPass => \E i \in DOMAIN history[key] : history[key][i] = cfg

Resolved ==
    pc \in {"update", "create"} =>
        /\ Entry.kind \in ValidKinds /\ members # {}
        /\ \E j \in DOMAIN upstream[Entry.group] :
              ResolveMembers(cfg.spec.memberships, Entry.group, upstream[Entry.group][j])
                = Success(members)

Provenance == FromVersion /\ Resolved /\ Justified

\* Why rb may be named n.
JustifiedAs(n, rb) ==
    \E v \in Range(history[rb.owner.config]) :
        /\ Present(v) /\ v.uid = rb.owner.uid
        /\ Grants(rb.owner.config, v, n, rb)

LEMMA JustifiedAsLasts ==
    ASSUME WorldGrows, NEW n, NEW rb \in Binding, JustifiedAs(n, rb)
    PROVE  JustifiedAs(n, rb)'
<1> DEFINE c == rb.owner.config
<1>1. rb.group \in Group /\ c \in Config
  BY DEF Binding, Owner
<1>2. PICK v \in Range(history[c]) : Present(v) /\ v.uid = rb.owner.uid /\ Grants(c, v, n, rb)
  BY DEF JustifiedAs
<1>3. v \in Range(history'[c])
  <2>1. PICK i \in DOMAIN history[c] : history[c][i] = v
    BY DEF Range
  <2> QED
    BY <1>1, <2>1 DEF WorldGrows, Range
<1>4. Grants(c, v, n, rb)'
  <2> HIDE DEF c
  <2> QED
    BY <1>1, <1>2 DEF Grants, WorldGrows
<1> QED
  BY <1>2, <1>3, <1>4 DEF JustifiedAs

LEMMA JustifiedLasts ==
    ASSUME TypeOK, Justified, WorldGrows, \A n \in Name : rbs'[n] \in {rbs[n], Absent}
    PROVE  Justified'
<1>1. ASSUME NEW n \in Name, rbs'[n] # Absent PROVE JustifiedAs(n, rbs[n])' /\ rbs'[n] = rbs[n]
  <2>1. PICK rb \in Binding : rb = rbs[n]
    BY <1>1 DEF TypeOK, WorldTypes
  <2>2. rbs'[n] = rb /\ rb # Absent
    BY <1>1, <2>1
  <2>3. JustifiedAs(n, rb)
    BY <2>1, <2>2 DEF Justified, JustifiedAs
  <2>4. JustifiedAs(n, rb)'
    BY <2>3, JustifiedAsLasts
  <2> QED
    BY <2>1, <2>2, <2>4
<1> QED
  BY <1>1 DEF Justified, JustifiedAs

LEMMA NextGrows == ASSUME TypeOK, [Next]_vars PROVE WorldGrows
<1>1. CASE \/ Users
           \/ \E n \in Name : GarbageCollect(n) \/ RefreshBinding(n)
           \/ UNCHANGED vars
  BY <1>1, EditsKeepHistory, EditsKeepUpstream DEF WorldGrows
<1>2. CASE UNCHANGED worldVars
  BY <1>2 DEF WorldGrows
<1>3. CASE \/ \E c \in Config : Sync(c) \/ AddReady(c)
           \/ Poll \/ Start \/ Stop \/ Exit \/ Dequeue
           \/ LoadMissing \/ SelectorError \/ Finish
  BY <1>2, <1>3 DEF Sync, AddReady, Poll, Start, Stop, Exit, Dequeue, LoadMissing,
     SelectorError, Finish, EndPass
<1> QED
  BY <1>1, <1>2, <1>3, WorkerQuiet DEF Next, Worker

\* Steps of others, and of the worker where it neither resolves nor writes.
LEMMA WorkerStandsStill ==
    ASSUME TypeOK, Provenance, WorldGrows, UNCHANGED <<key, cfg, outcome, members>>,
           pc' = pc \/ (pc = "update" /\ pc' = "create"),
           \A n \in Name : rbs'[n] \in {rbs[n], Absent}
    PROVE  Provenance'
<1>1. FromVersion'
  <2> SUFFICES ASSUME InPass' PROVE \E i \in DOMAIN history'[key] : history'[key][i] = cfg
    BY DEF FromVersion
  <2>1. InPass /\ key \in Config
    BY DEF InPass, TypeOK, WorkerTypes
  <2> QED
    BY <2>1 DEF Provenance, FromVersion, WorldGrows
<1>2. Resolved'
  <2> SUFFICES ASSUME pc' \in {"update", "create"} PROVE Resolved'
    BY DEF Resolved
  <2>1. pc \in {"update", "create"}
    OBVIOUS
  <2>2. HasEntry
    BY <2>1 DEF TypeOK, WorkerTypes, HasEntry, Entries
  <2>3. Entry.group \in Group
    BY <2>1, <2>2, EntryType DEF TypeOK, BindingEntry
  <2>4. Entry' = Entry
    BY DEF Entry, Entries
  <2>5. PICK j \in DOMAIN upstream[Entry.group] :
          ResolveMembers(cfg.spec.memberships, Entry.group, upstream[Entry.group][j])
            = Success(members)
    BY <2>1 DEF Provenance, Resolved
  <2>6. /\ j \in DOMAIN upstream'[Entry.group]
        /\ upstream'[Entry.group][j] = upstream[Entry.group][j]
    BY <2>3 DEF WorldGrows
  <2>7. Entry.kind \in ValidKinds /\ members # {}
    BY <2>1 DEF Provenance, Resolved
  <2> HIDE DEF Entry
  <2>8. ResolveMembers(cfg.spec.memberships, Entry.group, upstream'[Entry.group][j])
          = Success(members)
    BY <2>5, <2>6
  <2> QED
    BY <2>4, <2>6, <2>7, <2>8 DEF Resolved
<1> QED
  BY <1>1, <1>2, JustifiedLasts DEF Provenance

\* Steps after which nothing is about to be written.
LEMMA NothingToWrite ==
    ASSUME TypeOK, Provenance, WorldGrows, pc' \notin {"update", "create"},
           pc' \in {"idle", "load"} \/ (InPass /\ UNCHANGED <<key, cfg>>),
           \A n \in Name : rbs'[n] \in {rbs[n], Absent}
    PROVE  Provenance'
<1>1. FromVersion'
  <2> SUFFICES ASSUME InPass' PROVE \E i \in DOMAIN history'[key'] : history'[key'][i] = cfg'
    BY DEF FromVersion
  <2>1. InPass /\ key \in Config /\ UNCHANGED <<key, cfg>>
    BY DEF InPass, TypeOK, WorkerTypes
  <2> QED
    BY <2>1 DEF Provenance, FromVersion, WorldGrows
<1> QED
  BY <1>1, JustifiedLasts DEF Provenance, Resolved

LEMMA LoadProvenance == ASSUME TypeOK, Provenance, Load PROVE Provenance'
<1>1. /\ pc' = "bindings" /\ cfg' = Cached(key) /\ key' = key
      /\ UNCHANGED <<history, upstream, rbs>>
  BY DEF Load
<1>2. key \in Config
  BY DEF Load, TypeOK, WorkerTypes
<1>3. seen[key] \in DOMAIN history[key]
  BY <1>2, LiveType DEF TypeOK, WorldTypes
<1>4. FromVersion'
  BY <1>1, <1>3 DEF FromVersion, Cached
<1>5. WorldGrows
  BY <1>1 DEF WorldGrows
<1> QED
  BY <1>1, <1>4, <1>5, JustifiedLasts DEF Provenance, Resolved

\* A lookup that gives a list gives what the last upstream answer came to.
LEMMA ResolveProvenance == ASSUME TypeOK, Provenance, Resolve PROVE Provenance'
<1>1. /\ AtEntry /\ pc' = "update" /\ UNCHANGED <<history, upstream, rbs, key, cfg, outcome>>
  BY DEF Resolve
<1>2. PICK m \in Answer : Lookup(m) /\ m.err = "nil" /\ m.subjects # {} /\ members' = m.subjects
  BY DEF Resolve
<1>3. Entry.kind \in ValidKinds /\ Entry.group \in Group
  BY <1>1, <1>2, EntryType DEF Lookup, AtEntry, TypeOK, BindingEntry
<1>4. Entry' = Entry
  BY <1>1 DEF Entry, Entries
<1> DEFINE answers == upstream[Entry.group]
           last    == Len(answers)
<1>5. last \in DOMAIN answers
  <2>1. answers \in Seq(Answer) /\ answers # <<>>
    BY <1>3 DEF TypeOK, WorldTypes
  <2> QED
    BY <2>1
<1>6. m = ResolveMembers(cfg.spec.memberships, Entry.group, answers[last])
  <2>1. \/ m = ResolveMembers(cfg.spec.memberships, Entry.group, answers[last])
        \/ \E e \in {"unknown", "timeout", "canceled"} :
              m = ResolveMembers(cfg.spec.memberships, Entry.group, Failure(e))
    BY <1>2 DEF Lookup
  <2> QED
    BY <1>2, <2>1, FailureFails
<1>7. m = Success(members')
  <2>1. m \in {Success(S) : S \in SUBSET Subject}
    <3>1. \A e \in Errors : Failure(e).err # "nil"
      BY DEF Failure, Errors
    <3> QED
      BY <1>2, <3>1 DEF Answer
  <2>2. PICK S \in SUBSET Subject : m = Success(S)
    BY <2>1
  <2>3. m.subjects = S
    BY <2>2 DEF Success
  <2> QED
    BY <1>2, <2>2, <2>3
<1>8. Resolved'
  <2> HIDE DEF last
  <2>1. \E j \in DOMAIN upstream'[Entry'.group] :
          ResolveMembers(cfg'.spec.memberships, Entry'.group, upstream'[Entry'.group][j])
            = Success(members')
    BY <1>1, <1>4, <1>5, <1>6, <1>7
  <2>2. Entry'.kind \in ValidKinds /\ members' # {}
    BY <1>2, <1>3, <1>4
  <2> QED
    BY <2>1, <2>2 DEF Resolved
<1>9. FromVersion'
  BY <1>1 DEF FromVersion, Provenance, AtEntry, InPass
<1>10. WorldGrows
  BY <1>1 DEF WorldGrows
<1> QED
  BY <1>1, <1>8, <1>9, <1>10, JustifiedLasts DEF Provenance

\* A binding that is written is what the pass resolved for its entry.
LEMMA WrittenProvenance ==
    ASSUME TypeOK, Provenance, pc \in {"update", "create"}, Written, pc' = "bindings",
           UNCHANGED <<history, upstream, key, cfg>>
    PROVE  Provenance'
<1>1. InPass /\ HasEntry
  BY DEF InPass, TypeOK, WorkerTypes, HasEntry, Entries
<1>2. /\ NameOf(Entry) \in Name /\ key \in Config /\ Entry.group \in Group
      /\ Len(outcome) + 1 \in DOMAIN Entries
  BY <1>1, EntryType DEF TypeOK, BindingEntry
<1>3. PICK n \in Name : n = NameOf(Entry)
  BY <1>2
<1>4. PICK rb : rb = Desired
  OBVIOUS
<1>5. /\ rb.owner.config = key /\ rb.owner.uid = cfg.uid
      /\ rb.group = Entry.group /\ rb.kind = Entry.kind /\ rb.role = Entry.role
      /\ rb.subjects = members
  BY <1>4 DEF Desired, Self
<1>6. rbs'[n] = rb /\ \A m \in Name \ {n} : rbs'[m] = rbs[m]
  BY <1>3, <1>4 DEF Written, TypeOK, WorldTypes
<1>7. Grants(key, cfg, n, rb)
  <2>1. PICK j \in DOMAIN upstream[Entry.group] :
          ResolveMembers(cfg.spec.memberships, Entry.group, upstream[Entry.group][j])
            = Success(members)
    BY DEF Provenance, Resolved
  <2>2. Entry.kind \in ValidKinds /\ members # {}
    BY DEF Provenance, Resolved
  <2>3. /\ Len(outcome) + 1 \in DOMAIN cfg.spec.bindings
        /\ Entry = cfg.spec.bindings[Len(outcome) + 1]
    BY <1>2 DEF Entry, Entries
  <2>4. n = BindingName(key, Entry.group, Entry.role)
    BY <1>3 DEF NameOf
  <2> HIDE DEF Entry
  <2> QED
    BY <1>5, <2>1, <2>2, <2>3, <2>4 DEF Grants
<1>8. JustifiedAs(n, rb)
  <2>1. cfg \in Range(history[key]) /\ Present(cfg)
    <3>1. Present(cfg)
      BY <1>1 DEF TypeOK, WorkerTypes, InPass
    <3> QED
      BY <1>1, <3>1 DEF Provenance, FromVersion, Range
  <2> QED
    BY <1>5, <1>7, <2>1 DEF JustifiedAs
<1>9. ASSUME NEW m \in Name, NEW b, b = rbs'[m], b # Absent PROVE JustifiedAs(m, b)
  <2>1. CASE m = n
    BY <1>6, <1>8, <1>9, <2>1
  <2>2. CASE m # n
    <3>1. b = rbs[m]
      BY <1>6, <1>9, <2>2
    <3> QED
      BY <1>9, <3>1 DEF Provenance, Justified, JustifiedAs
  <2> QED
    BY <2>1, <2>2
<1>10. Justified'
  <2>1. \A m, b : JustifiedAs(m, b)' <=> JustifiedAs(m, b)
    BY DEF JustifiedAs, Grants
  <2>2. ASSUME NEW m \in Name, rbs'[m] # Absent PROVE JustifiedAs(m, rbs[m])'
    <3>1. PICK b : b = rbs'[m]
      OBVIOUS
    <3>2. JustifiedAs(m, b)'
      BY <1>9, <2>1, <2>2, <3>1
    <3> QED
      BY <3>1, <3>2
  <2> QED
    BY <2>2 DEF Justified, JustifiedAs
<1>11. FromVersion'
  BY <1>1 DEF FromVersion, Provenance, InPass
<1> QED
  BY <1>10, <1>11 DEF Provenance, Resolved

LEMMA NextProvenance == ASSUME TypeOK, Provenance, [Next]_vars PROVE Provenance'
<1>0. WorldGrows
  BY NextGrows
<1>1. CASE \/ Users
           \/ \E n \in Name : GarbageCollect(n) \/ RefreshBinding(n)
           \/ UNCHANGED vars
  <2>1. \A n \in Name : rbs'[n] \in {rbs[n], Absent}
    BY <1>1 DEF Users, CreateConfig, UpdateConfig, DeleteConfig, Edit, EditUpstream,
       DeleteBindingByHand, RemoveBinding, GarbageCollect, RefreshBinding, vars,
       TypeOK, WorldTypes
  <2> QED
    BY <1>0, <1>1, <2>1, UsersQuiet, WorkerStandsStill
<1>2. CASE \/ \E c \in Config : Sync(c) \/ AddReady(c)
           \/ Poll \/ Start \/ Stop
  BY <1>0, <1>2, WorkerStandsStill DEF Sync, AddReady, Poll, Start, Stop
<1>3. CASE Exit \/ LoadMissing \/ SelectorError \/ Finish \/ Dequeue
  BY <1>0, <1>3, NothingToWrite DEF Exit, LoadMissing, SelectorError, Finish, EndPass,
     IdleWorker, Dequeue
<1>4. CASE Load
  BY <1>4, LoadProvenance
<1>5. CASE RejectKind \/ NoMembers \/ KeepUnknown \/ IgnoreDuplicate
  BY <1>0, <1>5, NothingToWrite DEF RejectKind, NoMembers, KeepUnknown, IgnoreDuplicate,
     Skip, Lookup, AtEntry, InPass
<1>6. CASE Resolve
  BY <1>6, ResolveProvenance
<1>7. CASE UpdateNotFound
  BY <1>0, <1>7, WorkerStandsStill DEF UpdateNotFound
<1>8. CASE UpdateOk \/ CreateOk
  BY <1>8, WrittenProvenance DEF UpdateOk, CreateOk, Wrote
<1>9. CASE UpdateRefused \/ CreateRefused
  BY <1>0, <1>9, NothingToWrite DEF UpdateRefused, CreateRefused, Wrote, InPass
<1>10. CASE WriteFails
  <2>1. CASE Written
    BY <1>10, <2>1, WrittenProvenance DEF WriteFails, Wrote
  <2>2. CASE UNCHANGED rbs
    BY <1>0, <1>10, <2>2, NothingToWrite DEF WriteFails, Wrote, InPass
  <2> QED
    BY <1>10, <2>1, <2>2 DEF WriteFails
<1>11. CASE ListChildren \/ \E n \in Name : DeleteChild(n) \/ DeleteFails(n)
  <2>1. /\ pc' = "cleanup" /\ InPass /\ UNCHANGED <<key, cfg>>
        /\ \A n \in Name : rbs'[n] \in {rbs[n], Absent}
    BY <1>11 DEF ListChildren, DeleteChild, DeleteFails, InPass, TypeOK, WorldTypes
  <2> QED
    BY <1>0, <2>1, NothingToWrite
<1> QED
  BY <1>1, <1>2, <1>3, <1>4, <1>5, <1>6, <1>7, <1>8, <1>9, <1>10, <1>11 DEF Next, Worker

\* No binding holds more than one version of its owner asked for and one upstream
\* answer gave: a pass that mixes stale caches, failed lookups, restarts and edits
\* grants nobody a role on the strength of two of them.
THEOREM EveryBindingJustified == Spec => []Justified
<1>1. Init => Provenance
  <2> SUFFICES ASSUME Init PROVE Provenance
    OBVIOUS
  <2>1. pc = "idle" /\ \A n \in Name : rbs[n] = Absent
    BY DEF Init
  <2> QED
    BY <2>1 DEF Provenance, FromVersion, Resolved, Justified, InPass
<1>2. TypeOK /\ Provenance /\ [Next]_vars => Provenance'
  BY NextProvenance
<1>3. Provenance => Justified
  BY DEF Provenance
<1> QED
  BY <1>1, <1>2, <1>3, TypeCorrect, PTL DEF Spec

-----------------------------------------------------------------------------
(* The controller keeps bindings as BindingKeeper may *)

\* A list that is found holds what the memberships list for the group and what
\* upstream answered, which was a list or NotFound.
LEMMA ListIsAsked ==
    ASSUME NEW ms \in Seq(Membership), NEW g, NEW a \in Answer, NEW S,
           ResolveMembers(ms, g, a) = Success(S)
    PROVE  /\ a.err \in {"nil", "notFound"}
           /\ S = (UNION {ms[i].subjects : i \in {k \in DOMAIN ms : ms[k].group = g}})
                    \union a.subjects
<1> DEFINE listed  == UNION {ms[i].subjects : i \in {k \in DOMAIN ms : ms[k].group = g}}
           own     == GroupMapMembers(GroupMapOf(ms), g)
           answers == <<own, a>>
           union   == UNION {answers[i].subjects : i \in DOMAIN answers}
<1>1. /\ \A x : Success(x).err = "nil" /\ Success(x).subjects = x
      /\ \A x : Failure(x).err = x /\ Failure(x).subjects = {}
  BY DEF Success, Failure
<1>2. a.err \in {"nil", "notFound"}
  BY <1>1, FatalAnswerFails DEF IsNotFound
<1>3. own.err \in {"nil", "notFound"} /\ own.subjects = listed
  <2> DEFINE filled == {m \in Range(ms) : m.subjects # {}}
  <2>1. CASE g \in DOMAIN GroupMapOf(ms)
    <3>1. own = Success(UNION {m.subjects : m \in {f \in filled : f.group = g}})
      BY <2>1 DEF GroupMapMembers, GroupMapOf
    <3>2. UNION {m.subjects : m \in {f \in filled : f.group = g}} = listed
      BY DEF Range
    <3> QED
      BY <1>1, <3>1, <3>2
  <2>2. CASE g \notin DOMAIN GroupMapOf(ms)
    <3>1. own = Failure("notFound")
      BY <2>2 DEF GroupMapMembers
    <3>2. \A m \in filled : m.group # g
      BY <2>2 DEF GroupMapOf
    <3>3. listed = {}
      BY <3>2 DEF Range
    <3> QED
      BY <1>1, <3>1, <3>3
  <2> QED
    BY <2>1, <2>2
<1>4. union = listed \union a.subjects
  <2> HIDE DEF own
  <2>1. DOMAIN answers = {1, 2} /\ answers[1] = own /\ answers[2] = a
    OBVIOUS
  <2> HIDE DEF answers, listed
  <2> QED
    BY <1>3, <2>1
<1>5. MergedMembers(answers) = IF union = {} THEN Failure("notFound") ELSE Success(union)
  <2> HIDE DEF own
  <2>1. {i \in DOMAIN answers : answers[i].err # "nil" /\ ~IsNotFound(answers[i].err)} = {}
    BY <1>2, <1>3 DEF IsNotFound
  <2> QED
    BY <2>1 DEF MergedMembers
<1>6. union = S
  <2>1. MergedMembers(answers) = Success(S)
    BY DEF ResolveMembers
  <2> HIDE DEF union, answers
  <2> QED
    BY <1>1, <1>5, <2>1
<1> QED
  BY <1>2, <1>4, <1>6

\* The names the pass is done with are active.
SettledActive == Settled \subseteq active

LEMMA SettledGrows ==
    ASSUME TypeOK, AtEntry \/ pc \in {"update", "create"}, NEW o \in Outcomes,
           Record(o), UNCHANGED <<key, cfg>>, InPass'
    PROVE  Settled' = IF o \in {"unknown", "configured"}
                        THEN Settled \union {NameOf(Entry)} ELSE Settled
<1> DEFINE done == {j \in DOMAIN outcome : outcome[j] \in {"unknown", "configured"}}
<1>1. /\ outcome \in Seq(Outcomes) /\ Len(outcome) \in Nat
      /\ outcome' = Append(outcome, o)
  BY DEF TypeOK, WorkerTypes, Record
<1>2. /\ DOMAIN outcome = 1..Len(outcome)
      /\ DOMAIN outcome' = 1..Len(outcome) \union {Len(outcome) + 1}
      /\ \A i \in 1..Len(outcome) : outcome'[i] = outcome[i]
      /\ outcome'[Len(outcome) + 1] = o
  BY <1>1
<1>3. done' = done \union (IF o \in {"unknown", "configured"} THEN {Len(outcome) + 1} ELSE {})
  BY <1>2
<1>4. \A i : NameOf(Entries[i])' = NameOf(Entries[i])
  BY DEF NameOf, Entries
<1>5. Settled = {NameOf(Entries[i]) : i \in done}
  BY DEF Settled, InPass, AtEntry
<1>6. Settled' = {NameOf(Entries[i]) : i \in done'}
  BY <1>4 DEF Settled
<1> HIDE DEF done
<1> QED
  BY <1>3, <1>5, <1>6 DEF Entry

LEMMA SettledStays ==
    ASSUME UNCHANGED <<key, cfg, outcome>>, InPass' = InPass
    PROVE  Settled' = Settled
BY DEF Settled, NameOf, Entries

LEMMA NoneSettled ==
    ASSUME TypeOK', ~InPass' \/ outcome' = <<>>
    PROVE  Settled' = {}
BY DEF Settled

LEMMA SkipSettles ==
    ASSUME TypeOK, AtEntry, NEW o \in Outcomes, Skip(o)
    PROVE  Settled' = IF o \in {"unknown", "configured"}
                        THEN Settled \union {NameOf(Entry)} ELSE Settled
<1>1. InPass' /\ Record(o) /\ UNCHANGED <<key, cfg>>
  BY DEF Skip, AtEntry, InPass
<1> QED
  BY <1>1, SettledGrows

LEMMA WroteSettles ==
    ASSUME TypeOK, pc \in {"update", "create"}, NEW o \in Outcomes, Wrote(o)
    PROVE  Settled' = IF o \in {"unknown", "configured"}
                        THEN Settled \union {NameOf(Entry)} ELSE Settled
<1>1. InPass' /\ Record(o) /\ UNCHANGED <<key, cfg>>
  BY DEF Wrote, InPass
<1> QED
  BY <1>1, SettledGrows

LEMMA NextSettled ==
    ASSUME TypeOK, TypeOK', SettledActive, [Next]_vars
    PROVE  SettledActive'
<1>1. CASE \/ Users
           \/ \E n \in Name : GarbageCollect(n) \/ RefreshBinding(n)
           \/ UNCHANGED vars
  BY <1>1, UsersQuiet, SettledStays DEF SettledActive, InPass
<1>2. CASE \/ \E c \in Config : Sync(c) \/ AddReady(c)
           \/ Poll \/ Start \/ Stop
  BY <1>2, SettledStays DEF SettledActive, InPass, Sync, AddReady, Poll, Start, Stop
<1>3. CASE Exit \/ LoadMissing \/ SelectorError \/ Finish \/ Dequeue
  BY <1>3, NoneSettled DEF SettledActive, InPass, Exit, LoadMissing, SelectorError, Finish,
     EndPass, IdleWorker, Dequeue
<1>4. CASE Load
  BY <1>4, NoneSettled DEF SettledActive, Load, TypeOK, WorkerTypes
<1>5. CASE RejectKind \/ NoMembers \/ IgnoreDuplicate
  <2>1. PICK o \in {"invalid", "noMembers", "duplicate"} : Skip(o) /\ AtEntry /\ UNCHANGED active
    BY <1>5 DEF RejectKind, NoMembers, IgnoreDuplicate, Lookup
  <2> QED
    BY <2>1, SkipSettles DEF SettledActive, Outcomes
<1>6. CASE KeepUnknown
  <2>1. Skip("unknown") /\ AtEntry /\ active' = active \union {NameOf(Entry)}
    BY <1>6 DEF KeepUnknown, Lookup
  <2> QED
    BY <2>1, SkipSettles DEF SettledActive, Outcomes
<1>7. CASE Resolve \/ UpdateNotFound
  BY <1>7, SettledStays DEF SettledActive, InPass, Resolve, AtEntry, UpdateNotFound
<1>8. CASE UpdateOk \/ UpdateRefused \/ CreateOk \/ CreateRefused \/ WriteFails
  <2>1. PICK o \in {"configured", "failed"} : Wrote(o) /\ pc \in {"update", "create"}
    BY <1>8 DEF UpdateOk, UpdateRefused, CreateOk, CreateRefused, WriteFails
  <2>2. Settled' = IF o = "configured" THEN Settled \union {NameOf(Entry)} ELSE Settled
    BY <2>1, WroteSettles DEF Outcomes
  <2> QED
    BY <2>1, <2>2 DEF SettledActive, Wrote
<1>9. CASE ListChildren \/ \E n \in Name : DeleteChild(n) \/ DeleteFails(n)
  BY <1>9, SettledStays DEF SettledActive, InPass, ListChildren, DeleteChild, DeleteFails
<1> QED
  BY <1>1, <1>2, <1>3, <1>4, <1>5, <1>6, <1>7, <1>8, <1>9 DEF Next, Worker

\* A step that the keeper does not see.
LEMMA KeeperRests ==
    ASSUME UNCHANGED <<worldVars, rbs, seen>>, spent'["edit"] = spent["edit"],
           Settled' = Settled,
           \/ InPass /\ InPass' /\ UNCHANGED <<key, cfg>>
           \/ ~InPass /\ ~InPass'
    PROVE  UNCHANGED Keeper!vars
BY DEF Keeper!vars, Keeper!world, Keeper!keeper

\* The names, the versions and the bindings of a pass are the keeper's.
LEMMA KeeperPass ==
    ASSUME InPass
    PROVE  /\ Keeper!Object = Self
           /\ \A i \in DOMAIN Entries :
                 Entries[i].kind \in ValidKinds => i \in Keeper!Claims(NameOf(Entries[i]))
BY DEF Keeper!Object, Self, Keeper!Claims, Entries, NameOf, BindingName

LEMMA FaultIsNoEdit ==
    ASSUME TypeOK, UNCHANGED spent \/ Spend("fault", MaxFaults) \/ Spend("crash", MaxCrashes)
    PROVE  spent'["edit"] = spent["edit"]
BY DEF Spend, TypeOK, SpentTypes

LEMMA EditIsEdit ==
    ASSUME TypeOK, Spend("edit", MaxEdits)
    PROVE  spent'["edit"] = spent["edit"] + 1
BY DEF Spend, TypeOK, SpentTypes

LEMMA UsersKeep == ASSUME TypeOK, Users PROVE Keeper!Next
<1>1. UNCHANGED <<seen, key, cfg>> /\ InPass' = InPass /\ Settled' = Settled
  BY UsersQuiet, SettledStays DEF InPass
<1>2. UNCHANGED Keeper!keeper
  BY <1>1 DEF Keeper!keeper
<1>3. ASSUME NEW c \in Config, NEW s \in Specs \union {NoSpec},
             Edit(c, [uid |-> IF Live(c).spec = NoSpec THEN Live(c).uid + 1 ELSE Live(c).uid,
                      spec |-> s])
      PROVE  Keeper!EditConfig(c, s)
  BY <1>2, <1>3, EditIsEdit DEF Edit, Keeper!EditConfig, Keeper!Live, Live
<1>4. ASSUME NEW c \in Config, NEW s \in Specs, CreateConfig(c, s) \/ UpdateConfig(c, s)
      PROVE  Keeper!EditConfig(c, s)
  BY <1>3, <1>4 DEF CreateConfig, UpdateConfig, Present
<1>5. ASSUME NEW c \in Config, DeleteConfig(c)
      PROVE  Keeper!EditConfig(c, NoSpec)
  BY <1>3, <1>5 DEF DeleteConfig, Present
<1>6. ASSUME NEW g \in Group, NEW a \in UpstreamAnswers, EditUpstream(g, a)
      PROVE  Keeper!EditUpstream(g, a)
  BY <1>2, <1>6, EditIsEdit DEF EditUpstream, Keeper!EditUpstream
<1>7. ASSUME NEW n \in Name, DeleteBindingByHand(n)
      PROVE  Keeper!RemoveByHand(n)
  BY <1>2, <1>7, EditIsEdit DEF DeleteBindingByHand, RemoveBinding, Keeper!RemoveByHand
<1> QED
  BY <1>4, <1>5, <1>6, <1>7 DEF Users, Keeper!Next

LEMMA CollectKeeps ==
    ASSUME TypeOK, NEW n \in Name, GarbageCollect(n)
    PROVE  Keeper!Next
<1>1. UNCHANGED <<worldVars, seen, key, cfg, spent>> /\ InPass' = InPass /\ Settled' = Settled
  BY SettledStays DEF InPass, GarbageCollect, RemoveBinding
<1>2. UNCHANGED <<Keeper!world, Keeper!keeper>>
  BY <1>1 DEF Keeper!world, Keeper!keeper
<1>3. Keeper!Collect(n)
  BY <1>2 DEF GarbageCollect, RemoveBinding, OwnerIsLive, Present, Live, Keeper!Live, Keeper!Collect
<1> QED
  BY <1>3 DEF Keeper!Next

LEMMA AroundKeeps ==
    ASSUME TypeOK, \/ \E n \in Name : RefreshBinding(n)
                   \/ \E c \in Config : Sync(c) \/ AddReady(c)
                   \/ Poll \/ Start \/ Stop
    PROVE  Keeper!Next \/ UNCHANGED Keeper!vars
<1>1. /\ UNCHANGED <<worldVars, rbs, workerVars>> /\ InPass' = InPass
      /\ spent'["edit"] = spent["edit"] /\ Settled' = Settled
  BY SettledStays, FaultIsNoEdit DEF InPass, RefreshBinding, Sync, AddReady, Poll, Start, Stop
<1>2. CASE UNCHANGED seen
  BY <1>1, <1>2, KeeperRests
<1>3. ASSUME NEW c \in Config, Sync(c) PROVE Keeper!Next
  <2>1. Keeper!Learn(c)
    BY <1>1, <1>3 DEF Sync, Keeper!Learn, Keeper!world
  <2> QED
    BY <2>1 DEF Keeper!Next
<1> QED
  BY <1>2, <1>3 DEF RefreshBinding, AddReady, Poll, Start, Stop

LEMMA EndKeeps ==
    ASSUME TypeOK, TypeOK', Exit \/ LoadMissing \/ SelectorError \/ Finish
    PROVE  Keeper!Next
<1>1. /\ UNCHANGED <<worldVars, rbs, seen>> /\ ~InPass' /\ spent'["edit"] = spent["edit"]
  BY FaultIsNoEdit DEF InPass, Exit, LoadMissing, SelectorError, Finish, EndPass, IdleWorker
<1>2. Settled' = {}
  BY <1>1, NoneSettled
<1>3. Keeper!End
  BY <1>1, <1>2 DEF Keeper!End, Keeper!world
<1> QED
  BY <1>3 DEF Keeper!Next

LEMMA DequeueKeeps ==
    ASSUME TypeOK, TypeOK', Dequeue
    PROVE  UNCHANGED Keeper!vars
<1>1. /\ UNCHANGED <<worldVars, rbs, seen, spent>> /\ ~InPass /\ ~InPass'
  BY DEF InPass, Dequeue
<1>2. Settled' = Settled
  BY <1>1, NoneSettled DEF Settled
<1> QED
  BY <1>1, <1>2, KeeperRests

LEMMA LoadKeeps == ASSUME TypeOK, TypeOK', Load PROVE Keeper!Next
<1>1. /\ ~InPass /\ InPass' /\ key' = key /\ key \in Config /\ cfg' = Cached(key)
      /\ Present(Cached(key)) /\ UNCHANGED <<worldVars, rbs, seen, spent>>
  BY DEF InPass, Load, TypeOK, WorkerTypes
<1>2. Settled' = {}
  BY NoneSettled DEF Load, TypeOK, WorkerTypes
<1>3. Keeper!Begin(key)
  BY <1>1, <1>2 DEF Keeper!Begin, Keeper!world, Cached, Present
<1> QED
  BY <1>1, <1>3 DEF Keeper!Next

LEMMA EntriesKeep ==
    ASSUME TypeOK, RejectKind \/ NoMembers \/ KeepUnknown \/ IgnoreDuplicate \/ Resolve
                   \/ UpdateNotFound \/ UpdateRefused \/ CreateRefused \/ ListChildren
    PROVE  Keeper!Next \/ UNCHANGED Keeper!vars
<1>1. /\ UNCHANGED <<worldVars, rbs, seen, key, cfg>> /\ InPass /\ InPass'
      /\ spent'["edit"] = spent["edit"]
  BY FaultIsNoEdit
  DEF InPass, RejectKind, NoMembers, KeepUnknown, IgnoreDuplicate, Resolve, UpdateNotFound,
      UpdateRefused, CreateRefused, ListChildren, Skip, Wrote, Lookup, AtEntry
<1>2. CASE Settled' = Settled
  BY <1>1, <1>2, KeeperRests
<1>3. CASE RejectKind \/ NoMembers \/ IgnoreDuplicate
  <2>1. PICK o \in {"invalid", "noMembers", "duplicate"} : Skip(o) /\ AtEntry
    BY <1>3 DEF RejectKind, NoMembers, IgnoreDuplicate, Lookup
  <2> QED
    BY <1>2, <2>1, SkipSettles DEF Outcomes
<1>4. CASE KeepUnknown
  <2>1. AtEntry /\ Entry.kind \in ValidKinds /\ Skip("unknown")
    BY <1>4 DEF KeepUnknown, Lookup
  <2>2. /\ NameOf(Entry) \in Name /\ key \in Config
        /\ Len(outcome) + 1 \in DOMAIN Entries
    BY <2>1, EntryType DEF AtEntry, TypeOK
  <2>3. Settled' = Settled \union {NameOf(Entry)}
    BY <2>1, SkipSettles DEF Outcomes
  <2>4. Keeper!Claims(NameOf(Entry)) # {}
    BY <1>1, <2>1, <2>2, KeeperPass DEF Entry
  <2>5. key # NoConfig
    BY <2>2, ControllerAssumption
  <2>6. Keeper!Settle(NameOf(Entry))
    BY <1>1, <2>3, <2>4, <2>5 DEF Keeper!Settle, Keeper!world
  <2> QED
    BY <2>2, <2>6 DEF Keeper!Next
<1>5. CASE Resolve \/ UpdateNotFound \/ ListChildren
  BY <1>1, <1>2, <1>5, SettledStays DEF Resolve, UpdateNotFound, ListChildren
<1>6. CASE UpdateRefused \/ CreateRefused
  BY <1>2, <1>6, WroteSettles DEF UpdateRefused, CreateRefused, Outcomes
<1> QED
  BY <1>3, <1>4, <1>5, <1>6

\* What is written over belongs to the config the pass handles.
LEMMA NothingTakenOver ==
    ASSUME DistinctNames, TypeOK, Lineage, InPass, NEW e \in BindingEntry,
           rbs[NameOf(e)] # Absent
    PROVE  rbs[NameOf(e)].owner.config = key /\ rbs[NameOf(e)].owner.uid <= cfg.uid
<1>1. key \in Config /\ e.group \in Group /\ e.role \in Role
  BY OwnerTypes DEF BindingEntry
<1>2. NameOf(e) \in Name
  BY <1>1, NameType DEF NameOf
<1>3. PICK o \in Owner : o = rbs[NameOf(e)].owner
  BY <1>2, OwnerTypes
<1>4. Aged(NameOf(e), o)
  BY <1>2, <1>3 DEF Lineage, OwnersAged
<1>5. o.config = key
  BY <1>1, <1>4 DEF Aged, NameOf, DistinctNames, Owner
<1>6. o.uid <= cfg.uid
  BY <1>4, <1>5 DEF Aged, OwnerBound
<1> QED
  BY <1>3, <1>5, <1>6

\* What is written is what the entry asks for.
LEMMA DesiredIsAsked ==
    ASSUME TypeOK, Provenance, pc \in {"update", "create"}
    PROVE  \E j \in DOMAIN upstream[Entry.group] :
              LET a == upstream[Entry.group][j]
              IN  /\ a.err \in {"nil", "notFound"}
                  /\ Keeper!AskedFor(Entry, a) = Desired
                  /\ Desired.subjects # {}
<1>1. InPass /\ HasEntry
  BY DEF InPass, TypeOK, WorkerTypes, HasEntry, Entries
<1>2. Entry \in BindingEntry
  BY <1>1, EntryType DEF TypeOK
<1>3. PICK g \in Group : g = Entry.group
  BY <1>2 DEF BindingEntry
<1>4. cfg.spec.memberships \in Seq(Membership)
  <2>1. cfg.spec \in Specs
    BY <1>1 DEF TypeOK, WorkerTypes, InPass, Version, Present
  <2> QED
    BY <2>1, ControllerAssumption
<1>5. PICK j \in DOMAIN upstream[g] :
        ResolveMembers(cfg.spec.memberships, g, upstream[g][j]) = Success(members)
  <2>1. \E j \in DOMAIN upstream[Entry.group] :
          ResolveMembers(cfg.spec.memberships, Entry.group, upstream[Entry.group][j])
            = Success(members)
    BY DEF Provenance, Resolved
  <2> HIDE DEF Entry
  <2> QED
    BY <1>3, <2>1
<1>6. PICK a \in Answer : a = upstream[g][j]
  BY <1>5 DEF TypeOK, WorldTypes
<1>7. a.err \in {"nil", "notFound"}
  BY <1>4, <1>5, <1>6, ListIsAsked
<1>8. members = Keeper!Listed(g) \union a.subjects
  <2>1. members = (UNION {cfg.spec.memberships[i].subjects :
                     i \in {k \in DOMAIN cfg.spec.memberships :
                               cfg.spec.memberships[k].group = g}}) \union a.subjects
    BY <1>4, <1>5, <1>6, ListIsAsked
  <2> QED
    BY <1>1, <2>1 DEF Keeper!Listed
<1>9. members # {}
  BY DEF Provenance, Resolved
<1>10. Keeper!Object = Self
  BY <1>1, KeeperPass
<1>11. Keeper!AskedFor(Entry, a) = Desired
  BY <1>3, <1>8, <1>10 DEF Keeper!AskedFor, Desired
<1>12. Desired.subjects = members
  BY DEF Desired
<1> HIDE DEF Entry
<1> QED
  BY <1>3, <1>5, <1>6, <1>7, <1>9, <1>11, <1>12

LEMMA WriteKeeps ==
    ASSUME DistinctNames, TypeOK, Lineage, Provenance, ActiveSplits, SettledActive,
           pc \in {"update", "create"}, Written, NEW o \in {"configured", "failed"}, Wrote(o),
           spent'["edit"] = spent["edit"]
    PROVE  Keeper!Next
<1>1. /\ InPass /\ InPass' /\ HasEntry
      /\ UNCHANGED <<worldVars, seen, key, cfg>>
  BY DEF InPass, TypeOK, WorkerTypes, HasEntry, Entries, Wrote
<1>2. /\ Entry \in BindingEntry /\ NameOf(Entry) \in Name /\ key \in Config
      /\ Len(outcome) + 1 \in DOMAIN Entries
  BY <1>1, EntryType DEF TypeOK
<1>3. PICK n \in Name : n = NameOf(Entry)
  BY <1>2
<1>4. PICK i \in DOMAIN Entries : i = Len(outcome) + 1
  BY <1>2
<1>5. Entries[i] = Entry /\ cfg.spec.bindings[i] = Entry
  BY <1>4 DEF Entry, Entries
<1>6. i \in Keeper!Claims(n)
  <2>1. Entry.kind \in ValidKinds
    BY DEF Provenance, Resolved
  <2> QED
    BY <1>1, <1>3, <1>5, <2>1, KeeperPass
<1>7. n \notin Settled
  BY <1>3 DEF ActiveSplits, SettledActive
<1>8. rbs[n] # Absent => rbs[n].owner.config = key /\ rbs[n].owner.uid <= cfg.uid
  BY <1>1, <1>2, <1>3, NothingTakenOver
<1>9. Settled' \in {Settled, Settled \union {n}}
  BY <1>3, WroteSettles DEF Outcomes
<1>10. rbs' = [rbs EXCEPT ![n] = Desired]
  BY <1>3 DEF Written
<1>11. key # NoConfig
  BY <1>2, ControllerAssumption
<1>12. PICK j \in DOMAIN upstream[Entry.group] :
          LET a == upstream[Entry.group][j]
          IN  /\ a.err \in {"nil", "notFound"}
              /\ Keeper!AskedFor(Entry, a) = Desired
              /\ Desired.subjects # {}
  BY DesiredIsAsked
<1> HIDE DEF Entry, Desired, Settled
<1>13. Keeper!Grant(n)
  BY <1>1, <1>5, <1>6, <1>7, <1>8, <1>9, <1>10, <1>11, <1>12 DEF Keeper!Grant, Keeper!world
<1> QED
  BY <1>3, <1>13 DEF Keeper!Next

LEMMA WritesKeep ==
    ASSUME DistinctNames, TypeOK, Lineage, Provenance, ActiveSplits, SettledActive,
           UpdateOk \/ CreateOk \/ WriteFails
    PROVE  Keeper!Next \/ UNCHANGED Keeper!vars
<1>1. /\ pc \in {"update", "create"} /\ spent'["edit"] = spent["edit"]
      /\ \/ (Wrote("configured") \/ Wrote("failed")) /\ Written
         \/ Wrote("failed") /\ UNCHANGED rbs
  BY FaultIsNoEdit DEF UpdateOk, CreateOk, WriteFails
<1>2. CASE Written
  BY <1>1, <1>2, WriteKeeps
<1>3. CASE Wrote("failed") /\ UNCHANGED rbs
  <2>1. Settled' = Settled
    BY <1>1, <1>3, WroteSettles DEF Outcomes
  <2> QED
    BY <1>1, <1>3, <2>1, KeeperRests DEF Wrote, InPass
<1> QED
  BY <1>1, <1>2, <1>3

LEMMA DeletesKeep ==
    ASSUME TypeOK, Lineage, ActiveSplits, SettledActive,
           NEW n \in Name, DeleteChild(n) \/ DeleteFails(n)
    PROVE  Keeper!Next \/ UNCHANGED Keeper!vars
<1>1. /\ n \in todo /\ InPass /\ InPass'
      /\ UNCHANGED <<worldVars, seen, key, cfg, outcome>>
      /\ spent'["edit"] = spent["edit"]
      /\ UNCHANGED rbs \/ rbs' = [rbs EXCEPT ![n] = Absent]
  BY FaultIsNoEdit DEF DeleteChild, DeleteFails, InPass
<1>2. Settled' = Settled
  BY <1>1, SettledStays
<1>3. CASE UNCHANGED rbs
  BY <1>1, <1>2, <1>3, KeeperRests
<1>4. CASE rbs' = [rbs EXCEPT ![n] = Absent] /\ rbs[n] # Absent
  <2>1. n \notin Settled
    BY <1>1 DEF ActiveSplits, SettledActive
  <2>2. rbs[n].owner = Keeper!Object
    BY <1>1, <1>4, KeeperPass DEF Lineage, Custody
  <2>3. key # NoConfig
    BY <1>1, OwnerTypes, ControllerAssumption
  <2>4. Keeper!Revoke(n)
    BY <1>1, <1>2, <1>4, <2>1, <2>2, <2>3 DEF Keeper!Revoke, Keeper!world, Keeper!keeper
  <2> QED
    BY <2>4 DEF Keeper!Next
<1>5. CASE rbs' = [rbs EXCEPT ![n] = Absent] /\ rbs[n] = Absent
  BY <1>3, <1>5 DEF TypeOK, WorldTypes
<1> QED
  BY <1>1, <1>3, <1>4, <1>5

LEMMA NextKeeps ==
    ASSUME DistinctNames, TypeOK, TypeOK', Lineage, Provenance, ActiveSplits, SettledActive,
           [Next]_vars
    PROVE  [Keeper!Next]_(Keeper!vars)
<1>1. CASE UNCHANGED vars
  BY <1>1, SettledStays, KeeperRests DEF vars, InPass
<1> QED
  BY <1>1, UsersKeep, CollectKeeps, AroundKeeps, EndKeeps, DequeueKeeps, LoadKeeps,
     EntriesKeep, WritesKeep, DeletesKeep
  DEF Next, Worker

LEMMA InitKeeps == ASSUME Init PROVE Keeper!Init
<1>1. ~InPass /\ Settled = {}
  BY DEF Init, InPass, Settled
<1>2. \A g \in Group : Len(upstream[g]) = 1
  BY DEF Init
<1> QED
  BY <1>1, <1>2 DEF Init, Keeper!Init

\* If no two configs' bindings share a name, the whole controller, with its
\* queue, its two caches, the loop over the entries, the write that is an update
\* and then a create, and the cleanup from a stale list, implements the keeper:
\* handleConfig grants only what the version at hand and one upstream answer ask
\* for, takes no binding over, revokes only what the object at hand owns, and
\* changes its mind about no name in one pass.
THEOREM ControllerKeepsBindings == ASSUME DistinctNames PROVE Spec => KeepsBindings
<1>1. Init => Provenance /\ ActiveSplits /\ SettledActive
  <2> SUFFICES ASSUME Init PROVE Provenance /\ ActiveSplits /\ SettledActive
    OBVIOUS
  <2>1. /\ pc = "idle" /\ outcome = <<>> /\ todo = {} /\ \A n \in Name : rbs[n] = Absent
    BY DEF Init
  <2>2. UnknownNames = {} /\ Settled = {}
    BY <2>1 DEF UnknownNames, Settled, InPass
  <2> QED
    BY <2>1, <2>2 DEF Provenance, FromVersion, Resolved, Justified, InPass, ActiveSplits,
       SettledActive
<1>2. /\ TypeOK /\ Provenance /\ [Next]_vars => Provenance'
      /\ TypeOK /\ ActiveSplits /\ [Next]_vars => ActiveSplits'
      /\ TypeOK /\ TypeOK' /\ SettledActive /\ [Next]_vars => SettledActive'
  BY NextProvenance, NextSplits, NextSettled
<1>3. TypeOK /\ TypeOK' /\ Lineage /\ Provenance /\ ActiveSplits /\ SettledActive /\ [Next]_vars
        => [Keeper!Next]_(Keeper!vars)
  BY NextKeeps
<1>4. Init => Keeper!Init
  BY InitKeeps
<1> QED
  BY <1>1, <1>2, <1>3, <1>4, TypeCorrect, LineageKept, PTL DEF Spec, KeepsBindings, Keeper!Spec
=============================================================================
