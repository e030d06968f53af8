-------------------------- MODULE WorkQueueProofs --------------------------
(***************************************************************************)
(* For every set of keys: the queue's inductive invariant, and that it     *)
(* implements KeyedWork.                                                   *)
(***************************************************************************)
EXTENDS WorkQueue, TLAPS

LEMMA AppendFresh ==
    ASSUME NEW S, NEW q \in Seq(S), NEW e \in S,
           IsInjective(q), e \notin Range(q)
    PROVE  /\ Append(q, e) \in Seq(S)
           /\ IsInjective(Append(q, e))
           /\ Range(Append(q, e)) = Range(q) \union {e}
<1>1. Append(q, e) \in Seq(S)
  OBVIOUS
<1>2. /\ DOMAIN Append(q, e) = 1..(Len(q) + 1)
      /\ \A i \in 1..Len(q) : Append(q, e)[i] = q[i]
      /\ Append(q, e)[Len(q) + 1] = e
      /\ DOMAIN q = 1..Len(q)
      /\ Len(q) \in Nat
  OBVIOUS
<1>3. IsInjective(Append(q, e))
  BY <1>2 DEF IsInjective, Range
<1>4. Range(Append(q, e)) = Range(q) \union {e}
  BY <1>2 DEF Range
<1> QED
  BY <1>1, <1>3, <1>4

LEMMA TailOfInjective ==
    ASSUME NEW S, NEW q \in Seq(S), q # <<>>, IsInjective(q)
    PROVE  /\ Tail(q) \in Seq(S)
           /\ Head(q) \in Range(q)
           /\ IsInjective(Tail(q))
           /\ Range(Tail(q)) = Range(q) \ {Head(q)}
<1>1. /\ Tail(q) \in Seq(S)
      /\ Len(q) \in Nat \ {0}
      /\ Head(q) = q[1]
      /\ DOMAIN q = 1..Len(q)
      /\ DOMAIN Tail(q) = 1..(Len(q) - 1)
      /\ \A i \in 1..(Len(q) - 1) : Tail(q)[i] = q[i + 1]
  OBVIOUS
<1>2. Head(q) \in Range(q)
  BY <1>1 DEF Range
<1>3. IsInjective(Tail(q))
  BY <1>1 DEF IsInjective
<1>4. Range(Tail(q)) \subseteq Range(q) \ {Head(q)}
  BY <1>1 DEF Range, IsInjective
<1>5. ASSUME NEW x \in Range(q) \ {Head(q)} PROVE x \in Range(Tail(q))
  <2>1. PICK i \in 1..Len(q) : q[i] = x
    BY <1>1 DEF Range
  <2>2. i # 1 /\ i - 1 \in 1..(Len(q) - 1)
    BY <1>1, <2>1
  <2>3. Tail(q)[i - 1] = x
    BY <1>1, <2>1, <2>2
  <2> QED
    BY <1>1, <2>2, <2>3 DEF Range
<1> QED
  BY <1>1, <1>2, <1>3, <1>4, <1>5

-----------------------------------------------------------------------------
\* One lemma per call: each keeps QueueInv, whoever makes it.
LEMMA AddRateLimitedKeeps ==
    ASSUME NEW K \in SUBSET Key, QueueInv, AddRateLimited(K)
    PROVE  QueueInv'
BY DEF AddRateLimited, QueueInv, TypeOK, QueueMatchesDirty, OneProcessed

LEMMA AddReadyKeeps ==
    ASSUME NEW k \in Key, QueueInv, AddReady(k)
    PROVE  QueueInv'
<1> USE DEF QueueInv, TypeOK
<1>1. k \in waiting /\ ~shuttingDown /\ ~shuttingDown'
  BY DEF AddReady
<1>2. /\ waiting' \in SUBSET Key /\ dirty' \in SUBSET Key
      /\ processing' \in SUBSET Key /\ shuttingDown' \in BOOLEAN
      /\ OneProcessed'
  BY DEF AddReady, OneProcessed
<1>3. CASE k \in dirty \/ k \in processing
  <2>1. queue' = queue /\ dirty' \ processing' = dirty \ processing
    BY <1>3 DEF AddReady
  <2>2. queue' \in Seq(Key) /\ QueueMatchesDirty'
    BY <2>1 DEF QueueMatchesDirty
  <2> QED
    BY <1>1, <1>2, <2>2
<1>4. CASE k \notin dirty /\ k \notin processing
  <2>1. /\ queue' = Append(queue, k)
        /\ dirty' \ processing' = (dirty \ processing) \union {k}
    BY <1>4 DEF AddReady
  <2>2. IsInjective(queue) /\ k \notin Range(queue)
    BY <1>4 DEF QueueMatchesDirty
  <2>3. queue' \in Seq(Key) /\ QueueMatchesDirty'
    BY <2>1, <2>2, AppendFresh DEF QueueMatchesDirty
  <2> QED
    BY <1>1, <1>2, <2>3
<1> QED
  BY <1>3, <1>4

LEMMA GetKeeps ==
    ASSUME NEW k \in Key, QueueInv, Get(k)
    PROVE  QueueInv' /\ k \in dirty
<1> USE DEF QueueInv, TypeOK
<1>1. /\ processing = {} /\ processing' = {k} /\ queue # <<>> /\ k = Head(queue)
      /\ queue' = Tail(queue) /\ dirty' = dirty \ {k}
      /\ UNCHANGED <<waiting, shuttingDown>>
  BY DEF Get
<1>2. /\ queue' \in Seq(Key) /\ k \in Range(queue) /\ IsInjective(queue')
      /\ Range(queue') = Range(queue) \ {k}
  BY <1>1, TailOfInjective DEF QueueMatchesDirty
<1>3. Range(queue) = dirty
  BY <1>1 DEF QueueMatchesDirty
<1>4. QueueMatchesDirty'
  BY <1>1, <1>2, <1>3 DEF QueueMatchesDirty
<1>5. OneProcessed' /\ TypeOK'
  BY <1>1, <1>2 DEF OneProcessed
<1> QED
  BY <1>1, <1>2, <1>3, <1>4, <1>5

LEMMA DoneKeeps ==
    ASSUME NEW k \in Key, QueueInv, Done(k)
    PROVE  QueueInv'
<1> USE DEF QueueInv, TypeOK
<1>1. /\ k \in processing /\ processing' = processing \ {k}
      /\ UNCHANGED <<waiting, dirty, shuttingDown>>
      /\ k \notin Range(queue)
  BY DEF Done, QueueMatchesDirty
<1>2. OneProcessed'
  BY <1>1 DEF OneProcessed
<1>3. CASE k \in dirty
  <2>1. queue' = Append(queue, k)
    BY <1>3 DEF Done
  <2>2. queue' \in Seq(Key) /\ IsInjective(queue') /\ Range(queue') = Range(queue) \union {k}
    BY <1>1, <2>1, AppendFresh DEF QueueMatchesDirty
  <2> QED
    BY <1>1, <1>2, <1>3, <2>2 DEF QueueMatchesDirty
<1>4. CASE k \notin dirty
  <2>1. queue' = queue /\ dirty' \ processing' = dirty \ processing
    BY <1>1, <1>4 DEF Done
  <2> QED
    BY <1>1, <1>2, <2>1 DEF QueueMatchesDirty
<1> QED
  BY <1>3, <1>4

LEMMA ShutDownKeeps ==
    ASSUME QueueInv, ShutDown
    PROVE  QueueInv'
BY DEF ShutDown, QueueInv, TypeOK, QueueMatchesDirty, OneProcessed

LEMMA InitEstablishes ==
    ASSUME Init
    PROVE  QueueInv
<1>1. queue = <<>> /\ dirty = {} /\ processing = {} /\ waiting = {} /\ shuttingDown = FALSE
  BY DEF Init
<1>2. IsInjective(queue) /\ Range(queue) = {} /\ queue \in Seq(Key)
  BY <1>1 DEF IsInjective, Range
<1> QED
  BY <1>1, <1>2 DEF QueueInv, TypeOK, QueueMatchesDirty, OneProcessed

\* The FIFO is always an image of the dirty set, whatever the calls and their
\* order (workqueue as enqueue, makeWorker and Run use it).
THEOREM QueueInvariant == Spec => []QueueInv
<1>1. ASSUME QueueInv, [Next]_vars PROVE QueueInv'
  <2>1. ASSUME NEW K \in SUBSET Key, AddRateLimited(K) PROVE QueueInv'
    BY <1>1, <2>1, AddRateLimitedKeeps
  <2>2. ASSUME NEW k \in Key, AddReady(k) PROVE QueueInv'
    BY <1>1, <2>2, AddReadyKeeps
  <2>3. ASSUME NEW k \in Key, Get(k) PROVE QueueInv'
    BY <1>1, <2>3, GetKeeps
  <2>4. ASSUME NEW k \in Key, Done(k) PROVE QueueInv'
    BY <1>1, <2>4, DoneKeeps
  <2>5. CASE ShutDown
    BY <1>1, <2>5, ShutDownKeeps
  <2>6. CASE UNCHANGED vars
    BY <1>1, <2>6 DEF vars, QueueInv, TypeOK, QueueMatchesDirty, OneProcessed
  <2> QED
    BY <1>1, <2>1, <2>2, <2>3, <2>4, <2>5, <2>6 DEF Next
<1> QED
  BY InitEstablishes, <1>1, PTL DEF Spec

-----------------------------------------------------------------------------
\* The queue implements KeyedWork: at most one handling at a time, at least one
\* for every request, and no request forgotten except by ShutDown.
THEOREM QueueKeepsRequests == Spec => KeepsRequests
<1>1. Init => Keyed!Init
  BY DEF Init, Keyed!Init
<1>2. ASSUME QueueInv, [Next]_vars PROVE [Keyed!Next]_Keyed!vars
  <2> USE DEF QueueInv, TypeOK
  <2>1. ASSUME NEW K \in SUBSET Key, AddRateLimited(K)
        PROVE  [Keyed!Next]_Keyed!vars
    <3>1. CASE shuttingDown
      BY <2>1, <3>1 DEF AddRateLimited, Keyed!vars
    <3>2. CASE ~shuttingDown
      <4>1. Keyed!Request(K)
        BY <2>1, <3>2 DEF AddRateLimited, Keyed!Request
      <4> QED
        BY <4>1 DEF Keyed!Next
    <3> QED
      BY <1>2, <3>1, <3>2
  <2>2. ASSUME NEW k \in Key, AddReady(k) PROVE UNCHANGED Keyed!vars
    BY <1>2, <2>2 DEF AddReady, Keyed!vars
  <2>3. ASSUME NEW k \in Key, Get(k) PROVE Keyed!Start(k)
    <3>1. k \in dirty
      BY <1>2, <2>3, GetKeeps
    <3> QED
      BY <2>3, <3>1 DEF Get, Keyed!Start
  <2>4. ASSUME NEW k \in Key, Done(k) PROVE Keyed!Finish(k)
    BY <1>2, <2>4 DEF Done, Keyed!Finish, OneProcessed
  <2>5. CASE ShutDown
    <3>1. Keyed!Close
      BY <1>2, <2>5 DEF ShutDown, Keyed!Close
    <3> QED
      BY <3>1 DEF Keyed!Next
  <2>6. CASE UNCHANGED vars
    BY <2>6 DEF vars, Keyed!vars
  <2> QED
    BY <1>2, <2>1, <2>2, <2>3, <2>4, <2>5, <2>6 DEF Next, Keyed!Next
<1> QED
  BY <1>1, <1>2, QueueInvariant, PTL DEF Spec, KeepsRequests, Keyed!Spec
=============================================================================
