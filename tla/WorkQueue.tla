----------------------------- MODULE WorkQueue -----------------------------
(***************************************************************************)
(* The rate limited work queue between the event handlers and pollers and  *)
(* the single worker that makeWorker runs on it.  The queue itself is      *)
(* client-go's; what is modelled is the behaviour controller.go relies on. *)
(* A key is                                                                *)
(*   waiting     in the delaying queue, until its rate limit delay is over *)
(*   dirty       added and not yet taken: it must be handled (again)       *)
(*   processing  taken by the worker, which has not called Done            *)
(* and queue orders the dirty keys that are not being processed.           *)
(***************************************************************************)
EXTENDS Integers, Sequences, FiniteSets, Functions

CONSTANT Key

VARIABLES waiting, queue, dirty, processing, shuttingDown

vars == <<waiting, queue, dirty, processing, shuttingDown>>

TypeOK ==
    /\ waiting \in SUBSET Key
    /\ queue \in Seq(Key)
    /\ dirty \in SUBSET Key
    /\ processing \in SUBSET Key
    /\ shuttingDown \in BOOLEAN

Init ==
    /\ waiting = {}
    /\ queue = <<>>
    /\ dirty = {}
    /\ processing = {}
    /\ shuttingDown = FALSE

\* (mistake) A request made after ShutDown is still accepted.
AddWhenShuttingDown(K) ==
    /\ waiting' = waiting \union K
    /\ UNCHANGED <<queue, dirty, processing, shuttingDown>>

\* enqueue: AddRateLimited of every key in K.  A key already waiting keeps one
\* entry; a queue that is shutting down drops the request.
AddRateLimited(K) ==
    /\ waiting' = IF shuttingDown THEN waiting ELSE waiting \union K
    /\ UNCHANGED <<queue, dirty, processing, shuttingDown>>

\* (mistake) An Add that looks only at dirty queues a key being processed.
AddReadyTwice(k) ==
    /\ k \in waiting
    /\ waiting' = waiting \ {k}
    /\ dirty' = dirty \union {k}
    /\ queue' = IF k \in dirty THEN queue ELSE Append(queue, k)
    /\ UNCHANGED <<processing, shuttingDown>>

\* The delay of k is over: the delaying queue Adds it.  A dirty key is not
\* added twice; one being processed is only marked, for Done to append.
AddReady(k) ==
    /\ k \in waiting
    /\ waiting' = waiting \ {k}
    /\ dirty' = dirty \union {k}
    /\ queue' = IF k \in dirty \/ k \in processing THEN queue ELSE Append(queue, k)
    /\ UNCHANGED <<processing, shuttingDown>>

\* makeWorker's loop head.  There is one worker per queue and it calls Done
\* before it calls Get again.
Get(k) ==
    /\ processing = {}
    /\ queue # <<>>
    /\ k = Head(queue)
    /\ queue' = Tail(queue)
    /\ dirty' = dirty \ {k}
    /\ processing' = {k}
    /\ UNCHANGED <<waiting, shuttingDown>>

\* (mistake) Done that clears the key's dirty mark forgets a request made during
\* the handling.
DoneForgets(k) ==
    /\ k \in processing
    /\ processing' = processing \ {k}
    /\ dirty' = dirty \ {k}
    /\ UNCHANGED <<waiting, queue, shuttingDown>>

\* The deferred queue.Done: a key that became dirty meanwhile goes to the end.
\* (Forget only resets the rate limiter's delay.)
Done(k) ==
    /\ k \in processing
    /\ processing' = processing \ {k}
    /\ queue' = IF k \in dirty THEN Append(queue, k) ELSE queue
    /\ UNCHANGED <<waiting, dirty, shuttingDown>>

\* Run's deferred c.queue.ShutDown: keys still waiting are never added.
ShutDown ==
    /\ ~shuttingDown
    /\ shuttingDown' = TRUE
    /\ waiting' = {}
    /\ UNCHANGED <<queue, dirty, processing>>

Next ==
    \/ \E K \in SUBSET Key \ {{}} : AddRateLimited(K)
    \/ \E k \in Key : AddReady(k) \/ Get(k) \/ Done(k)
    \/ ShutDown

\* Timers fire, the worker's goroutine is scheduled and its handler returns: until
\* ShutDown.  Run shuts the queue down when it returns, and main returns then, so
\* that the process may be over at any moment afterwards, whatever is queued or in
\* the worker's hands.
Fairness ==
    \A k \in Key :
        /\ WF_vars(~shuttingDown /\ AddReady(k))
        /\ WF_vars(~shuttingDown /\ Get(k))
        /\ WF_vars(~shuttingDown /\ Done(k))

Spec == Init /\ [][Next]_vars /\ Fairness

-----------------------------------------------------------------------------
\* The FIFO holds exactly the dirty keys nobody is processing, each one once:
\* no key is handed out twice for one request, and none is marked for handling
\* and then not queued (the set and the list are updated in different calls).
QueueMatchesDirty ==
    /\ IsInjective(queue)
    /\ Range(queue) = dirty \ processing

\* One worker: a second key is never taken before Done.
OneProcessed == \A j, k \in processing : j = k

\* What the queue's calls maintain together, inductively: the types, the FIFO
\* as an image of dirty, the single worker, and nothing waiting once shut down.
QueueInv ==
    /\ TypeOK
    /\ QueueMatchesDirty
    /\ OneProcessed
    /\ shuttingDown => waiting = {}

\* The queue keeps the promise of KeyedWork.  In particular the same key is
\* never in the hands of two handlers, which is why handleConfig may write
\* bindings without a lock; a request made while its key is being handled is
\* kept for another round; and only ShutDown ever forgets a request.
Keyed == INSTANCE KeyedWork WITH owed <- waiting \union dirty,
                                 busy <- processing,
                                 closed <- shuttingDown

KeepsRequests == Keyed!Spec

\* Every request is served by a handling that begins after it: a key whose delay
\* is over is taken from the queue later, also when that happens while the key is
\* being handled, unless the process shuts down first.  (Get is what makes a dirty
\* key one that is processed and not dirty.)
RequestHandled ==
    \A k \in Key :
        /\ k \in waiting ~> (k \in dirty \/ shuttingDown)
        /\ k \in dirty ~> (k \in processing \ dirty \/ shuttingDown)
=============================================================================
