--------------------------- MODULE InformerFactory ---------------------------
(***************************************************************************)
(* The generated sharedInformerFactory: a table of informers, one for each *)
(* kind of object, made when first asked for and run when Start is called. *)
(* InformerFor and Start hold the factory's lock for their whole length.   *)
(*                                                                         *)
(* An informer is a number: the first one of its kind is 1, the second 2.  *)
(* Whether its cache has been filled is up to client-go and the API server *)
(* (external).                                                             *)
(***************************************************************************)
EXTENDS Naturals, Sequences, Functions

CONSTANT Kind    \* the types of objects

VARIABLES
    factory,    \* the table, what Start started, and what client-go made of it
    stopped     \* is stopCh closed?

factoryVars == <<factory, stopped>>

NewFactory ==
    [informers |-> [k \in Kind |-> 0],     \* 0: there is none
     made      |-> [k \in Kind |-> 0],
     startedInformers |-> {},
     runs      |-> [k \in Kind |-> <<>>],  \* whose Run was called
     synced    |-> {}]

Init == factory = NewFactory /\ stopped = FALSE

Requested == {k \in Kind : factory.informers[k] # 0}

\* (mistake) A new informer for every request replaces the one in the table.
InformerForAnew(k) ==
    factory' = [factory EXCEPT !.made[k] = @ + 1,
                               !.informers[k] = factory.made[k] + 1]

\* InformerFor, which the Informer and Lister methods of a kind call.
InformerFor(k) ==
    factory' = IF k \in Requested
                 THEN factory
                 ELSE [factory EXCEPT !.made[k] = @ + 1,
                                      !.informers[k] = factory.made[k] + 1]

\* Start runs the informers that were requested and have not been started.
Start ==
    factory' = [factory EXCEPT
                  !.startedInformers = @ \union Requested,
                  !.runs = [k \in Kind |->
                              IF k \in Requested \ factory.startedInformers
                                THEN Append(@[k], factory.informers[k])
                                ELSE @[k]]]

\* An informer that runs has listed its objects (external).
CacheSynced(k, i) ==
    /\ ~stopped
    /\ i \in Range(factory.runs[k])
    /\ <<k, i>> \notin factory.synced
    /\ factory' = [factory EXCEPT !.synced = @ \union {<<k, i>>}]

CloseStop == ~stopped /\ stopped' = TRUE

Next ==
    \/ \E k \in Kind : InformerFor(k) /\ UNCHANGED stopped
    \/ Start /\ UNCHANGED stopped
    \/ \E k \in Kind : \E i \in Range(factory.runs[k]) : CacheSynced(k, i) /\ UNCHANGED stopped
    \/ CloseStop /\ UNCHANGED factory

Spec == Init /\ [][Next]_factoryVars

-----------------------------------------------------------------------------
\* However often and in whatever order informers are requested and Start is
\* called, a kind has one informer, and what runs is that one, once: listers,
\* handlers and HasSynced speak of the cache that is being filled.
OneInformerPerKind ==
    \A k \in Kind :
        /\ factory.made[k] <= 1
        /\ factory.runs[k] \in {<<>>, <<factory.informers[k]>>}
=============================================================================
