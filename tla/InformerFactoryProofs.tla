----------------------- MODULE InformerFactoryProofs -----------------------
(***************************************************************************)
(* For any set of kinds and any order of calls the factory makes and runs  *)
(* one informer of a kind.  The invariant adds what the property does not  *)
(* say: an informer in the table is the one that was made, and whatever    *)
(* was started is in the table.                                            *)
(***************************************************************************)
EXTENDS InformerFactory, TLAPS

FactoryTypes ==
    /\ factory \in [informers : [Kind -> Nat], made : [Kind -> Nat],
                    startedInformers : SUBSET Kind, runs : [Kind -> Seq(Nat)],
                    synced : SUBSET (Kind \X Nat)]
    /\ stopped \in BOOLEAN

TableInv ==
    \A k \in Kind :
        /\ factory.made[k] \in {0, 1} /\ factory.informers[k] = factory.made[k]
        /\ factory.runs[k] = IF k \in factory.startedInformers
                               THEN <<factory.informers[k]>> ELSE <<>>
        /\ k \in factory.startedInformers => factory.informers[k] = 1

FactoryInv == FactoryTypes /\ TableInv

LEMMA InitFactory == Init => FactoryInv
<1> SUFFICES ASSUME Init PROVE FactoryInv
  OBVIOUS
<1>1. /\ factory.informers = [k \in Kind |-> 0] /\ factory.made = [k \in Kind |-> 0]
      /\ factory.startedInformers = {} /\ factory.synced = {}
      /\ factory.runs = [k \in Kind |-> <<>>]
      /\ stopped = FALSE
  BY DEF Init, NewFactory
<1>2. [k \in Kind |-> <<>>] \in [Kind -> Seq(Nat)]
  OBVIOUS
<1>3. factory \in [informers : [Kind -> Nat], made : [Kind -> Nat],
                   startedInformers : SUBSET Kind, runs : [Kind -> Seq(Nat)],
                   synced : SUBSET (Kind \X Nat)]
  <2>1. [k \in Kind |-> 0] \in [Kind -> Nat]
    OBVIOUS
  <2> QED
    BY <1>2, <2>1 DEF Init, NewFactory
<1>4. TableInv
  BY <1>1 DEF TableInv
<1> QED
  BY <1>1, <1>3, <1>4 DEF FactoryInv, FactoryTypes

\* A kind that is in the table keeps its informer; another gets its first.
LEMMA InformerForKeeps ==
    ASSUME FactoryInv, NEW k \in Kind, InformerFor(k), UNCHANGED stopped
    PROVE  FactoryInv'
<1>1. CASE k \in Requested
  BY <1>1 DEF InformerFor, FactoryInv, FactoryTypes, TableInv
<1>2. CASE k \notin Requested
  <2>0. factory.made[k] = 0
    BY <1>2 DEF Requested, FactoryInv, TableInv
  <2>1. factory' = [factory EXCEPT !.made[k] = 1, !.informers[k] = 1]
    BY <1>2, <2>0, factory.made[k] + 1 = 1 DEF InformerFor
  <2>2. k \notin factory.startedInformers
    <3>1. factory.informers[k] = 0
      BY <1>2 DEF Requested
    <3>2. k \in factory.startedInformers => factory.informers[k] = 1
      BY DEF FactoryInv, TableInv
    <3> QED
      BY <3>1, <3>2
  <2>3. FactoryTypes'
    BY <2>1 DEF FactoryInv, FactoryTypes
  <2>4. TableInv'
    BY <2>1, <2>2 DEF FactoryInv, FactoryTypes, TableInv
  <2> QED
    BY <2>3, <2>4 DEF FactoryInv
<1> QED
  BY <1>1, <1>2

\* Only what has no run yet is run.
LEMMA StartKeeps ==
    ASSUME FactoryInv, Start, UNCHANGED stopped
    PROVE  FactoryInv'
<1>1. /\ factory'.informers = factory.informers /\ factory'.made = factory.made
      /\ factory'.synced = factory.synced
      /\ factory'.startedInformers = factory.startedInformers \union Requested
      /\ factory'.runs = [k \in Kind |->
                            IF k \in Requested \ factory.startedInformers
                              THEN Append(factory.runs[k], factory.informers[k])
                              ELSE factory.runs[k]]
      /\ factory' = [informers |-> factory'.informers, made |-> factory'.made,
                     startedInformers |-> factory'.startedInformers,
                     runs |-> factory'.runs, synced |-> factory'.synced]
  BY DEF Start, FactoryInv, FactoryTypes
<1>2. Requested \subseteq Kind
  BY DEF Requested
<1>3. factory'.runs \in [Kind -> Seq(Nat)]
  BY <1>1 DEF FactoryInv, FactoryTypes
<1>4. FactoryTypes'
  BY <1>1, <1>2, <1>3 DEF FactoryInv, FactoryTypes
<1>5. TableInv'
  <2> SUFFICES ASSUME NEW k \in Kind
               PROVE  /\ factory'.made[k] \in {0, 1}
                      /\ factory'.informers[k] = factory'.made[k]
                      /\ factory'.runs[k] = IF k \in factory'.startedInformers
                                              THEN <<factory'.informers[k]>> ELSE <<>>
                      /\ k \in factory'.startedInformers => factory'.informers[k] = 1
    BY DEF TableInv
  <2>1. Append(<<>>, factory.informers[k]) = <<factory.informers[k]>>
    BY DEF FactoryInv, FactoryTypes
  <2> QED
    BY <1>1, <2>1 DEF Requested, FactoryInv, FactoryTypes, TableInv
<1> QED
  BY <1>4, <1>5 DEF FactoryInv

LEMMA NextFactory == ASSUME FactoryInv, [Next]_factoryVars PROVE FactoryInv'
<1>1. ASSUME NEW k \in Kind, InformerFor(k), UNCHANGED stopped PROVE FactoryInv'
  BY <1>1, InformerForKeeps
<1>2. ASSUME Start, UNCHANGED stopped PROVE FactoryInv'
  BY <1>2, StartKeeps
<1>3. ASSUME NEW k \in Kind, NEW i \in Range(factory.runs[k]), CacheSynced(k, i),
             UNCHANGED stopped
      PROVE  FactoryInv'
  <2>1. i \in Nat
    BY <1>3 DEF Range, FactoryInv, FactoryTypes
  <2>2. factory' = [factory EXCEPT !.synced = @ \union {<<k, i>>}] /\ stopped' = stopped
    BY <1>3 DEF CacheSynced
  <2>3. FactoryTypes'
    <3>1. factory.synced \union {<<k, i>>} \in SUBSET (Kind \X Nat)
      BY <2>1 DEF FactoryInv, FactoryTypes
    <3> QED
      BY <2>2, <3>1 DEF FactoryInv, FactoryTypes
  <2>4. TableInv'
    <3>1. /\ factory'.made = factory.made /\ factory'.informers = factory.informers
          /\ factory'.runs = factory.runs
          /\ factory'.startedInformers = factory.startedInformers
      BY <2>2 DEF FactoryInv, FactoryTypes
    <3> QED
      BY <3>1 DEF FactoryInv, TableInv
  <2> QED
    BY <2>3, <2>4 DEF FactoryInv
<1>4. ASSUME CloseStop, UNCHANGED factory PROVE FactoryInv'
  BY <1>4 DEF CloseStop, FactoryInv, FactoryTypes, TableInv
<1>5. ASSUME UNCHANGED factoryVars PROVE FactoryInv'
  BY <1>5 DEF factoryVars, FactoryInv, FactoryTypes, TableInv
<1> QED
  BY <1>1, <1>2, <1>3, <1>4, <1>5 DEF Next

LEMMA OneAtATime == FactoryInv => OneInformerPerKind
<1> SUFFICES ASSUME FactoryInv, NEW k \in Kind
             PROVE  /\ factory.made[k] <= 1
                    /\ factory.runs[k] \in {<<>>, <<factory.informers[k]>>}
  BY DEF OneInformerPerKind
<1>1. /\ factory.made[k] \in {0, 1}
      /\ factory.runs[k] = IF k \in factory.startedInformers
                             THEN <<factory.informers[k]>> ELSE <<>>
  BY DEF FactoryInv, TableInv
<1>2. factory.made[k] <= 1
  BY <1>1
<1>3. factory.runs[k] \in {<<>>, <<factory.informers[k]>>}
  BY <1>1, Zenon
<1> QED
  BY <1>2, <1>3

\* InformerFor and Start, in whatever order and however often they are called,
\* make one informer of a kind and run that one, once.
THEOREM OneInformer == Spec => []OneInformerPerKind
BY OneAtATime, InitFactory, NextFactory, PTL DEF Spec
=============================================================================
