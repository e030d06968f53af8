-------------------------- MODULE ConfigFeedProofs --------------------------
(***************************************************************************)
(* The feed implements the lagging cache for any number of configs,        *)
(* writes, lists and resyncs.                                              *)
(* The invariant says what the deltas may hold: later and later writes of  *)
(* their config, none newer than the reflector has come to.                *)
(***************************************************************************)
EXTENDS ConfigFeed, WellFoundedInduction, SequenceTheorems, TLAPS

-----------------------------------------------------------------------------
(* The last write *)

\* A set of numbers that is bounded has a greatest one.
LEMMA BoundedHasMax ==
    ASSUME NEW v \in Nat, NEW S \in SUBSET (0..v), S # {}
    PROVE  Max(S) \in S /\ \A i \in S : i <= Max(S)
<1> DEFINE T == {v - i : i \in S}
<1>1. T \subseteq Nat /\ T # {}
  <2>1. \A i \in S : v - i \in Nat
    OBVIOUS
  <2> QED
    BY <2>1
<1>2. PICK x \in T : \A y \in T : ~(<<y, x>> \in OpToRel(<, Nat))
  <2> HIDE DEF T
  <2> QED
    BY <1>1, NatLessThanWellFounded, WFMin
<1>3. ASSUME NEW y \in T PROVE x <= y
  <2> HIDE DEF T
  <2>1. x \in Nat /\ y \in Nat
    BY <1>1
  <2>2. y < x => <<y, x>> \in OpToRel(<, Nat)
    BY <2>1 DEF OpToRel
  <2>3. ~(y < x)
    BY <1>2, <2>2
  <2> QED
    BY <2>1, <2>3
<1>4. PICK m \in S : x = v - m
  BY <1>2
<1>5. \A i \in S : m >= i
  BY <1>3, <1>4
<1>6. Max(S) \in S /\ \A i \in S : Max(S) >= i
  BY <1>5 DEF Max
<1> QED
  BY <1>6

\* i is a write of c.
WriteOf(c, i) == i \in 1..Len(log) /\ log[i].config = c

Writes == [config : Config, present : BOOLEAN]

LEMMA LastWriteIsLast ==
    ASSUME NEW c \in Config, NEW v \in 0..Len(log), log \in Seq(Writes)
    PROVE  /\ LastWrite(c, v) \in 0..v
           /\ LastWrite(c, v) # 0 => WriteOf(c, LastWrite(c, v))
           /\ \A i \in 1..v : WriteOf(c, i) => i <= LastWrite(c, v)
<1> DEFINE S == {0} \union {i \in 1..v : log[i].config = c}
<1>1. v \in Nat /\ Len(log) \in Nat /\ v <= Len(log)
  BY LenProperties
<1>2. S \in SUBSET (0..v) /\ S # {}
  BY <1>1
<1>3. Max(S) \in S /\ \A i \in S : i <= Max(S)
  <2> HIDE DEF S
  <2> QED
    BY <1>1, <1>2, BoundedHasMax
<1>4. LastWrite(c, v) = Max(S)
  BY DEF LastWrite
<1> HIDE DEF S
<1>5. LastWrite(c, v) \in S /\ \A i \in S : i <= LastWrite(c, v)
  BY <1>3, <1>4
<1> QED
  BY <1>1, <1>2, <1>5 DEF S, WriteOf

-----------------------------------------------------------------------------
(* The invariant *)

Notices == [config : Config, old : Nat, new : Nat]

FeedTypes ==
    /\ log \in Seq(Writes)
    /\ forgotten \in Nat
    /\ reflector \in [at : {"list", "watch"}, version : Nat]
    /\ deltas \in [Config -> Seq(Nat)]
    /\ seen \in [Config -> Nat] /\ loaded \in [Config -> Nat]
    /\ notices \in Seq(Notices)
    /\ owed \in SUBSET Config

\* d may be queued for c, whose store shows s.
DeltasOK(c, d, s, v) ==
    /\ \A j \in 1..Len(d) : WriteOf(c, d[j]) /\ d[j] <= v /\ s <= d[j]
    /\ \A j, k \in 1..Len(d) : j <= k => d[j] <= d[k]

SeenOK(c, s, v) == s <= v /\ (s # 0 => WriteOf(c, s))

NoticesOK == \A j \in 1..Len(notices) : notices[j].old <= Len(log)

FeedInv ==
    /\ FeedTypes
    /\ reflector.version <= Len(log) /\ forgotten <= Len(log)
    /\ \A c \in Config : /\ DeltasOK(c, deltas[c], seen[c], reflector.version)
                         /\ SeenOK(c, seen[c], reflector.version)
    /\ NoticesOK

LEMMA InitFeed == Init => FeedInv
<1> SUFFICES ASSUME Init PROVE FeedInv
  OBVIOUS
<1>1. Len(log) = 0 /\ Len(notices) = 0 /\ reflector.version = 0 /\ forgotten = 0
  BY DEF Init
<1>2. /\ log \in Seq(Writes) /\ notices \in Seq(Notices)
      /\ deltas \in [Config -> Seq(Nat)]
      /\ seen \in [Config -> Nat] /\ loaded \in [Config -> Nat]
  BY DEF Init
<1>3. reflector \in [at : {"list", "watch"}, version : Nat] /\ owed \in SUBSET Config
  BY DEF Init
<1>4. ASSUME NEW c \in Config
      PROVE  /\ DeltasOK(c, deltas[c], seen[c], reflector.version)
             /\ SeenOK(c, seen[c], reflector.version)
  <2>1. Len(deltas[c]) = 0 /\ seen[c] = 0
    BY DEF Init
  <2> QED
    BY <1>1, <2>1 DEF DeltasOK, SeenOK
<1>5. NoticesOK
  BY <1>1 DEF NoticesOK
<1> QED
  BY <1>1, <1>2, <1>3, <1>4, <1>5 DEF FeedInv, FeedTypes

\* What a write is does not change when others follow.
LEMMA WriteAppends ==
    ASSUME log \in Seq(Writes), NEW c \in Config, NEW there \in BOOLEAN, Write(c, there)
    PROVE  /\ log' \in Seq(Writes) /\ Len(log') = Len(log) + 1 /\ Len(log) \in Nat
           /\ \A i \in 1..Len(log) : log'[i] = log[i]
           /\ \A d, i : WriteOf(d, i) => WriteOf(d, i)'
<1>1. [config |-> c, present |-> there] \in Writes
  BY DEF Writes
<1>2. log' = Append(log, [config |-> c, present |-> there])
  BY DEF Write
<1>3. /\ log' \in Seq(Writes) /\ Len(log') = Len(log) + 1 /\ Len(log) \in Nat
      /\ \A i \in 1..Len(log) : log'[i] = log[i]
  <2> DEFINE w == [config |-> c, present |-> there]
  <2> HIDE DEF w
  <2>1. w \in Writes /\ log' = Append(log, w)
    BY <1>1, <1>2 DEF w
  <2> QED
    BY <2>1, AppendProperties, LenProperties
<1>4. \A d, i : WriteOf(d, i) => WriteOf(d, i)'
  BY <1>3 DEF WriteOf
<1> QED
  BY <1>3, <1>4

LEMMA WriteKeeps ==
    ASSUME FeedInv, NEW c \in Config, NEW there \in BOOLEAN, Write(c, there)
    PROVE  FeedInv'
<1>1. UNCHANGED <<forgotten, reflector, deltas, seen, notices, owed, loaded>>
  BY DEF Write
<1>2. /\ log' \in Seq(Writes) /\ Len(log') = Len(log) + 1 /\ Len(log) \in Nat
      /\ \A d, i : WriteOf(d, i) => WriteOf(d, i)'
  BY WriteAppends DEF FeedInv, FeedTypes
<1>3. FeedTypes'
  BY <1>1, <1>2 DEF FeedInv, FeedTypes
<1>4. reflector.version <= Len(log') /\ forgotten <= Len(log')
  BY <1>2 DEF FeedInv, FeedTypes
<1>5. ASSUME NEW e \in Config
      PROVE  /\ DeltasOK(e, deltas[e], seen[e], reflector.version)'
             /\ SeenOK(e, seen[e], reflector.version)'
  <2>1. /\ DeltasOK(e, deltas[e], seen[e], reflector.version)
        /\ SeenOK(e, seen[e], reflector.version)
    BY DEF FeedInv
  <2> QED
    BY <1>1, <1>2, <2>1 DEF DeltasOK, SeenOK
<1>6. NoticesOK'
  <2>1. \A j \in 1..Len(notices) : notices[j] \in Notices
    BY ElementOfSeq DEF FeedInv, FeedTypes
  <2> QED
    BY <1>1, <1>2, <2>1 DEF NoticesOK, FeedInv, Notices
<1> QED
  BY <1>1, <1>3, <1>4, <1>5, <1>6 DEF FeedInv

-----------------------------------------------------------------------------
(* What the reflector does *)

\* A later write may be queued.
LEMMA AppendLater ==
    ASSUME NEW c \in Config, NEW d \in Seq(Nat), NEW s \in Nat, NEW v \in Nat, NEW w \in Nat,
           v <= w, DeltasOK(c, d, s, v),
           NEW i \in Nat, WriteOf(c, i), i <= w, s <= i,
           \A j \in 1..Len(d) : d[j] <= i
    PROVE  DeltasOK(c, Append(d, i), s, w)
<1> DEFINE a == Append(d, i)
<1>1. /\ a \in Seq(Nat) /\ Len(a) = Len(d) + 1 /\ Len(d) \in Nat
      /\ \A j \in 1..Len(d) : a[j] = d[j]
      /\ a[Len(d) + 1] = i
      /\ \A j \in 1..Len(d) : d[j] \in Nat
  BY AppendProperties, LenProperties, ElementOfSeq
<1> HIDE DEF a
<1>2. \A j \in 1..Len(a) : j \in 1..Len(d) \/ j = Len(d) + 1
  BY <1>1
<1>3. ASSUME NEW j \in 1..Len(a) PROVE WriteOf(c, a[j]) /\ a[j] <= w /\ s <= a[j]
  <2>1. CASE j \in 1..Len(d)
    <3>1. WriteOf(c, d[j]) /\ d[j] <= v /\ s <= d[j] /\ d[j] \in Nat
      BY <1>1, <2>1 DEF DeltasOK
    <3> QED
      BY <1>1, <2>1, <3>1
  <2>2. CASE j = Len(d) + 1
    BY <1>1, <2>2
  <2> QED
    BY <1>2, <2>1, <2>2
<1>4. ASSUME NEW j \in 1..Len(a), NEW k \in 1..Len(a), j <= k PROVE a[j] <= a[k]
  <2>1. CASE k \in 1..Len(d)
    <3>1. j \in 1..Len(d)
      BY <1>1, <1>4, <2>1
    <3> QED
      BY <1>1, <1>4, <2>1, <3>1 DEF DeltasOK
  <2>2. CASE k = Len(d) + 1 /\ j \in 1..Len(d)
    BY <1>1, <2>2
  <2>3. CASE k = Len(d) + 1 /\ j = Len(d) + 1
    BY <1>1, <2>3
  <2> QED
    BY <1>2, <2>1, <2>2, <2>3
<1>5. DeltasOK(c, a, s, w)
  BY <1>3, <1>4 DEF DeltasOK
<1> QED
  BY <1>5 DEF a

LEMMA OlderVersionOK ==
    ASSUME NEW c \in Config, NEW d \in Seq(Nat), NEW s \in Nat, NEW v \in Nat, NEW w \in Nat,
           v <= w
    PROVE  /\ DeltasOK(c, d, s, v) => DeltasOK(c, d, s, w)
           /\ SeenOK(c, s, v) => SeenOK(c, s, w)
<1>1. \A j \in 1..Len(d) : d[j] \in Nat
  BY ElementOfSeq
<1> QED
  BY <1>1 DEF DeltasOK, SeenOK

\* What a list appends for a config is as late as anything known of it.
LEMMA ListedIsLater ==
    ASSUME FeedInv, NEW c \in Config, NEW v \in Nat,
           reflector.version <= v, v <= Len(log),
           There(LastWrite(c, v)) \/ Known(c)
    PROVE  /\ LastWrite(c, v) \in Nat /\ LastWrite(c, v) <= v
           /\ WriteOf(c, LastWrite(c, v)) /\ seen[c] <= LastWrite(c, v)
           /\ \A j \in 1..Len(deltas[c]) : deltas[c][j] <= LastWrite(c, v)
<1> DEFINE w == LastWrite(c, v)
<1>1. /\ log \in Seq(Writes) /\ Len(log) \in Nat
      /\ reflector.version \in Nat
      /\ deltas[c] \in Seq(Nat) /\ seen[c] \in Nat
      /\ \A j \in 1..Len(deltas[c]) : deltas[c][j] \in Nat
  BY LenProperties, ElementOfSeq DEF FeedInv, FeedTypes
<1>2. v \in 0..Len(log)
  BY <1>1
<1>3. /\ w \in 0..v
      /\ w # 0 => WriteOf(c, w)
      /\ \A i \in 1..v : WriteOf(c, i) => i <= w
  BY <1>1, <1>2, LastWriteIsLast
<1> HIDE DEF w
<1>4. seen[c] <= w
  <2>1. SeenOK(c, seen[c], reflector.version)
    BY DEF FeedInv
  <2>2. seen[c] # 0 => WriteOf(c, seen[c]) /\ seen[c] \in 1..v
    BY <1>1, <2>1 DEF SeenOK
  <2>3. CASE seen[c] = 0
    BY <1>3, <2>3
  <2>4. CASE seen[c] # 0
    BY <1>3, <2>2, <2>4
  <2> QED
    BY <2>3, <2>4
<1>5. ASSUME NEW j \in 1..Len(deltas[c]) PROVE deltas[c][j] <= w /\ deltas[c][j] # 0
  <2>1. WriteOf(c, deltas[c][j]) /\ deltas[c][j] <= reflector.version
    BY DEF FeedInv, DeltasOK
  <2>2. deltas[c][j] \in 1..v
    BY <1>1, <2>1 DEF WriteOf
  <2> QED
    BY <1>3, <2>1, <2>2
<1>6. w # 0
  <2>1. CASE There(w)
    BY <2>1 DEF There
  <2>2. CASE There(seen[c])
    BY <1>1, <1>3, <1>4, <2>2 DEF There
  <2>3. ASSUME NEW d \in Range(deltas[c]), There(d) PROVE w # 0
    <3>1. PICK j \in 1..Len(deltas[c]) : d = deltas[c][j]
      BY <1>1, LenProperties DEF Range
    <3>2. deltas[c][j] <= w /\ deltas[c][j] # 0 /\ deltas[c][j] \in Nat
      BY <1>1, <1>5
    <3> QED
      BY <1>3, <3>2
  <2> QED
    BY <2>1, <2>2, <2>3 DEF Known, w
<1> QED
  BY <1>1, <1>3, <1>4, <1>5, <1>6 DEF w

LEMMA ListKeeps == ASSUME FeedInv, List PROVE FeedInv'
<1>1. UNCHANGED <<log, forgotten, relists, seen, notices, owed, loaded>>
  BY DEF List
<1>2. PICK v \in Max({reflector.version, forgotten})..Len(log) :
        /\ reflector' = [at |-> "watch", version |-> v]
        /\ deltas' = [c \in Config |->
                        IF There(LastWrite(c, v)) \/ Known(c)
                          THEN Append(deltas[c], LastWrite(c, v))
                          ELSE deltas[c]]
  BY DEF List
<1>3. /\ reflector.version \in Nat /\ forgotten \in Nat /\ Len(log) \in Nat
      /\ reflector.version <= Len(log) /\ forgotten <= Len(log)
  BY LenProperties DEF FeedInv, FeedTypes
<1>4. reflector.version <= v /\ v \in Nat /\ v <= Len(log)
  <2>1. {reflector.version, forgotten} \in SUBSET (0..Len(log))
    BY <1>3
  <2>2. /\ Max({reflector.version, forgotten}) \in {reflector.version, forgotten}
        /\ reflector.version <= Max({reflector.version, forgotten})
    BY <1>3, <2>1, BoundedHasMax
  <2> QED
    BY <1>3, <2>2
<1>5. ASSUME NEW c \in Config
      PROVE  /\ deltas'[c] \in Seq(Nat)
             /\ DeltasOK(c, deltas'[c], seen[c], v)
             /\ SeenOK(c, seen[c], v)
  <2>1. /\ DeltasOK(c, deltas[c], seen[c], reflector.version)
        /\ SeenOK(c, seen[c], reflector.version)
        /\ deltas[c] \in Seq(Nat) /\ seen[c] \in Nat
    BY DEF FeedInv, FeedTypes
  <2>2. CASE There(LastWrite(c, v)) \/ Known(c)
    <3>1. deltas'[c] = Append(deltas[c], LastWrite(c, v))
      BY <1>2, <2>2
    <3>2. /\ LastWrite(c, v) \in Nat /\ LastWrite(c, v) <= v
          /\ WriteOf(c, LastWrite(c, v)) /\ seen[c] <= LastWrite(c, v)
          /\ \A j \in 1..Len(deltas[c]) : deltas[c][j] <= LastWrite(c, v)
      BY <1>4, <2>2, ListedIsLater
    <3>3. DeltasOK(c, deltas'[c], seen[c], v)
      BY <1>3, <1>4, <2>1, <3>1, <3>2, AppendLater
    <3>4. deltas'[c] \in Seq(Nat)
      BY <2>1, <3>1, <3>2, AppendProperties
    <3> QED
      BY <1>3, <1>4, <2>1, <3>3, <3>4, OlderVersionOK
  <2>3. CASE ~(There(LastWrite(c, v)) \/ Known(c))
    <3>1. deltas'[c] = deltas[c]
      BY <1>2, <2>3
    <3> QED
      BY <1>3, <1>4, <2>1, <3>1, OlderVersionOK
  <2> QED
    BY <2>2, <2>3
<1>6. deltas' \in [Config -> Seq(Nat)]
  BY <1>2, <1>5
<1>7. reflector' \in [at : {"list", "watch"}, version : Nat] /\ reflector'.version = v
  BY <1>2, <1>4
<1>8. FeedTypes'
  BY <1>1, <1>6, <1>7 DEF FeedInv, FeedTypes
<1>9. \A c \in Config : /\ DeltasOK(c, deltas[c], seen[c], reflector.version)'
                        /\ SeenOK(c, seen[c], reflector.version)'
  BY <1>1, <1>5, <1>7 DEF DeltasOK, SeenOK, WriteOf
<1>10. NoticesOK'
  BY <1>1 DEF NoticesOK, FeedInv
<1> QED
  BY <1>1, <1>3, <1>4, <1>7, <1>8, <1>9, <1>10 DEF FeedInv

LEMMA WatchKeeps == ASSUME FeedInv, Watch PROVE FeedInv'
<1> DEFINE i == reflector.version + 1
           e == log[i].config
<1>1. /\ reflector.version \in Nat /\ Len(log) \in Nat /\ reflector.version < Len(log)
      /\ i \in Nat /\ i \in 1..Len(log) /\ reflector.version <= i /\ i <= Len(log)
  BY LenProperties DEF FeedInv, FeedTypes, Watch
<1>2. UNCHANGED <<log, forgotten, relists, seen, notices, owed, loaded>>
  BY DEF Watch
<1>3. reflector' = [reflector EXCEPT !.version = i]
  BY DEF Watch
<1>4. deltas' = [deltas EXCEPT ![e] = Append(deltas[e], i)]
  BY DEF Watch
<1>5. e \in Config
  <2>1. log[i] \in Writes
    BY <1>1, ElementOfSeq DEF FeedInv, FeedTypes
  <2> QED
    BY <2>1 DEF Writes
<1>6. WriteOf(e, i)
  BY <1>1 DEF WriteOf
<1> HIDE DEF e, i
<1>7. ASSUME NEW c \in Config
      PROVE  /\ deltas'[c] \in Seq(Nat)
             /\ DeltasOK(c, deltas'[c], seen[c], i)
             /\ SeenOK(c, seen[c], i)
  <2>1. /\ DeltasOK(c, deltas[c], seen[c], reflector.version)
        /\ SeenOK(c, seen[c], reflector.version)
        /\ deltas[c] \in Seq(Nat) /\ seen[c] \in Nat
    BY DEF FeedInv, FeedTypes
  <2>2. CASE c = e
    <3>1. deltas'[c] = Append(deltas[c], i)
      BY <1>4, <2>2 DEF FeedInv, FeedTypes
    <3>2. seen[c] <= i
      BY <1>1, <2>1 DEF SeenOK
    <3>3. \A j \in 1..Len(deltas[c]) : deltas[c][j] <= i
      <4>1. \A j \in 1..Len(deltas[c]) : deltas[c][j] \in Nat
        BY <2>1, ElementOfSeq
      <4> QED
        BY <1>1, <2>1, <4>1 DEF DeltasOK
    <3>4. DeltasOK(c, deltas'[c], seen[c], i)
      <4>1. WriteOf(c, i) /\ i <= i
        BY <1>1, <1>6, <2>2
      <4>2. DeltasOK(c, Append(deltas[c], i), seen[c], i)
        BY <1>1, <2>1, <3>2, <3>3, <4>1, AppendLater
      <4> QED
        BY <3>1, <4>2
    <3>5. deltas'[c] \in Seq(Nat)
      BY <1>1, <2>1, <3>1, AppendProperties
    <3> QED
      BY <1>1, <2>1, <3>4, <3>5, OlderVersionOK
  <2>3. CASE c # e
    <3>1. deltas'[c] = deltas[c]
      BY <1>4, <2>3 DEF FeedInv, FeedTypes
    <3> QED
      BY <1>1, <2>1, <3>1, OlderVersionOK
  <2> QED
    BY <2>2, <2>3
<1>8. deltas' \in [Config -> Seq(Nat)]
  <2>1. deltas' = [c \in Config |-> deltas'[c]]
    BY <1>4 DEF FeedInv, FeedTypes
  <2> QED
    BY <1>7, <2>1
<1>9. reflector' \in [at : {"list", "watch"}, version : Nat] /\ reflector'.version = i
  BY <1>1, <1>3 DEF FeedInv, FeedTypes
<1>10. FeedTypes'
  BY <1>2, <1>8, <1>9 DEF FeedInv, FeedTypes
<1>11. \A c \in Config : /\ DeltasOK(c, deltas[c], seen[c], reflector.version)'
                         /\ SeenOK(c, seen[c], reflector.version)'
  BY <1>2, <1>7, <1>9 DEF DeltasOK, SeenOK, WriteOf
<1>12. NoticesOK'
  BY <1>2 DEF NoticesOK, FeedInv
<1> QED
  BY <1>1, <1>2, <1>9, <1>10, <1>11, <1>12 DEF FeedInv

\* Without log, deltas, store or the reflector's version nothing is lost.
LEMMA OthersKeep ==
    ASSUME FeedInv, UNCHANGED <<log, deltas, seen, notices, loaded>>,
           reflector' \in [at : {"list", "watch"}, version : Nat],
           reflector'.version = reflector.version,
           forgotten' \in Nat, forgotten' <= Len(log), owed' \in SUBSET Config
    PROVE  FeedInv'
<1>1. FeedTypes'
  BY DEF FeedInv, FeedTypes
<1>2. \A c \in Config : /\ DeltasOK(c, deltas[c], seen[c], reflector.version)'
                        /\ SeenOK(c, seen[c], reflector.version)'
  BY DEF FeedInv, DeltasOK, SeenOK, WriteOf
<1>3. NoticesOK'
  BY DEF NoticesOK, FeedInv
<1> QED
  BY <1>1, <1>2, <1>3 DEF FeedInv

LEMMA ForgetKeeps == ASSUME FeedInv, Forget \/ WatchExpires \/ WatchBreaks PROVE FeedInv'
<1>1. /\ UNCHANGED <<log, deltas, seen, notices, loaded, owed>>
      /\ forgotten' \in {forgotten, Len(log)}
      /\ reflector' \in {reflector, [reflector EXCEPT !.at = "list"]}
  BY DEF Forget, WatchExpires, WatchBreaks
<1>2. forgotten' \in Nat /\ forgotten' <= Len(log)
  BY <1>1, LenProperties DEF FeedInv, FeedTypes
<1>3. /\ reflector' \in [at : {"list", "watch"}, version : Nat]
      /\ reflector'.version = reflector.version
  BY <1>1 DEF FeedInv, FeedTypes
<1>4. owed' \in SUBSET Config
  BY <1>1 DEF FeedInv, FeedTypes
<1> QED
  BY <1>1, <1>2, <1>3, <1>4, OthersKeep

-----------------------------------------------------------------------------
(* What the store, the handlers and the worker do *)

LEMMA ResyncKeeps == ASSUME FeedInv, Resync PROVE FeedInv'
<1> DEFINE quiet == {c \in Config : There(seen[c]) /\ deltas[c] = <<>>}
<1>1. UNCHANGED <<log, forgotten, reflector, relists, seen, notices, owed, loaded>>
  BY DEF Resync
<1>2. deltas' = [c \in Config |-> IF c \in quiet THEN <<seen[c]>> ELSE deltas[c]]
  BY DEF Resync
<1>3. ASSUME NEW c \in Config
      PROVE  /\ deltas'[c] \in Seq(Nat)
             /\ DeltasOK(c, deltas'[c], seen[c], reflector.version)
  <2>1. /\ DeltasOK(c, deltas[c], seen[c], reflector.version)
        /\ SeenOK(c, seen[c], reflector.version)
        /\ deltas[c] \in Seq(Nat) /\ seen[c] \in Nat
    BY DEF FeedInv, FeedTypes
  <2>2. CASE c \in quiet
    <3>1. deltas'[c] = <<seen[c]>> /\ seen[c] # 0
      BY <1>2, <2>2 DEF There
    <3>2. deltas'[c] \in Seq(Nat) /\ Len(deltas'[c]) = 1 /\ deltas'[c][1] = seen[c]
      BY <2>1, <3>1
    <3>3. \A j \in 1..Len(deltas'[c]) : j = 1
      BY <3>2
    <3>4. WriteOf(c, seen[c]) /\ seen[c] <= reflector.version /\ seen[c] <= seen[c]
      BY <2>1, <3>1 DEF SeenOK
    <3> QED
      BY <3>2, <3>3, <3>4 DEF DeltasOK
  <2>3. CASE c \notin quiet
    <3>1. deltas'[c] = deltas[c]
      BY <1>2, <2>3
    <3> QED
      BY <2>1, <3>1
  <2> QED
    BY <2>2, <2>3
<1> HIDE DEF quiet
<1>4. deltas' \in [Config -> Seq(Nat)]
  <2>1. deltas' = [c \in Config |-> deltas'[c]]
    BY <1>2
  <2> QED
    BY <1>3, <2>1
<1>5. FeedTypes'
  BY <1>1, <1>4 DEF FeedInv, FeedTypes
<1>6. \A c \in Config : /\ DeltasOK(c, deltas[c], seen[c], reflector.version)'
                        /\ SeenOK(c, seen[c], reflector.version)'
  BY <1>1, <1>3 DEF DeltasOK, SeenOK, WriteOf, FeedInv
<1>7. NoticesOK'
  BY <1>1 DEF NoticesOK, FeedInv
<1> QED
  BY <1>1, <1>5, <1>6, <1>7 DEF FeedInv

\* What the store takes is a write of c no older than what it shows.
LEMMA StoredIsLater ==
    ASSUME FeedInv, NEW c \in Config, Store(c)
    PROVE  /\ Head(deltas[c]) \in Nat /\ Head(deltas[c]) <= reflector.version
           /\ WriteOf(c, Head(deltas[c])) /\ seen[c] <= Head(deltas[c])
           /\ Tail(deltas[c]) \in Seq(Nat)
           /\ DeltasOK(c, Tail(deltas[c]), Head(deltas[c]), reflector.version)
<1> DEFINE d == deltas[c]
           t == Tail(d)
<1>1. d \in Seq(Nat) /\ d # <<>>
  BY DEF FeedInv, FeedTypes, Store
<1>2. DeltasOK(c, d, seen[c], reflector.version)
  BY DEF FeedInv
<1> HIDE DEF d
<1>3. /\ Head(d) \in Nat /\ t \in Seq(Nat) /\ Len(t) = Len(d) - 1
      /\ Len(d) \in Nat /\ Len(d) # 0
      /\ \A j \in 1..Len(t) : t[j] = d[j + 1]
      /\ Head(d) = d[1]
  <2>1. Len(d) \in Nat /\ Len(d) # 0
    BY <1>1, LenProperties, EmptySeq
  <2>2. Head(d) = d[1]
    BY <1>1
  <2> QED
    BY <1>1, <2>1, <2>2, HeadTailProperties
<1> HIDE DEF t
<1>4. 1 \in 1..Len(d) /\ \A j \in 1..Len(t) : j + 1 \in 1..Len(d) /\ 1 <= j + 1
  BY <1>3
<1>5. WriteOf(c, Head(d)) /\ Head(d) <= reflector.version /\ seen[c] <= Head(d)
  BY <1>2, <1>3, <1>4 DEF DeltasOK
<1>6. ASSUME NEW j \in 1..Len(t)
      PROVE  WriteOf(c, t[j]) /\ t[j] <= reflector.version /\ Head(d) <= t[j]
  BY <1>2, <1>3, <1>4 DEF DeltasOK
<1>7. ASSUME NEW j \in 1..Len(t), NEW k \in 1..Len(t), j <= k PROVE t[j] <= t[k]
  <2>1. j + 1 <= k + 1
    BY <1>3, <1>7
  <2> QED
    BY <1>2, <1>3, <1>4, <2>1 DEF DeltasOK
<1>8. DeltasOK(c, t, Head(d), reflector.version)
  BY <1>6, <1>7 DEF DeltasOK
<1> QED
  BY <1>3, <1>5, <1>8 DEF d, t

LEMMA StoreKeeps == ASSUME FeedInv, NEW c \in Config, Store(c) PROVE FeedInv'
<1> DEFINE i == Head(deltas[c])
           n == [config |-> c, old |-> seen[c], new |-> i]
<1>1. UNCHANGED <<log, forgotten, reflector, relists, owed, loaded>>
  BY DEF Store
<1>2. /\ deltas' = [deltas EXCEPT ![c] = Tail(deltas[c])]
      /\ seen' = [seen EXCEPT ![c] = i]
      /\ notices' \in {notices, Append(notices, n)}
  BY DEF Store
<1>3. /\ i \in Nat /\ i <= reflector.version
      /\ WriteOf(c, i) /\ seen[c] <= i
      /\ Tail(deltas[c]) \in Seq(Nat)
      /\ DeltasOK(c, Tail(deltas[c]), i, reflector.version)
  BY StoredIsLater
<1>4. n \in Notices /\ n.old = seen[c] /\ seen[c] \in Nat
  BY <1>3 DEF Notices, FeedInv, FeedTypes
<1>5. seen[c] <= Len(log)
  BY <1>1, LenProperties DEF FeedInv, FeedTypes, SeenOK
<1> HIDE DEF i, n
<1>6. /\ deltas' \in [Config -> Seq(Nat)] /\ seen' \in [Config -> Nat]
  BY <1>2, <1>3 DEF FeedInv, FeedTypes
<1>7. notices' \in Seq(Notices)
  <2>1. notices \in Seq(Notices)
    BY DEF FeedInv, FeedTypes
  <2>2. Append(notices, n) \in Seq(Notices)
    BY <1>4, <2>1, AppendProperties
  <2> QED
    BY <1>2, <2>1, <2>2
<1>8. FeedTypes'
  BY <1>1, <1>6, <1>7 DEF FeedInv, FeedTypes
<1>9. ASSUME NEW e \in Config
      PROVE  /\ DeltasOK(e, deltas'[e], seen'[e], reflector.version)
             /\ SeenOK(e, seen'[e], reflector.version)
  <2>1. CASE e = c
    <3>1. deltas'[e] = Tail(deltas[c]) /\ seen'[e] = i
      BY <1>2, <2>1 DEF FeedInv, FeedTypes
    <3> QED
      BY <1>3, <2>1, <3>1 DEF SeenOK
  <2>2. CASE e # c
    <3>1. deltas'[e] = deltas[e] /\ seen'[e] = seen[e]
      BY <1>2, <2>2 DEF FeedInv, FeedTypes
    <3> QED
      BY <3>1 DEF FeedInv
  <2> QED
    BY <2>1, <2>2
<1>10. NoticesOK'
  <2>1. CASE notices' = notices
    BY <1>1, <2>1 DEF NoticesOK, FeedInv
  <2>2. CASE notices' = Append(notices, n)
    <3>1. /\ Len(notices') = Len(notices) + 1 /\ Len(notices) \in Nat
          /\ \A j \in 1..Len(notices) : notices'[j] = notices[j]
          /\ notices'[Len(notices) + 1] = n
      BY <1>4, <2>2, AppendProperties, LenProperties DEF FeedInv, FeedTypes
    <3>2. \A j \in 1..Len(notices') : j \in 1..Len(notices) \/ j = Len(notices) + 1
      BY <3>1
    <3> QED
      BY <1>1, <1>4, <1>5, <3>1, <3>2 DEF NoticesOK, FeedInv
  <2> QED
    BY <1>2, <2>1, <2>2
<1> QED
  BY <1>1, <1>8, <1>9, <1>10 DEF FeedInv, DeltasOK, SeenOK, WriteOf

LEMMA CallHandlerKeeps == ASSUME FeedInv, CallHandler PROVE FeedInv'
<1>1. UNCHANGED <<log, forgotten, reflector, relists, deltas, seen, loaded>>
  BY DEF CallHandler
<1>2. /\ notices' = Tail(notices) /\ notices # <<>>
      /\ owed' \in {owed, owed \union {Head(notices).config}}
  BY DEF CallHandler
<1>3. /\ Head(notices) \in Notices /\ notices' \in Seq(Notices)
      /\ Len(notices') = Len(notices) - 1 /\ Len(notices) \in Nat
      /\ \A j \in 1..Len(notices') : notices'[j] = notices[j + 1]
  BY <1>2, HeadTailProperties, LenProperties DEF FeedInv, FeedTypes
<1>4. owed' \in SUBSET Config
  BY <1>2, <1>3 DEF FeedInv, FeedTypes, Notices
<1>5. FeedTypes'
  BY <1>1, <1>3, <1>4 DEF FeedInv, FeedTypes
<1>6. \A c \in Config : /\ DeltasOK(c, deltas[c], seen[c], reflector.version)'
                        /\ SeenOK(c, seen[c], reflector.version)'
  BY <1>1 DEF DeltasOK, SeenOK, WriteOf, FeedInv
<1>7. NoticesOK'
  <2>1. \A j \in 1..Len(notices') : j + 1 \in 1..Len(notices)
    BY <1>3
  <2> QED
    BY <1>1, <1>3, <2>1 DEF NoticesOK, FeedInv
<1> QED
  BY <1>1, <1>5, <1>6, <1>7 DEF FeedInv

LEMMA HandleKeeps == ASSUME FeedInv, NEW c \in Config, Handle(c) PROVE FeedInv'
<1>1. /\ UNCHANGED <<log, forgotten, reflector, relists, deltas, seen, notices>>
      /\ owed' = owed \ {c} /\ loaded' = [loaded EXCEPT ![c] = seen[c]]
  BY DEF Handle
<1>2. FeedTypes'
  BY <1>1 DEF FeedInv, FeedTypes
<1> QED
  BY <1>1, <1>2 DEF FeedInv, DeltasOK, SeenOK, WriteOf, NoticesOK

LEMMA NextFeed == ASSUME FeedInv, [Next]_feedVars PROVE FeedInv'
<1>1. CASE UNCHANGED feedVars
  BY <1>1 DEF feedVars, FeedInv, FeedTypes, DeltasOK, SeenOK, WriteOf, NoticesOK
<1> QED
  BY <1>1, WriteKeeps, StoreKeeps, HandleKeeps, ListKeeps, WatchKeeps, ForgetKeeps,
     ResyncKeeps, CallHandlerKeeps DEF Next

-----------------------------------------------------------------------------
(* The feed is a lagging cache *)

Owed == owed \union Announced

LEMMA NoticesTyped ==
    ASSUME NEW ns \in Seq(Notices), NEW j \in 1..Len(ns)
    PROVE  ns[j].config \in Config /\ ns[j].old \in Nat
<1>1. ns[j] \in Notices
  BY ElementOfSeq
<1> QED
  BY <1>1 DEF Notices

LEMMA AnnouncedBy ==
    ASSUME notices \in Seq(Notices)
    PROVE  Announced = {c \in Config : \E j \in 1..Len(notices) :
                                         Enqueues(notices[j]) /\ notices[j].config = c}
<1>1. Range(notices) = {notices[j] : j \in 1..Len(notices)}
  BY LenProperties DEF Range
<1>2. \A j \in 1..Len(notices) : notices[j].config \in Config
  BY NoticesTyped
<1> QED
  BY <1>1, <1>2 DEF Announced

\* The same of the next state, with the judgement spelt out.
LEMMA AnnouncedByNext ==
    ASSUME notices' \in Seq(Notices), log' = log
    PROVE  Announced' = {c \in Config : \E j \in 1..Len(notices') :
                                          Enqueues(notices'[j]) /\ notices'[j].config = c}
<1>1. Range(notices') = {notices'[j] : j \in 1..Len(notices')}
  BY LenProperties DEF Range
<1>2. \A j \in 1..Len(notices') : notices'[j].config \in Config
  BY NoticesTyped
<1>3. Announced' = {n.config : n \in {m \in Range(notices') : Enqueues(m)}}
  BY DEF Announced, Enqueues, There
<1> QED
  BY <1>1, <1>2, <1>3

\* A call to come is judged the same whatever is written meanwhile.
LEMMA WriteAnnounces ==
    ASSUME FeedInv, NEW c \in Config, NEW there \in BOOLEAN, Write(c, there)
    PROVE  Announced' = Announced
<1>1. notices' = notices /\ notices \in Seq(Notices)
  BY DEF Write, FeedInv, FeedTypes
<1>2. \A i \in 1..Len(log) : log'[i] = log[i]
  BY WriteAppends DEF FeedInv, FeedTypes
<1>3. ASSUME NEW j \in 1..Len(notices) PROVE Enqueues(notices[j])' <=> Enqueues(notices[j])
  <2>1. notices[j].old \in Nat
    BY <1>1, NoticesTyped
  <2>2. notices[j].old <= Len(log)
    BY DEF FeedInv, NoticesOK
  <2>3. notices[j].old # 0 => notices[j].old \in 1..Len(log)
    BY <2>1, <2>2, LenProperties DEF FeedInv, FeedTypes
  <2>4. There(notices[j].old)' <=> There(notices[j].old)
    BY <1>1, <1>2, <2>3 DEF There
  <2> QED
    BY <1>1, <2>4 DEF Enqueues
<1>4. \A m \in Range(notices) : Enqueues(m)' <=> Enqueues(m)
  BY <1>1, <1>3, LenProperties DEF Range
<1> QED
  BY <1>1, <1>4 DEF Announced

LEMMA QuietAnnounces ==
    ASSUME UNCHANGED <<log, notices>>
    PROVE  Announced' = Announced
BY DEF Announced, Enqueues, There

\* A delta that goes to the store announces itself when it is news and no deletion.
LEMMA StoreAnnounces ==
    ASSUME FeedInv, NEW c \in Config, Store(c)
    PROVE  Announced' = IF seen[c] # Head(deltas[c]) /\ There(Head(deltas[c]))
                          THEN Announced \union {c} ELSE Announced
<1> DEFINE i == Head(deltas[c])
           n == [config |-> c, old |-> seen[c], new |-> i]
<1>1. log' = log /\ notices' = IF There(i) THEN Append(notices, n) ELSE notices
  BY DEF Store
<1>2. notices \in Seq(Notices) /\ n \in Notices
  BY StoredIsLater DEF FeedInv, FeedTypes, Notices
<1>3. n.config = c /\ (Enqueues(n) <=> ~There(seen[c]) \/ seen[c] # i)
  BY DEF Enqueues
<1>4. There(i) /\ seen[c] = i => ~Enqueues(n)
  BY <1>3
<1>5. seen[c] # i => Enqueues(n)
  BY <1>3
<1> HIDE DEF n
<1>6. CASE There(i)
  <2>1. /\ notices' = Append(notices, n) /\ notices' \in Seq(Notices)
        /\ Len(notices') = Len(notices) + 1 /\ Len(notices) \in Nat
        /\ \A j \in 1..Len(notices) : notices'[j] = notices[j]
        /\ notices'[Len(notices) + 1] = n
    BY <1>1, <1>2, <1>6, AppendProperties, LenProperties
  <2>3. 1..Len(notices') = 1..Len(notices) \union {Len(notices) + 1}
    BY <2>1
  <2>4. Announced' = {e \in Config : \E j \in 1..Len(notices') :
                                       Enqueues(notices'[j]) /\ notices'[j].config = e}
    BY <1>1, <2>1, AnnouncedByNext
  <2>5. Announced' = Announced \union (IF Enqueues(n) THEN {c} ELSE {})
    <3> SUFFICES ASSUME NEW e \in Config
                 PROVE  (\E j \in 1..Len(notices') :
                           Enqueues(notices'[j]) /\ notices'[j].config = e)
                        <=> \/ \E j \in 1..Len(notices) :
                                 Enqueues(notices[j]) /\ notices[j].config = e
                            \/ Enqueues(n) /\ e = c
      BY <1>2, <2>4, AnnouncedBy, Zenon
    <3> QED
      BY <1>3, <2>1, <2>3
  <2> QED
    BY <1>4, <1>5, <1>6, <2>5
<1>7. CASE ~There(i)
  BY <1>1, <1>7, QuietAnnounces
<1> QED
  BY <1>6, <1>7

\* What a handler enqueues was announced.
LEMMA CallAnnounces ==
    ASSUME FeedInv, CallHandler
    PROVE  Owed' = Owed
<1> DEFINE h == Head(notices)
<1>1. /\ log' = log /\ notices' = Tail(notices)
      /\ owed' = IF Enqueues(h) THEN owed \union {h.config} ELSE owed
      /\ notices # <<>> /\ notices \in Seq(Notices)
  BY DEF CallHandler, FeedInv, FeedTypes
<1>2. /\ notices' \in Seq(Notices) /\ Len(notices') = Len(notices) - 1
      /\ Len(notices) \in Nat /\ Len(notices) # 0
      /\ \A j \in 1..Len(notices') : notices'[j] = notices[j + 1]
      /\ h = notices[1] /\ h \in Notices
  BY <1>1, HeadTailProperties, LenProperties, EmptySeq
<1> HIDE DEF h
<1>4. Announced' = {e \in Config : \E j \in 1..Len(notices') :
                                     Enqueues(notices'[j]) /\ notices'[j].config = e}
  BY <1>1, <1>2, AnnouncedByNext
<1>5. \A j \in 1..Len(notices) : j = 1 \/ (j - 1 \in 1..Len(notices') /\ (j - 1) + 1 = j)
  BY <1>2
<1>6. \A j \in 1..Len(notices') : j + 1 \in 1..Len(notices)
  BY <1>2
<1>7. 1 \in 1..Len(notices) /\ h.config \in Config
  BY <1>2 DEF Notices
<1>8. ASSUME NEW e \in Config
      PROVE  (\E j \in 1..Len(notices) : Enqueues(notices[j]) /\ notices[j].config = e)
             <=> \/ \E j \in 1..Len(notices') :
                      Enqueues(notices'[j]) /\ notices'[j].config = e
                 \/ Enqueues(h) /\ h.config = e
  <2>1. ASSUME NEW j \in 1..Len(notices), Enqueues(notices[j]), notices[j].config = e
        PROVE  \/ \E k \in 1..Len(notices') :
                    Enqueues(notices'[k]) /\ notices'[k].config = e
               \/ Enqueues(h) /\ h.config = e
    <3>1. CASE j = 1
      BY <1>2, <2>1, <3>1
    <3>2. CASE j # 1
      <4>1. notices'[j - 1] = notices[j] /\ j - 1 \in 1..Len(notices')
        BY <1>2, <1>5, <3>2
      <4> QED
        BY <2>1, <4>1
    <3> QED
      BY <3>1, <3>2
  <2>2. ASSUME NEW j \in 1..Len(notices'), Enqueues(notices'[j]), notices'[j].config = e
        PROVE  \E k \in 1..Len(notices) : Enqueues(notices[k]) /\ notices[k].config = e
    BY <1>2, <1>6, <2>2
  <2>3. ASSUME Enqueues(h), h.config = e
        PROVE  \E k \in 1..Len(notices) : Enqueues(notices[k]) /\ notices[k].config = e
    BY <1>2, <1>7, <2>3
  <2> QED
    BY <2>1, <2>2, <2>3
<1>9. Announced = Announced' \union (IF Enqueues(h) THEN {h.config} ELSE {})
  BY <1>1, <1>4, <1>7, <1>8, AnnouncedBy, Zenon
<1> QED
  BY <1>1, <1>9 DEF Owed

\* The initial states map to the initial state.
LEMMA InitRefines == Init => Cache!Init
<1> SUFFICES ASSUME Init PROVE Cache!Init
  OBVIOUS
<1>1. Announced = {}
  BY DEF Init, Announced, Range
<1> QED
  BY <1>1 DEF Init, Cache!Init

\* Every step maps to a write, a move of the cache, a look of the worker, or nothing.
LEMMA NextRefines ==
    ASSUME FeedInv, [Next]_feedVars
    PROVE  [Cache!Next]_<<log, seen, loaded, owed \union Announced>>
<1> USE DEF Owed
<1>1. ASSUME NEW c \in Config, NEW there \in BOOLEAN, Write(c, there) PROVE Cache!Next
  <2>1. Announced' = Announced
    BY <1>1, WriteAnnounces
  <2>2. Cache!Write(c, there)
    BY <1>1, <2>1 DEF Write, Cache!Write
  <2> QED
    BY <2>2 DEF Cache!Next
<1>2. ASSUME NEW c \in Config, Store(c)
      PROVE  [Cache!Next]_<<log, seen, loaded, owed \union Announced>>
  <2> DEFINE i == Head(deltas[c])
  <2>1. /\ log' = log /\ loaded' = loaded /\ owed' = owed
        /\ seen' = [seen EXCEPT ![c] = i]
    BY <1>2 DEF Store
  <2>2. i \in Nat /\ WriteOf(c, i) /\ seen[c] <= i /\ seen[c] \in Nat /\ Len(log) \in Nat
    BY <1>2, StoredIsLater, LenProperties DEF FeedInv, FeedTypes
  <2>3. Announced' = IF seen[c] # i /\ There(i) THEN Announced \union {c} ELSE Announced
    BY <1>2, StoreAnnounces
  <2> HIDE DEF i
  <2>4. CASE seen[c] = i
    <3>1. seen' = seen
      BY <2>1, <2>4 DEF FeedInv, FeedTypes
    <3>2. Announced' = Announced
      BY <2>3, <2>4
    <3> QED
      BY <2>1, <3>1, <3>2
  <2>5. CASE seen[c] # i
    <3>1. i \in (seen[c] + 1)..Len(log) /\ log[i].config = c /\ i # 0
      BY <2>2, <2>5 DEF WriteOf
    <3>2. There(i) <=> log[i].present
      BY <3>1 DEF There
    <3>3. (owed \union Announced)' = IF log[i].present THEN (owed \union Announced) \union {c}
                                       ELSE owed \union Announced
      <4>1. CASE There(i)
        BY <2>1, <2>3, <2>5, <3>2, <4>1
      <4>2. CASE ~There(i)
        BY <2>1, <2>3, <3>2, <4>2
      <4> QED
        BY <4>1, <4>2
    <3>4. Cache!Sync(c)
      BY <2>1, <3>1, <3>3 DEF Cache!Sync
    <3> QED
      BY <3>4 DEF Cache!Next
  <2> QED
    BY <2>4, <2>5
<1>3. ASSUME NEW c \in Config, Handle(c) PROVE Cache!Next
  <2>1. Announced' = Announced
    BY <1>3, QuietAnnounces DEF Handle
  <2>2. Cache!Handle(c)
    BY <1>3, <2>1 DEF Handle, Cache!Handle
  <2> QED
    BY <2>2 DEF Cache!Next
<1>4. CASE CallHandler
  <2>1. Owed' = Owed
    BY <1>4, CallAnnounces
  <2>2. UNCHANGED <<log, seen, loaded>>
    BY <1>4 DEF CallHandler
  <2> QED
    BY <2>1, <2>2
<1>5. CASE Forget \/ List \/ Watch \/ WatchExpires \/ WatchBreaks \/ Resync
           \/ UNCHANGED feedVars
  <2>1. UNCHANGED <<log, seen, loaded, notices, owed>>
    BY <1>5 DEF Forget, List, Watch, WatchExpires, WatchBreaks, Resync, feedVars
  <2> QED
    BY <2>1, QuietAnnounces
<1> QED
  BY <1>1, <1>2, <1>3, <1>4, <1>5 DEF Next

\* Lists, watches, resyncs, delayed handlers and the API server's forgetting add
\* up to a cache that never goes back and owes the worker each version it moves to.
THEOREM FeedRefines == Spec => FeedIsLaggingCache
<1>1. Init => Cache!Init /\ FeedInv
  BY InitFeed, InitRefines
<1>2. FeedInv /\ [Next]_feedVars
        => FeedInv' /\ [Cache!Next]_<<log, seen, loaded, owed \union Announced>>
  BY NextFeed, NextRefines
<1> QED
  BY <1>1, <1>2, PTL DEF Spec, FeedIsLaggingCache, Cache!Spec

=============================================================================
