---------------------------- MODULE GroupsProofs ----------------------------
(***************************************************************************)
(* What resolution promises handleConfig, for all memberships and answers. *)
(* The lemmas are about the operators of Groups and Subjects, the theorems *)
(* say them of every state MCGroups can reach, whatever its bounds.        *)
(* Lists are built by folds: what a fold makes of the first k elements is  *)
(* shown for every k by taking the least k at which it is not so.          *)
(***************************************************************************)
EXTENDS MCGroups, SequenceTheorems, FiniteSetTheorems, TLAPS

-----------------------------------------------------------------------------
(* Merged.Members *)

\* The config's own map has a group with its subjects, or does not find it.
LEMMA OwnAnswer ==
    ASSUME NEW gm, NEW g
    PROVE  GroupMapMembers(gm, g).err \in {"nil", "notFound"}
BY DEF GroupMapMembers, Success, Failure

\* An error that is no NotFound ends the loop, and is the answer.
LEMMA FatalEnds ==
    ASSUME NEW own, NEW a, own.err \in {"nil", "notFound"},
           a.err \notin {"nil", "notFound"}
    PROVE  MergedMembers(<<own, a>>) = Failure(a.err)
<1> DEFINE answers2 == <<own, a>>
           fatal == {i \in DOMAIN answers2 :
                        answers2[i].err # "nil" /\ ~IsNotFound(answers2[i].err)}
<1>1. DOMAIN answers2 = {1, 2} /\ answers2[1] = own /\ answers2[2] = a
  OBVIOUS
<1>2. fatal = {2}
  BY <1>1 DEF IsNotFound
<1>3. (CHOOSE i \in fatal : \A j \in fatal : i <= j) = 2
  BY <1>2
<1> QED
  BY <1>1, <1>2, <1>3 DEF MergedMembers

\* A list that is returned has somebody in it.
LEMMA ListsHaveMembers ==
    ASSUME NEW own, NEW a,
           MergedMembers(<<own, a>>).err = "nil"
    PROVE  MergedMembers(<<own, a>>).subjects # {}
<1> DEFINE answers2 == <<own, a>>
           fatal == {i \in DOMAIN answers2 :
                        answers2[i].err # "nil" /\ ~IsNotFound(answers2[i].err)}
           first == CHOOSE i \in fatal : \A j \in fatal : i <= j
           union == UNION {answers2[i].subjects : i \in DOMAIN answers2}
<1>1. DOMAIN answers2 = {1, 2}
  OBVIOUS
<1>2. MergedMembers(answers2) = IF fatal # {}
                                 THEN Failure(answers2[first].err)
                                 ELSE IF union = {} THEN Failure("notFound")
                                                    ELSE Success(union)
  BY DEF MergedMembers
<1>3. CASE fatal # {}
  <2>1. first \in fatal
    <3>1. fatal \subseteq {1, 2}
      BY <1>1
    <3>2. \E i \in fatal : \A j \in fatal : i <= j
      <4> HIDE DEF fatal
      <4>1. CASE 1 \in fatal
        <5>1. \A j \in fatal : 1 <= j
          BY <3>1
        <5> QED
          BY <4>1, <5>1
      <4>2. CASE 1 \notin fatal
        <5>1. fatal = {2}
          BY <1>3, <3>1, <4>2
        <5>2. \A j \in fatal : 2 <= j
          BY <5>1
        <5> QED
          BY <5>1, <5>2
      <4> QED
        BY <4>1, <4>2
    <3> HIDE DEF fatal
    <3> QED
      BY <3>2
  <2>2. answers2[first].err # "nil"
    BY <2>1
  <2> HIDE DEF fatal, first
  <2> QED
    BY <1>2, <1>3, <2>2 DEF Failure
<1>4. CASE fatal = {}
  <2> HIDE DEF fatal, first, union
  <2> QED
    BY <1>2, <1>4 DEF Failure, Success
<1> QED
  BY <1>3, <1>4

-----------------------------------------------------------------------------
(* resolveGroups *)

\* What the map says of a group depends only on the subjects that all its
\* memberships have together.
LEMMA TogetherIsAll ==
    ASSUME NEW memberships1, NEW g
    PROVE  LET of == {m \in Range(memberships1) : m.group = g}
               all == UNION {m.subjects : m \in of}
           IN  GroupMapMembers(GroupMapOf(memberships1), g)
                 = IF all = {} THEN Failure("notFound") ELSE Success(all)
<1> DEFINE R == Range(memberships1)
           of == {m \in R : m.group = g}
           all == UNION {m.subjects : m \in of}
           filled == {m \in R : m.subjects # {}}
           gm == GroupMapOf(memberships1)
<1> HIDE DEF R
<1>1. gm = [h \in {m.group : m \in filled} |->
              UNION {m.subjects : m \in {f \in filled : f.group = h}}]
  BY DEF GroupMapOf, R
<1>2. g \in {m.group : m \in filled} <=> all # {}
  OBVIOUS
<1>3. all = UNION {m.subjects : m \in {f \in filled : f.group = g}}
  OBVIOUS
<1>4. g \in DOMAIN gm <=> all # {}
  BY <1>1, <1>2
<1>5. g \in DOMAIN gm => gm[g] = all
  BY <1>1, <1>3
<1>6. GroupMapMembers(gm, g) = IF all = {} THEN Failure("notFound") ELSE Success(all)
  <2> HIDE DEF gm, all
  <2> QED
    BY <1>4, <1>5 DEF GroupMapMembers
<1> QED
  BY <1>6 DEF R

LEMMA RangeOfOne ==
    ASSUME NEW x
    PROVE  Range(<<x>>) = {x}
<1>1. DOMAIN <<x>> = {1} /\ <<x>>[1] = x
  OBVIOUS
<1> QED
  BY <1>1 DEF Range

LEMMA ReversedRange ==
    ASSUME NEW S, NEW s \in Seq(S)
    PROVE  Range(Reverse(s)) = Range(s)
<1>1. Len(s) \in Nat /\ DOMAIN s = 1..Len(s)
  BY LenProperties
<1>2. Reverse(s) = [i \in 1..Len(s) |-> s[(Len(s) - i) + 1]]
  BY DEF Reverse
<1>3. ASSUME NEW i \in 1..Len(s)
      PROVE  (Len(s) - i) + 1 \in 1..Len(s) /\ (Len(s) - ((Len(s) - i) + 1)) + 1 = i
  BY <1>1
<1>4. Range(Reverse(s)) = {s[(Len(s) - i) + 1] : i \in 1..Len(s)}
  BY <1>2 DEF Range
<1>5. Range(s) = {s[i] : i \in 1..Len(s)}
  BY <1>1 DEF Range
<1> QED
  BY <1>3, <1>4, <1>5

-----------------------------------------------------------------------------
(* Folds over lists *)

\* A set of numbers has a smallest one.
LEMMA LeastOf ==
    ASSUME NEW T \in SUBSET Nat, T # {}
    PROVE  \E x \in T : \A y \in T : x <= y
<1>1. PICK x \in T : \A y \in T : ~(<<y, x>> \in OpToRel(<, Nat))
  BY NatLessThanWellFounded, WFMin
<1>2. ASSUME NEW y \in T PROVE x <= y
  <2>1. x \in Nat /\ y \in Nat
    OBVIOUS
  <2>2. y < x => <<y, x>> \in OpToRel(<, Nat)
    BY <2>1 DEF OpToRel
  <2>3. ~(y < x)
    BY <1>1, <2>2
  <2> QED
    BY <2>1, <2>3
<1> QED
  BY <1>2

\* A set of numbers that has 0, and with a number the next one, has all.
LEMMA AllNumbers ==
    ASSUME NEW S \in SUBSET Nat, 0 \in S, \A n \in S : n + 1 \in S
    PROVE  S = Nat
<1> SUFFICES ASSUME Nat \ S # {} PROVE FALSE
  OBVIOUS
<1> DEFINE T == Nat \ S
<1>1. PICK x \in T : \A y \in T : x <= y
  <2>1. T \subseteq Nat /\ T # {}
    OBVIOUS
  <2> HIDE DEF T
  <2> QED
    BY <2>1, LeastOf
<1>2. x - 1 \in Nat /\ x - 1 < x
  BY <1>1
<1>3. x - 1 \notin T
  BY <1>1, <1>2
<1>4. (x - 1) + 1 \in S
  BY <1>2, <1>3
<1> QED
  BY <1>1, <1>4

\* A set of positive numbers that has with a number all smaller ones goes up to
\* how many they are.
LEMMA PrefixCount ==
    ASSUME NEW n \in Nat, NEW P \in SUBSET (1..n),
           \A j \in P : \A i \in 1..j : i \in P
    PROVE  Cardinality(P) \in 0..n /\ P = 1..Cardinality(P)
<1> DEFINE T == {k \in Nat : k + 1 \notin P}
<1>1. PICK x \in T : \A y \in T : x <= y
  <2>1. T \subseteq Nat /\ n \in T
    OBVIOUS
  <2> HIDE DEF T
  <2> QED
    BY <2>1, LeastOf
<1>2. x \in Nat /\ x <= n
  BY <1>1
<1>3. 1..x \subseteq P
  <2> SUFFICES ASSUME NEW k \in 1..x PROVE k \in P
    OBVIOUS
  <2>1. k - 1 \in Nat /\ k - 1 < x /\ (k - 1) + 1 = k
    BY <1>2
  <2>2. k - 1 \notin T
    BY <1>1, <1>2, <2>1
  <2> QED
    BY <2>1, <2>2
<1>4. P \subseteq 1..x
  <2> SUFFICES ASSUME NEW j \in P, j \notin 1..x PROVE FALSE
    OBVIOUS
  <2>1. x + 1 \in 1..j
    BY <1>2
  <2> QED
    BY <1>1, <2>1
<1>5. P = 1..x
  BY <1>3, <1>4
<1>6. Cardinality(1..x) = x
  <2>1. Cardinality(1..x) = IF 1 > x THEN 0 ELSE x - 1 + 1
    BY <1>2, FS_Interval
  <2> QED
    BY <1>2, <2>1
<1> QED
  BY <1>2, <1>5, <1>6

\* A set of numbers that is bounded has a greatest one.
LEMMA GreatestOf ==
    ASSUME NEW n \in Nat, NEW T \in SUBSET (1..n), T # {}
    PROVE  \E x \in T : \A y \in T : x >= y
<1> DEFINE Distances == {n - i : i \in T}
<1>1. \A i \in T : i \in 1..n /\ n - i \in Nat
  OBVIOUS
<1>2. PICK d \in Distances : \A e \in Distances : d <= e
  <2>1. Distances \in SUBSET Nat /\ Distances # {}
    BY <1>1
  <2> HIDE DEF Distances
  <2> QED
    BY <2>1, LeastOf
<1>3. PICK x \in T : d = n - x
  BY <1>2
<1>4. \A y \in T : n - x <= n - y
  BY <1>2, <1>3
<1> QED
  BY <1>1, <1>4

\* The greatest number of a set.
LEMMA TopOf ==
    ASSUME NEW n \in Nat, NEW T \in SUBSET (1..(n + 1)), n + 1 \in T
    PROVE  Max(T) = n + 1
<1>1. \A y \in T : n + 1 >= y
  OBVIOUS
<1>2. Max(T) \in T /\ \A y \in T : Max(T) >= y
  BY <1>1 DEF Max
<1>3. Max(T) \in 1..(n + 1)
  BY <1>2
<1> QED
  BY <1>2, <1>3

\* it[t] folds the step F over the members of s at the places in t.
IsFold(it, A, F, base, s) ==
    /\ it \in [SUBSET DOMAIN s -> A]
    /\ \A t \in SUBSET DOMAIN s :
          it[t] = IF t = {} THEN base ELSE F[it[t \ {Max(t)}]][s[Max(t)]]

\* The function that FoldLeft iterates exists, if the step stays in a set of
\* accumulated values.
LEMMA FoldDefined ==
    ASSUME NEW A, NEW B, NEW F \in [A -> [B -> A]], NEW base \in A, NEW s \in Seq(B)
    PROVE  \E it : IsFold(it, A, F, base, s)
<1> DEFINE Folds(n, it) ==
             \A t \in SUBSET (1..n) :
                it[t] = IF t = {} THEN base ELSE F[it[t \ {Max(t)}]][s[Max(t)]]
           Good == {n \in Nat : n <= Len(s) => \E it \in [SUBSET (1..n) -> A] : Folds(n, it)}
<1>0. Len(s) \in Nat /\ DOMAIN s = 1..Len(s) /\ \A i \in 1..Len(s) : s[i] \in B
  BY LenProperties, ElementOfSeq
<1>1. 0 \in Good
  <2> DEFINE it == [t \in SUBSET (1..0) |-> base]
  <2>1. SUBSET (1..0) = {{}}
    OBVIOUS
  <2>2. it \in [SUBSET (1..0) -> A] /\ Folds(0, it)
    BY <2>1
  <2> QED
    BY <2>2
<1>2. ASSUME NEW n \in Good PROVE n + 1 \in Good
  <2> SUFFICES ASSUME n + 1 <= Len(s)
               PROVE  \E it \in [SUBSET (1..(n + 1)) -> A] : Folds(n + 1, it)
    <3>1. n + 1 \in Nat
      BY <1>2
    <3> HIDE DEF Folds
    <3> QED
      BY <1>2, <3>1, Zenon
  <2>0. n \in Nat /\ n <= Len(s) /\ s[n + 1] \in B
    BY <1>0
  <2>1. PICK it \in [SUBSET (1..n) -> A] : Folds(n, it)
    BY <2>0
  <2> DEFINE next == [t \in SUBSET (1..(n + 1)) |->
                        IF n + 1 \in t THEN F[it[t \ {n + 1}]][s[n + 1]] ELSE it[t]]
  <2>2. ASSUME NEW t \in SUBSET (1..(n + 1)), n + 1 \in t
        PROVE  /\ t \ {n + 1} \in SUBSET (1..n) /\ Max(t) = n + 1
               /\ next[t] = F[it[t \ {n + 1}]][s[n + 1]]
               /\ next[t \ {n + 1}] = it[t \ {n + 1}]
    BY <2>0, <2>2, TopOf
  <2>3. ASSUME NEW t \in SUBSET (1..(n + 1)), n + 1 \notin t
        PROVE  t \in SUBSET (1..n) /\ next[t] = it[t]
    BY <2>0, <2>3
  <2>4. next \in [SUBSET (1..(n + 1)) -> A]
    <3>1. ASSUME NEW t \in SUBSET (1..(n + 1)) PROVE next[t] \in A
      <4> HIDE DEF next
      <4>1. CASE n + 1 \in t
        <5>1. it[t \ {n + 1}] \in A
          BY <2>1, <2>2, <4>1
        <5>2. F[it[t \ {n + 1}]] \in [B -> A]
          BY <5>1
        <5>3. F[it[t \ {n + 1}]][s[n + 1]] \in A
          BY <2>0, <5>2
        <5>4. next[t] = F[it[t \ {n + 1}]][s[n + 1]]
          BY <2>2, <4>1
        <5> QED
          BY <5>3, <5>4
      <4>2. CASE n + 1 \notin t
        BY <2>3, <4>2
      <4> QED
        BY <4>1, <4>2
    <3> QED
      BY <3>1
  <2>5. ASSUME NEW t \in SUBSET (1..(n + 1))
        PROVE  next[t] = IF t = {} THEN base ELSE F[next[t \ {Max(t)}]][s[Max(t)]]
    <3>1. CASE n + 1 \in t
      <4> HIDE DEF next
      <4> QED
        BY <2>2, <3>1
    <3>2. CASE n + 1 \notin t /\ t = {}
      <4> HIDE DEF next
      <4> QED
        BY <2>1, <2>3, <3>2
    <3>3. CASE n + 1 \notin t /\ t # {}
      <4> HIDE DEF next
      <4>1. t \in SUBSET (1..n) /\ next[t] = it[t]
        BY <2>3, <3>3
      <4>2. it[t] = F[it[t \ {Max(t)}]][s[Max(t)]]
        BY <2>1, <3>3, <4>1
      <4>3. t \ {Max(t)} \in SUBSET (1..(n + 1)) /\ n + 1 \notin t \ {Max(t)}
        BY <3>3
      <4>4. next[t \ {Max(t)}] = it[t \ {Max(t)}]
        BY <2>3, <4>3
      <4> QED
        BY <3>3, <4>1, <4>2, <4>4
    <3> QED
      BY <3>1, <3>2, <3>3
  <2>6. Folds(n + 1, next)
    BY <2>5
  <2> HIDE DEF next, Folds
  <2> QED
    BY <2>4, <2>6
<1>3. Good = Nat
  <2>1. Good \in SUBSET Nat
    OBVIOUS
  <2> HIDE DEF Good
  <2> QED
    BY <1>1, <1>2, <2>1, AllNumbers
<1>4. \E it \in [SUBSET (1..Len(s)) -> A] : Folds(Len(s), it)
  <2>1. Len(s) \in Good
    BY <1>0, <1>3
  <2>2. Len(s) <= Len(s)
    BY <1>0
  <2> HIDE DEF Folds
  <2> QED
    BY <2>1, <2>2, Zenon
<1> QED
  BY <1>0, <1>4 DEF IsFold

-----------------------------------------------------------------------------
(* Normalize *)

\* By name, namesakes in any order.
InOrder(list) == \A i, j \in DOMAIN list : i < j => list[i].name <= list[j].name
Ordered == {list \in Seq(Subject) : InOrder(list)}

LEMMA InsertedAt ==
    ASSUME NEW list \in Ordered, NEW x \in Subject
    PROVE  \E at \in 0..Len(list) :
              /\ \A j \in 1..Len(list) : list[j].name <= x.name <=> j <= at
              /\ Insert(list, x) \in Seq(Subject)
              /\ Len(Insert(list, x)) = Len(list) + 1
              /\ \A k \in 1..(Len(list) + 1) :
                    Insert(list, x)[k] = IF k <= at THEN list[k]
                                         ELSE IF k = at + 1 THEN x ELSE list[k - 1]
<1> DEFINE n == Len(list)
           P == {j \in DOMAIN list : list[j].name <= x.name}
           at == Cardinality(P)
<1>1. /\ list \in Seq(Subject) /\ n \in Nat /\ DOMAIN list = 1..n
      /\ \A j \in 1..n : list[j] \in Subject
  BY LenProperties, ElementOfSeq DEF Ordered
<1>2. \A s \in Subject : s.name \in Nat
  BY SubjectsAssumption
<1>3. P \in SUBSET (1..n) /\ \A j \in P : \A i \in 1..j : i \in P
  <2> SUFFICES ASSUME NEW j \in P, NEW i \in 1..j PROVE i \in P
    BY <1>1
  <2>1. i \in 1..n /\ j \in 1..n /\ list[j].name <= x.name
    BY <1>1
  <2>2. list[i].name <= list[j].name
    BY <1>1, <1>2, <2>1 DEF Ordered, InOrder
  <2>3. list[i].name \in Nat /\ list[j].name \in Nat /\ x.name \in Nat
    BY <1>1, <1>2, <2>1
  <2> QED
    BY <1>1, <2>1, <2>2, <2>3
<1>4. at \in 0..n /\ P = 1..at
  <2> HIDE DEF P, n
  <2> QED
    BY <1>1, <1>3, PrefixCount
<1>5. \A j \in 1..n : list[j].name <= x.name <=> j <= at
  <2> SUFFICES ASSUME NEW j \in 1..n PROVE list[j].name <= x.name <=> j <= at
    OBVIOUS
  <2>1. list[j].name <= x.name <=> j \in P
    BY <1>1
  <2> HIDE DEF P
  <2> QED
    BY <1>1, <1>4, <2>1
<1> DEFINE front == SubSeq(list, 1, at)
           back  == SubSeq(list, at + 1, n)
<1>6. Insert(list, x) = front \o <<x>> \o back
  BY DEF Insert
<1> HIDE DEF at, P
<1>7. /\ front \in Seq(Subject) /\ Len(front) = at
      /\ \A k \in 1..at : front[k] = list[k]
  <2>1. \A k \in 1..at : list[k] \in Subject
    BY <1>1, <1>4
  <2>2. /\ front \in Seq(Subject)
        /\ Len(front) = IF 1 <= at THEN at - 1 + 1 ELSE 0
        /\ \A k \in 1..(at - 1 + 1) : front[k] = list[1 + k - 1]
    BY <1>4, <2>1, SubSeqProperties
  <2> QED
    BY <1>4, <2>2
<1>8. /\ back \in Seq(Subject) /\ Len(back) = n - at
      /\ \A k \in 1..(n - at) : back[k] = list[at + k]
  <2>1. \A k \in (at + 1)..n : list[k] \in Subject
    BY <1>1, <1>4
  <2>2. /\ back \in Seq(Subject)
        /\ Len(back) = IF at + 1 <= n THEN n - (at + 1) + 1 ELSE 0
        /\ \A k \in 1..(n - (at + 1) + 1) : back[k] = list[at + 1 + k - 1]
    BY <1>1, <1>4, <2>1, SubSeqProperties
  <2>3. n - (at + 1) + 1 = n - at /\ \A k \in 1..(n - at) : at + 1 + k - 1 = at + k
    BY <1>1, <1>4
  <2>4. at + 1 <= n \/ n - at = 0
    <3>1. at \in Nat /\ n \in Nat /\ at <= n
      BY <1>1, <1>4
    <3> HIDE DEF n
    <3> QED
      BY <3>1
  <2> HIDE DEF back
  <2>5. \A k \in 1..(n - at) : back[k] = list[at + k]
    BY <2>2, <2>3
  <2>6. Len(back) = n - at
    BY <2>2, <2>3, <2>4
  <2> QED
    BY <2>2, <2>5, <2>6
<1> HIDE DEF front, back
<1>9. /\ front \o <<x>> \in Seq(Subject) /\ Len(front \o <<x>>) = at + 1
      /\ \A k \in 1..(at + 1) : (front \o <<x>>)[k] = IF k <= at THEN list[k] ELSE x
  <2>1. <<x>> \in Seq(Subject) /\ Len(<<x>>) = 1 /\ <<x>>[1] = x
    OBVIOUS
  <2>2. /\ front \o <<x>> \in Seq(Subject) /\ Len(front \o <<x>>) = at + 1
        /\ \A k \in 1..(at + 1) :
              (front \o <<x>>)[k] = IF k <= at THEN front[k] ELSE <<x>>[k - at]
    <3> HIDE DEF front
    <3> QED
      BY <1>7, <2>1, ConcatProperties
  <2>3. \A k \in 1..(at + 1) : k <= at \/ k - at = 1
    BY <1>4
  <2> QED
    BY <1>4, <1>7, <2>1, <2>2, <2>3
<1> DEFINE first == front \o <<x>>
<1>10. /\ first \o back \in Seq(Subject) /\ Len(first \o back) = n + 1
       /\ \A k \in 1..(n + 1) :
             (first \o back)[k] = IF k <= at + 1 THEN first[k] ELSE back[k - (at + 1)]
  <2>1. first \in Seq(Subject) /\ Len(first) = at + 1
    BY <1>9
  <2> HIDE DEF first
  <2>2. Len(first) + Len(back) = n + 1
    BY <1>1, <1>4, <1>8, <2>1
  <2> QED
    BY <1>8, <2>1, <2>2, ConcatProperties
<1>11. ASSUME NEW k \in 1..(n + 1)
       PROVE  (first \o back)[k] = IF k <= at THEN list[k]
                                   ELSE IF k = at + 1 THEN x ELSE list[k - 1]
  <2>1. CASE k <= at + 1
    BY <1>1, <1>4, <1>9, <1>10, <2>1
  <2>2. CASE ~(k <= at + 1)
    <3>1. k - (at + 1) \in 1..(n - at) /\ at + (k - (at + 1)) = k - 1 /\ ~(k <= at)
      BY <1>1, <1>4, <2>2
    <3>2. back[k - (at + 1)] = list[k - 1]
      BY <1>8, <3>1
    <3>3. (first \o back)[k] = back[k - (at + 1)]
      BY <1>10, <2>2
    <3> HIDE DEF first
    <3> QED
      BY <1>4, <2>2, <3>1, <3>2, <3>3
  <2> QED
    BY <2>1, <2>2
<1> HIDE DEF first
<1>12. Insert(list, x) = first \o back
  BY <1>6 DEF first
<1> QED
  BY <1>4, <1>5, <1>10, <1>11, <1>12

\* Where an insertion finds the members of the longer list.
LEMMA Inserted ==
    ASSUME NEW list \in Ordered, NEW x \in Subject
    PROVE  /\ Insert(list, x) \in Ordered
           /\ Range(Insert(list, x)) = Range(list) \union {x}
           /\ IsInjective(list) /\ x \notin Range(list) => IsInjective(Insert(list, x))
<1> DEFINE n == Len(list)
           longer == Insert(list, x)
<1>1. /\ n \in Nat /\ DOMAIN list = 1..n /\ \A j \in 1..n : list[j] \in Subject
      /\ \A i, j \in 1..n : i < j => list[i].name <= list[j].name
  <2>1. list \in Seq(Subject) /\ InOrder(list)
    BY DEF Ordered
  <2> QED
    BY <2>1, LenProperties, ElementOfSeq DEF InOrder
<1>2. PICK at \in 0..n :
        /\ \A j \in 1..n : list[j].name <= x.name <=> j <= at
        /\ longer \in Seq(Subject) /\ Len(longer) = n + 1
        /\ \A k \in 1..(n + 1) : longer[k] = IF k <= at THEN list[k]
                                             ELSE IF k = at + 1 THEN x ELSE list[k - 1]
  BY InsertedAt
<1> HIDE DEF n, longer
<1>3. at \in Nat /\ n \in Nat /\ at <= n /\ DOMAIN longer = 1..(n + 1)
  BY <1>1, <1>2, LenProperties
<1>4. ASSUME NEW k \in 1..(n + 1)
      PROVE  \/ k <= at /\ k \in 1..n /\ longer[k] = list[k] /\ list[k].name <= x.name
             \/ k = at + 1 /\ longer[k] = x
             \/ /\ k > at + 1 /\ k - 1 \in 1..n /\ longer[k] = list[k - 1]
                /\ ~(list[k - 1].name <= x.name)
  <2>1. CASE k <= at
    BY <1>2, <1>3, <2>1
  <2>2. CASE k = at + 1
    <3>1. ~(k <= at)
      BY <1>3, <2>2
    <3> QED
      BY <1>2, <2>2, <3>1
  <2>3. CASE k > at + 1
    <3>1. k - 1 \in 1..n /\ ~(k - 1 <= at) /\ ~(k <= at) /\ k # at + 1
      BY <1>3, <2>3
    <3>2. longer[k] = list[k - 1]
      BY <1>2, <3>1
    <3>3. ~(list[k - 1].name <= x.name)
      BY <1>2, <3>1
    <3> QED
      BY <2>3, <3>1, <3>2, <3>3
  <2> QED
    BY <1>3, <2>1, <2>2, <2>3
<1>5. \A s \in Subject : s.name \in Nat
  BY SubjectsAssumption
<1>6. ASSUME NEW k \in 1..(n + 1), NEW m \in 1..(n + 1), k < m
      PROVE  longer[k].name <= longer[m].name
  <2>1. \A j \in 1..n : list[j].name \in Nat
    BY <1>1, <1>5
  <2>2. x.name \in Nat
    BY <1>5
  <2>3. CASE k <= at
    <3>1. longer[k] = list[k] /\ k \in 1..n /\ list[k].name <= x.name
      BY <1>3, <1>4, <2>3
    <3>2. CASE m <= at
      <4>1. longer[m] = list[m] /\ m \in 1..n
        BY <1>3, <1>4, <3>2
      <4> QED
        BY <1>1, <1>6, <3>1, <4>1
    <3>3. CASE m = at + 1
      <4>1. longer[m] = x
        BY <1>3, <1>4, <3>3
      <4> QED
        BY <3>1, <4>1
    <3>4. CASE m > at + 1
      <4>1. longer[m] = list[m - 1] /\ m - 1 \in 1..n /\ ~(list[m - 1].name <= x.name)
        BY <1>3, <1>4, <3>4
      <4>2. list[m - 1].name \in Nat /\ list[k].name \in Nat
        BY <2>1, <3>1, <4>1
      <4> QED
        BY <2>2, <3>1, <4>1, <4>2
    <3> QED
      BY <1>3, <3>2, <3>3, <3>4
  <2>4. CASE k >= at + 1
    <3>1. longer[m] = list[m - 1] /\ m - 1 \in 1..n /\ ~(list[m - 1].name <= x.name)
      BY <1>3, <1>4, <1>6, <2>4
    <3>2. list[m - 1].name \in Nat
      BY <2>1, <3>1
    <3>3. CASE k = at + 1
      <4>1. longer[k] = x
        BY <1>3, <1>4, <3>3
      <4> QED
        BY <2>2, <3>1, <3>2, <4>1
    <3>4. CASE k > at + 1
      <4>1. longer[k] = list[k - 1] /\ k - 1 \in 1..n
        BY <1>3, <1>4, <3>4
      <4>2. k - 1 < m - 1
        BY <1>6
      <4> QED
        BY <1>1, <3>1, <4>1, <4>2
    <3> QED
      BY <1>3, <2>4, <3>3, <3>4
  <2> QED
    BY <1>3, <2>3, <2>4
<1>7. longer \in Ordered
  BY <1>2, <1>3, <1>6 DEF Ordered, InOrder
<1>8. Range(longer) = Range(list) \union {x}
  <2>1. \A k \in 1..(n + 1) : longer[k] \in Range(list) \union {x}
    <3> SUFFICES ASSUME NEW k \in 1..(n + 1) PROVE longer[k] \in Range(list) \union {x}
      OBVIOUS
    <3>1. \A j \in 1..n : list[j] \in Range(list)
      BY <1>1 DEF Range
    <3> QED
      BY <1>4, <3>1
  <2>2. x \in Range(longer)
    <3>1. at + 1 \in 1..(n + 1) /\ ~(at + 1 <= at)
      BY <1>3
    <3>2. longer[at + 1] = x
      BY <1>2, <3>1
    <3> QED
      BY <1>3, <3>1, <3>2 DEF Range
  <2>3. ASSUME NEW j \in 1..n PROVE list[j] \in Range(longer)
    <3>1. CASE j <= at
      <4>1. j \in 1..(n + 1) /\ longer[j] = list[j]
        BY <1>2, <1>3, <3>1
      <4> QED
        BY <1>3, <4>1 DEF Range
    <3>2. CASE ~(j <= at)
      <4>1. j + 1 \in 1..(n + 1) /\ ~(j + 1 <= at) /\ j + 1 # at + 1 /\ (j + 1) - 1 = j
        BY <1>3, <3>2
      <4>2. longer[j + 1] = list[j]
        BY <1>2, <4>1
      <4> QED
        BY <1>3, <4>1, <4>2 DEF Range
    <3> QED
      BY <3>1, <3>2
  <2> QED
    BY <1>1, <1>3, <2>1, <2>2, <2>3 DEF Range
<1>9. ASSUME IsInjective(list), x \notin Range(list) PROVE IsInjective(longer)
  <2> SUFFICES ASSUME NEW k \in 1..(n + 1), NEW m \in 1..(n + 1), longer[k] = longer[m]
               PROVE  k = m
    BY <1>3 DEF IsInjective
  <2>1. \A j \in 1..n : list[j] # x
    BY <1>1, <1>9 DEF Range
  <2>2. \A i, j \in 1..n : list[i] = list[j] => i = j
    BY <1>1, <1>9 DEF IsInjective
  <2>3. CASE k <= at
    <3>1. longer[k] = list[k] /\ k \in 1..n
      BY <1>3, <1>4, <2>3
    <3>2. m <= at \/ m > at + 1
      BY <1>3, <1>4, <2>1, <3>1
    <3>3. CASE m <= at
      <4>1. longer[m] = list[m] /\ m \in 1..n
        BY <1>3, <1>4, <3>3
      <4> QED
        BY <2>2, <3>1, <4>1
    <3>4. CASE m > at + 1
      <4>1. longer[m] = list[m - 1] /\ m - 1 \in 1..n
        BY <1>3, <1>4, <3>4
      <4>2. k = m - 1
        BY <2>2, <3>1, <4>1
      <4> QED
        BY <1>3, <2>3, <3>4, <4>2
    <3> QED
      BY <3>2, <3>3, <3>4
  <2>4. CASE k = at + 1
    <3>1. longer[k] = x
      BY <1>3, <1>4, <2>4
    <3>2. longer[m] = x => m = at + 1
      BY <1>3, <1>4, <2>1
    <3> QED
      BY <2>4, <3>1, <3>2
  <2>5. CASE k > at + 1
    <3>1. longer[k] = list[k - 1] /\ k - 1 \in 1..n
      BY <1>3, <1>4, <2>5
    <3>2. m <= at \/ m > at + 1
      BY <1>3, <1>4, <2>1, <3>1
    <3>3. CASE m <= at
      <4>1. longer[m] = list[m] /\ m \in 1..n
        BY <1>3, <1>4, <3>3
      <4>2. k - 1 = m
        BY <2>2, <3>1, <4>1
      <4> QED
        BY <1>3, <2>5, <3>3, <4>2
    <3>4. CASE m > at + 1
      <4>1. longer[m] = list[m - 1] /\ m - 1 \in 1..n
        BY <1>3, <1>4, <3>4
      <4>2. k - 1 = m - 1
        BY <2>2, <3>1, <4>1
      <4> QED
        BY <4>2
    <3> QED
      BY <3>2, <3>3, <3>4
  <2> QED
    BY <1>3, <2>3, <2>4, <2>5
<1> QED
  BY <1>7, <1>8, <1>9 DEF longer

\* Sorting is one insertion after another.
LEMMA SortSteps ==
    ASSUME NEW s \in Seq(Subject)
    PROVE  \E sorted \in [0..Len(s) -> Ordered] :
              /\ sorted[0] = <<>>
              /\ \A n \in 0..(Len(s) - 1) : sorted[n + 1] = Insert(sorted[n], s[n + 1])
              /\ SortSubjects(s) = sorted[Len(s)]
<1> DEFINE F == [list \in Ordered |-> [x \in Subject |-> Insert(list, x)]]
           Sorts(it) == it = [t \in SUBSET DOMAIN s |->
                               IF t = {} THEN <<>>
                               ELSE Insert(it[t \ {Max(t)}], s[Max(t)])]
<1>0. /\ Len(s) \in Nat /\ DOMAIN s = 1..Len(s)
      /\ \A i \in 1..Len(s) : s[i] \in Subject
  BY LenProperties, ElementOfSeq
<1>1. <<>> \in Ordered
  BY DEF Ordered, InOrder
<1>2. F \in [Ordered -> [Subject -> Ordered]]
  BY Inserted
<1>3. PICK one : IsFold(one, Ordered, F, <<>>, s)
  <2> HIDE DEF F
  <2> QED
    BY <1>1, <1>2, FoldDefined
<1>4. ASSUME NEW t \in SUBSET DOMAIN s, t # {}
      PROVE  Max(t) \in t /\ t \ {Max(t)} \in SUBSET DOMAIN s
  <2>1. t \subseteq 1..Len(s)
    BY <1>0
  <2>2. PICK m \in t : \A y \in t : m >= y
    BY <1>0, <1>4, <2>1, GreatestOf
  <2>3. Max(t) \in t
    BY <2>2 DEF Max
  <2> QED
    BY <2>3
<1>5. Sorts(one)
  <2>1. ASSUME NEW t \in SUBSET DOMAIN s, t # {}
        PROVE  F[one[t \ {Max(t)}]][s[Max(t)]] = Insert(one[t \ {Max(t)}], s[Max(t)])
    <3>1. one[t \ {Max(t)}] \in Ordered /\ s[Max(t)] \in Subject
      BY <1>0, <1>3, <1>4, <2>1 DEF IsFold
    <3> QED
      BY <3>1
  <2> HIDE DEF F
  <2> QED
    BY <1>3, <2>1 DEF IsFold
<1> DEFINE it == CHOOSE it : Sorts(it)
<1>6. Sorts(it)
  <2> HIDE DEF Sorts
  <2> QED
    BY <1>5
<1>7. SortSubjects(s) = it[DOMAIN s]
  BY DEF SortSubjects, FoldLeft, MapThenFoldSet
<1> HIDE DEF it
<1> DEFINE sorted == [n \in 0..Len(s) |-> it[1..n]]
<1>8. /\ sorted[0] = <<>>
      /\ \A n \in 0..(Len(s) - 1) : sorted[n + 1] = Insert(sorted[n], s[n + 1])
  <2>1. ASSUME NEW t \in SUBSET DOMAIN s
        PROVE  it[t] = IF t = {} THEN <<>> ELSE Insert(it[t \ {Max(t)}], s[Max(t)])
    BY <1>6
  <2> HIDE DEF Sorts
  <2>2. sorted[0] = <<>>
    <3>1. 1..0 = {} /\ 0 \in 0..Len(s)
      BY <1>0
    <3> QED
      BY <2>1, <3>1
  <2>3. ASSUME NEW n \in 0..(Len(s) - 1) PROVE sorted[n + 1] = Insert(sorted[n], s[n + 1])
    <3>1. n \in Nat /\ n + 1 \in 0..Len(s) /\ n \in 0..Len(s)
      BY <1>0
    <3>2. 1..(n + 1) \in SUBSET DOMAIN s /\ 1..(n + 1) # {}
      <4>1. n + 1 \in 1..(n + 1) /\ 1..(n + 1) \subseteq 1..Len(s)
        BY <1>0, <3>1
      <4> QED
        BY <1>0, <4>1
    <3>3. Max(1..(n + 1)) = n + 1
      BY <3>1, TopOf
    <3>4. (1..(n + 1)) \ {n + 1} = 1..n
      BY <3>1
    <3>5. it[1..(n + 1)] = Insert(it[1..n], s[n + 1])
      BY <2>1, <3>2, <3>3, <3>4
    <3> QED
      BY <3>1, <3>5
  <2> QED
    BY <2>2, <2>3
<1>9. sorted \in [0..Len(s) -> Ordered]
  <2> DEFINE Good == {n \in Nat : n <= Len(s) => sorted[n] \in Ordered}
  <2> HIDE DEF sorted
  <2>1. 0 \in Good
    BY <1>1, <1>8
  <2>2. ASSUME NEW n \in Good PROVE n + 1 \in Good
    <3> SUFFICES ASSUME n + 1 <= Len(s) PROVE sorted[n + 1] \in Ordered
      OBVIOUS
    <3>1. n \in 0..(Len(s) - 1) /\ n + 1 \in 1..Len(s) /\ sorted[n] \in Ordered
      BY <1>0
    <3> QED
      BY <1>0, <1>8, <3>1, Inserted
  <2>3. Good = Nat
    <3> HIDE DEF Good
    <3>1. Good \in SUBSET Nat
      BY DEF Good
    <3> QED
      BY <2>1, <2>2, <3>1, AllNumbers
  <2>4. \A n \in 0..Len(s) : sorted[n] \in Ordered
    BY <1>0, <2>3
  <2> QED
    BY <2>4 DEF sorted
<1>10. SortSubjects(s) = sorted[Len(s)]
  BY <1>0, <1>7
<1> HIDE DEF sorted
<1> QED
  BY <1>8, <1>9, <1>10

\* Sorting keeps the members of a list, and how often it has them.
LEMMA SortKeeps ==
    ASSUME NEW s \in Seq(Subject)
    PROVE  /\ SortSubjects(s) \in Ordered
           /\ Range(SortSubjects(s)) = Range(s)
           /\ IsInjective(s) => IsInjective(SortSubjects(s))
<1>0. /\ Len(s) \in Nat /\ DOMAIN s = 1..Len(s)
      /\ \A i \in 1..Len(s) : s[i] \in Subject
  BY LenProperties, ElementOfSeq
<1>1. PICK sorted \in [0..Len(s) -> Ordered] :
        /\ sorted[0] = <<>>
        /\ \A n \in 0..(Len(s) - 1) : sorted[n + 1] = Insert(sorted[n], s[n + 1])
        /\ SortSubjects(s) = sorted[Len(s)]
  BY SortSteps
<1> DEFINE First(n) == {s[i] : i \in 1..n}
           Kept(n) == /\ Range(sorted[n]) = First(n)
                      /\ IsInjective(s) => IsInjective(sorted[n])
           Good == {n \in Nat : n <= Len(s) => Kept(n)}
<1>2. 0 \in Good
  <2>1. Range(sorted[0]) = {} /\ First(0) = {}
    BY <1>1 DEF Range
  <2>2. IsInjective(sorted[0])
    BY <1>1 DEF IsInjective
  <2> QED
    BY <2>1, <2>2
<1>3. ASSUME NEW n \in Good PROVE n + 1 \in Good
  <2> SUFFICES ASSUME n + 1 <= Len(s) PROVE Kept(n + 1)
    <3>1. n + 1 \in Nat
      BY <1>3
    <3> HIDE DEF Kept
    <3> QED
      BY <3>1
  <2>1. n \in Nat /\ n \in 0..(Len(s) - 1) /\ n \in 0..Len(s) /\ n + 1 \in 1..Len(s)
    BY <1>0
  <2>2. Kept(n)
    BY <1>0, <2>1
  <2>3. sorted[n] \in Ordered /\ s[n + 1] \in Subject
        /\ sorted[n + 1] = Insert(sorted[n], s[n + 1])
    BY <1>0, <1>1, <2>1
  <2>4. First(n + 1) = First(n) \union {s[n + 1]}
    <3>1. 1..(n + 1) = (1..n) \union {n + 1}
      BY <2>1
    <3> QED
      BY <3>1
  <2>5. IsInjective(s) => s[n + 1] \notin First(n)
    <3>1. \A j \in 1..n : j \in 1..Len(s) /\ j # n + 1
      BY <1>0, <2>1
    <3> QED
      BY <1>0, <2>1, <3>1 DEF IsInjective
  <2> HIDE DEF First
  <2>6. Range(sorted[n + 1]) = First(n + 1)
    BY <2>2, <2>3, <2>4, Inserted
  <2>7. IsInjective(s) => IsInjective(sorted[n + 1])
    BY <2>2, <2>3, <2>5, Inserted
  <2> QED
    BY <2>6, <2>7
<1>4. Good = Nat
  <2>1. Good \in SUBSET Nat
    OBVIOUS
  <2> HIDE DEF Good
  <2> QED
    BY <1>2, <1>3, <2>1, AllNumbers
<1>5. Kept(Len(s))
  <2>1. Len(s) \in Good /\ Len(s) <= Len(s)
    BY <1>0, <1>4
  <2> HIDE DEF Kept
  <2> QED
    BY <2>1
<1>6. First(Len(s)) = Range(s)
  BY <1>0 DEF Range
<1>7. sorted[Len(s)] \in Ordered
  BY <1>0, <1>1
<1> HIDE DEF First
<1> QED
  BY <1>1, <1>5, <1>6, <1>7

LEMMA FiniteRange ==
    ASSUME NEW B, NEW s \in Seq(B)
    PROVE  IsFiniteSet(Range(s))
<1>1. Len(s) \in Nat /\ DOMAIN s = 1..Len(s)
  BY LenProperties
<1>2. s \in Surjection(1..Len(s), Range(s))
  BY <1>1 DEF Surjection, Range
<1>3. IsFiniteSet(1..Len(s))
  BY <1>1, FS_Interval
<1> QED
  BY <1>2, <1>3, FS_Surjection

\* In whatever order the map gives them: all of them, each once, by name.
LEMMA NormalizedIs ==
    ASSUME NEW uniq \in SUBSET Subject, IsFiniteSet(uniq),
           NEW list \in NormalizeUniq(uniq)
    PROVE  list \in Ordered /\ Range(list) = uniq /\ IsInjective(list)
<1> DEFINE n == Cardinality(uniq)
<1>1. PICK order \in SetToSeqs(uniq) : list = SortSubjects(order)
  BY DEF NormalizeUniq
<1>2. n \in Nat
  BY FS_CardinalityType
<1>3. order \in [1..n -> uniq] /\ IsInjective(order)
  BY DEF SetToSeqs, IsInjective
<1>4. order \in Seq(Subject)
  BY <1>2, <1>3
<1>5. Range(order) = uniq
  <2>1. order \in Injection(1..n, uniq)
    BY <1>3 DEF Injection
  <2>2. Cardinality(1..n) = Cardinality(uniq)
    <3>1. Cardinality(1..n) = IF 1 > n THEN 0 ELSE n - 1 + 1
      BY <1>2, FS_Interval
    <3> HIDE DEF n
    <3>2. Cardinality(1..n) = n
      BY <1>2, <3>1
    <3> QED
      BY <3>2 DEF n
  <2>3. order \in Surjection(1..n, uniq)
    <3> HIDE DEF n
    <3> QED
      BY <2>1, <2>2, FS_Injection
  <2> QED
    BY <1>3, <2>3 DEF Surjection, Range
<1> QED
  BY <1>1, <1>3, <1>4, <1>5, SortKeeps

-----------------------------------------------------------------------------
(* resolveGroups, with lists *)

MembershipList == [group : Group, subjects : Seq(Subject)]

\* Gathering is one append after another.
LEMMA GatherSteps ==
    ASSUME NEW ms \in Seq(MembershipList), NEW g
    PROVE  \E gathered \in [0..Len(ms) -> Seq(Subject)] :
              /\ gathered[0] = <<>>
              /\ \A n \in 0..(Len(ms) - 1) :
                    gathered[n + 1] = IF ms[n + 1].group = g
                                        THEN gathered[n] \o ms[n + 1].subjects
                                        ELSE gathered[n]
              /\ Gathered(ms, g) = gathered[Len(ms)]
<1> DEFINE Add(list, m) == IF m.group = g THEN list \o m.subjects ELSE list
           F == [list \in Seq(Subject) |-> [m \in MembershipList |-> Add(list, m)]]
           Gathers(it) == it = [t \in SUBSET DOMAIN ms |->
                                 IF t = {} THEN <<>>
                                 ELSE Add(it[t \ {Max(t)}], ms[Max(t)])]
<1>0. /\ Len(ms) \in Nat /\ DOMAIN ms = 1..Len(ms)
      /\ \A i \in 1..Len(ms) : ms[i] \in MembershipList
  BY LenProperties, ElementOfSeq
<1>1. <<>> \in Seq(Subject)
  OBVIOUS
<1>2. ASSUME NEW list \in Seq(Subject), NEW m \in MembershipList
      PROVE  Add(list, m) \in Seq(Subject)
  <2>1. m.subjects \in Seq(Subject)
    BY DEF MembershipList
  <2> QED
    BY <2>1, ConcatProperties
<1>3. PICK one : IsFold(one, Seq(Subject), F, <<>>, ms)
  <2>1. F \in [Seq(Subject) -> [MembershipList -> Seq(Subject)]]
    BY <1>2
  <2> HIDE DEF F
  <2> QED
    BY <1>1, <2>1, FoldDefined
<1>4. ASSUME NEW t \in SUBSET DOMAIN ms, t # {}
      PROVE  Max(t) \in t /\ t \ {Max(t)} \in SUBSET DOMAIN ms
  <2>1. t \subseteq 1..Len(ms)
    BY <1>0
  <2>2. PICK m \in t : \A y \in t : m >= y
    BY <1>0, <1>4, <2>1, GreatestOf
  <2>3. Max(t) \in t
    BY <2>2 DEF Max
  <2> QED
    BY <2>3
<1>5. Gathers(one)
  <2>1. ASSUME NEW t \in SUBSET DOMAIN ms, t # {}
        PROVE  F[one[t \ {Max(t)}]][ms[Max(t)]] = Add(one[t \ {Max(t)}], ms[Max(t)])
    <3>1. one[t \ {Max(t)}] \in Seq(Subject) /\ ms[Max(t)] \in MembershipList
      BY <1>0, <1>3, <1>4, <2>1 DEF IsFold
    <3> HIDE DEF Add
    <3> QED
      BY <3>1
  <2> HIDE DEF F, Add
  <2> QED
    BY <1>3, <2>1 DEF IsFold
<1> DEFINE it == CHOOSE it : Gathers(it)
<1>6. Gathers(it)
  <2> HIDE DEF Gathers
  <2> QED
    BY <1>5
<1>7. Gathered(ms, g) = it[DOMAIN ms]
  BY DEF Gathered, FoldLeft, MapThenFoldSet
<1> HIDE DEF it
<1> DEFINE gathered == [n \in 0..Len(ms) |-> it[1..n]]
<1>8. /\ gathered[0] = <<>>
      /\ \A n \in 0..(Len(ms) - 1) : gathered[n + 1] = Add(gathered[n], ms[n + 1])
  <2>1. ASSUME NEW t \in SUBSET DOMAIN ms
        PROVE  it[t] = IF t = {} THEN <<>> ELSE Add(it[t \ {Max(t)}], ms[Max(t)])
    <3> HIDE DEF Add
    <3> QED
      BY <1>6
  <2> HIDE DEF Gathers, Add
  <2>2. gathered[0] = <<>>
    <3>1. 1..0 = {} /\ 0 \in 0..Len(ms)
      BY <1>0
    <3> QED
      BY <2>1, <3>1
  <2>3. ASSUME NEW n \in 0..(Len(ms) - 1) PROVE gathered[n + 1] = Add(gathered[n], ms[n + 1])
    <3>1. n \in Nat /\ n + 1 \in 0..Len(ms) /\ n \in 0..Len(ms)
      BY <1>0
    <3>2. 1..(n + 1) \in SUBSET DOMAIN ms /\ 1..(n + 1) # {}
      <4>1. n + 1 \in 1..(n + 1) /\ 1..(n + 1) \subseteq 1..Len(ms)
        BY <1>0, <3>1
      <4> QED
        BY <1>0, <4>1
    <3>3. Max(1..(n + 1)) = n + 1
      BY <3>1, TopOf
    <3>4. (1..(n + 1)) \ {n + 1} = 1..n
      BY <3>1
    <3>5. it[1..(n + 1)] = Add(it[1..n], ms[n + 1])
      BY <2>1, <3>2, <3>3, <3>4
    <3> QED
      BY <3>1, <3>5
  <2> QED
    BY <2>2, <2>3
<1>9. gathered \in [0..Len(ms) -> Seq(Subject)]
  <2> DEFINE Good == {n \in Nat : n <= Len(ms) => gathered[n] \in Seq(Subject)}
  <2> HIDE DEF gathered, Add
  <2>1. 0 \in Good
    BY <1>1, <1>8
  <2>2. ASSUME NEW n \in Good PROVE n + 1 \in Good
    <3> SUFFICES ASSUME n + 1 <= Len(ms) PROVE gathered[n + 1] \in Seq(Subject)
      OBVIOUS
    <3>1. n \in 0..(Len(ms) - 1) /\ n + 1 \in 1..Len(ms) /\ gathered[n] \in Seq(Subject)
      BY <1>0
    <3> QED
      BY <1>0, <1>2, <1>8, <3>1
  <2>3. Good = Nat
    <3> HIDE DEF Good
    <3>1. Good \in SUBSET Nat
      BY DEF Good
    <3> QED
      BY <2>1, <2>2, <3>1, AllNumbers
  <2>4. \A n \in 0..Len(ms) : gathered[n] \in Seq(Subject)
    BY <1>0, <2>3
  <2> QED
    BY <2>4 DEF gathered
<1>10. Gathered(ms, g) = gathered[Len(ms)]
  BY <1>0, <1>7
<1> HIDE DEF gathered
<1> QED
  BY <1>8, <1>9, <1>10

LEMMA RangeOfConcat ==
    ASSUME NEW S, NEW s \in Seq(S), NEW t \in Seq(S)
    PROVE  Range(s \o t) = Range(s) \union Range(t)
<1>1. /\ Len(s) \in Nat /\ DOMAIN s = 1..Len(s)
      /\ Len(t) \in Nat /\ DOMAIN t = 1..Len(t)
  BY LenProperties
<1>2. /\ s \o t \in Seq(S) /\ Len(s \o t) = Len(s) + Len(t)
      /\ \A i \in 1..(Len(s) + Len(t)) :
            (s \o t)[i] = IF i <= Len(s) THEN s[i] ELSE t[i - Len(s)]
  BY ConcatProperties
<1>3. DOMAIN (s \o t) = 1..(Len(s) + Len(t))
  BY <1>2, LenProperties
<1>4. ASSUME NEW i \in 1..(Len(s) + Len(t))
      PROVE  (s \o t)[i] \in Range(s) \union Range(t)
  <2>1. CASE i <= Len(s)
    <3>1. i \in 1..Len(s) /\ (s \o t)[i] = s[i]
      BY <1>1, <1>2, <2>1
    <3> QED
      BY <1>1, <3>1 DEF Range
  <2>2. CASE ~(i <= Len(s))
    <3>1. i - Len(s) \in 1..Len(t) /\ (s \o t)[i] = t[i - Len(s)]
      BY <1>1, <1>2, <2>2
    <3> QED
      BY <1>1, <3>1 DEF Range
  <2> QED
    BY <2>1, <2>2
<1>5. ASSUME NEW i \in 1..Len(s) PROVE s[i] \in Range(s \o t)
  <2>1. i \in 1..(Len(s) + Len(t)) /\ (s \o t)[i] = s[i]
    BY <1>1, <1>2
  <2> QED
    BY <1>3, <2>1 DEF Range
<1>6. ASSUME NEW i \in 1..Len(t) PROVE t[i] \in Range(s \o t)
  <2>1. Len(s) + i \in 1..(Len(s) + Len(t)) /\ (Len(s) + i) - Len(s) = i
        /\ ~(Len(s) + i <= Len(s))
    BY <1>1
  <2>2. (s \o t)[Len(s) + i] = t[i]
    BY <1>2, <2>1
  <2> QED
    BY <1>3, <2>1, <2>2 DEF Range
<1> QED
  BY <1>1, <1>3, <1>4, <1>5, <1>6 DEF Range

\* A group's list has the subjects of all its memberships.
LEMMA GatheredAll ==
    ASSUME NEW ms \in Seq(MembershipList), NEW g
    PROVE  /\ Gathered(ms, g) \in Seq(Subject)
           /\ Range(Gathered(ms, g))
                = UNION {Range(m.subjects) : m \in {x \in Range(ms) : x.group = g}}
<1>0. /\ Len(ms) \in Nat /\ DOMAIN ms = 1..Len(ms)
      /\ \A i \in 1..Len(ms) : ms[i] \in MembershipList
  BY LenProperties, ElementOfSeq
<1>1. PICK gathered \in [0..Len(ms) -> Seq(Subject)] :
        /\ gathered[0] = <<>>
        /\ \A n \in 0..(Len(ms) - 1) :
              gathered[n + 1] = IF ms[n + 1].group = g
                                  THEN gathered[n] \o ms[n + 1].subjects
                                  ELSE gathered[n]
        /\ Gathered(ms, g) = gathered[Len(ms)]
  BY GatherSteps
<1> DEFINE First(n) == {x : x \in UNION {Range(ms[i].subjects) :
                                           i \in {j \in 1..n : ms[j].group = g}}}
           Good == {n \in Nat : n <= Len(ms) => Range(gathered[n]) = First(n)}
<1>2. 0 \in Good
  BY <1>1 DEF Range
<1>3. ASSUME NEW n \in Good PROVE n + 1 \in Good
  <2> SUFFICES ASSUME n + 1 <= Len(ms) PROVE Range(gathered[n + 1]) = First(n + 1)
    <3>1. n + 1 \in Nat
      BY <1>3
    <3> HIDE DEF First
    <3> QED
      BY <3>1
  <2>1. n \in Nat /\ n \in 0..(Len(ms) - 1) /\ n \in 0..Len(ms) /\ n + 1 \in 1..Len(ms)
    BY <1>0
  <2>2. Range(gathered[n]) = First(n)
    BY <1>0, <2>1
  <2>3. 1..(n + 1) = (1..n) \union {n + 1}
    BY <2>1
  <2>4. First(n + 1) = IF ms[n + 1].group = g
                         THEN First(n) \union Range(ms[n + 1].subjects)
                         ELSE First(n)
    BY <2>3
  <2>5. gathered[n] \in Seq(Subject) /\ ms[n + 1].subjects \in Seq(Subject)
    BY <1>0, <1>1, <2>1 DEF MembershipList
  <2>6. Range(gathered[n] \o ms[n + 1].subjects)
          = Range(gathered[n]) \union Range(ms[n + 1].subjects)
    BY <2>5, RangeOfConcat
  <2> HIDE DEF First
  <2> QED
    BY <1>1, <2>1, <2>2, <2>4, <2>6
<1>4. Good = Nat
  <2>1. Good \in SUBSET Nat
    OBVIOUS
  <2> HIDE DEF Good
  <2> QED
    BY <1>2, <1>3, <2>1, AllNumbers
<1>5. Range(gathered[Len(ms)]) = First(Len(ms))
  <2>1. Len(ms) \in Good /\ Len(ms) <= Len(ms)
    <3> HIDE DEF Good
    <3> QED
      BY <1>0, <1>4
  <2> HIDE DEF First
  <2> QED
    BY <2>1
<1>6. First(Len(ms)) = UNION {Range(m.subjects) : m \in {x \in Range(ms) : x.group = g}}
  <2>1. Range(ms) = {ms[i] : i \in 1..Len(ms)}
    BY <1>0 DEF Range
  <2> QED
    BY <2>1
<1>7. gathered[Len(ms)] \in Seq(Subject)
  BY <1>0, <1>1
<1> HIDE DEF First
<1> QED
  BY <1>1, <1>5, <1>6, <1>7

-----------------------------------------------------------------------------
(* Answers with lists *)

\* A list with a nil error, or an error with no list.
ListAnswer == {Listed(list) : list \in Seq(Subject)} \union {Refused(e) : e \in Errors}

LEMMA AnswerCases ==
    ASSUME NEW a \in ListAnswer
    PROVE  /\ a.subjects \in Seq(Subject)
           /\ a.err # "nil" => a.subjects = <<>> /\ a = Refused(a.err)
           /\ SetOf(a).err = a.err /\ SetOf(a).subjects = Range(a.subjects)
           /\ a.err = "nil" => a = Listed(a.subjects)
<1>1. CASE \E list \in Seq(Subject) : a = Listed(list)
  BY <1>1 DEF Listed, SetOf
<1>2. CASE \E e \in Errors : a = Refused(e)
  BY <1>2 DEF Refused, SetOf, Errors
<1> QED
  BY <1>1, <1>2 DEF ListAnswer

LEMMA NobodyInRange == Range(<<>>) = {}
BY DEF Range

LEMMA SetOfAnswers ==
    /\ \A list : SetOf(Listed(list)) = Success(Range(list))
    /\ \A e : SetOf(Refused(e)) = Failure(e)
BY NobodyInRange DEF SetOf, Listed, Refused, Success, Failure

\* Merged.Members over lists says of the members what it says over sets, and
\* returns each once, by name.
LEMMA MergedListsAgree ==
    ASSUME NEW own \in ListAnswer, NEW a \in ListAnswer,
           NEW answer \in MergedLists(<<own, a>>)
    PROVE  /\ SetOf(answer) = MergedMembers(<<SetOf(own), SetOf(a)>>)
           /\ InOrder(answer.subjects) /\ IsInjective(answer.subjects)
<1> DEFINE lists == <<own, a>>
           sets  == <<SetOf(own), SetOf(a)>>
           fatal == {i \in {1, 2} : lists[i].err # "nil" /\ ~IsNotFound(lists[i].err)}
           first == CHOOSE i \in fatal : \A j \in fatal : i <= j
           uniq  == Range(own.subjects) \union Range(a.subjects)
<1>1. /\ DOMAIN lists = {1, 2} /\ lists[1] = own /\ lists[2] = a
      /\ DOMAIN sets = {1, 2} /\ sets[1] = SetOf(own) /\ sets[2] = SetOf(a)
  OBVIOUS
<1>2. /\ SetOf(own).err = own.err /\ SetOf(own).subjects = Range(own.subjects)
      /\ SetOf(a).err = a.err /\ SetOf(a).subjects = Range(a.subjects)
  BY AnswerCases
<1>3. {i \in DOMAIN lists : lists[i].err # "nil" /\ ~IsNotFound(lists[i].err)} = fatal
  BY <1>1
<1>4. {i \in DOMAIN sets : sets[i].err # "nil" /\ ~IsNotFound(sets[i].err)} = fatal
  BY <1>1, <1>2
<1>5. UNION {Range(lists[i].subjects) : i \in DOMAIN lists} = uniq
  BY <1>1
<1>6. UNION {sets[i].subjects : i \in DOMAIN sets} = uniq
  BY <1>1, <1>2
<1> HIDE DEF fatal, uniq
<1>7. MergedLists(lists) = IF fatal # {} THEN {Refused(lists[first].err)}
                           ELSE IF uniq = {} THEN {Refused("notFound")}
                           ELSE {Listed(list) : list \in NormalizeUniq(uniq)}
  BY <1>3, <1>5 DEF MergedLists
<1>8. MergedMembers(sets) = IF fatal # {} THEN Failure(sets[first].err)
                            ELSE IF uniq = {} THEN Failure("notFound") ELSE Success(uniq)
  <2> HIDE DEF sets
  <2> DEFINE F == {i \in DOMAIN sets : sets[i].err # "nil" /\ ~IsNotFound(sets[i].err)}
             U == UNION {sets[i].subjects : i \in DOMAIN sets}
  <2>1. MergedMembers(sets) =
          IF F # {} THEN Failure(sets[CHOOSE i \in F : \A j \in F : i <= j].err)
                    ELSE IF U = {} THEN Failure("notFound") ELSE Success(U)
    BY DEF MergedMembers
  <2>2. F = fatal /\ U = uniq
    BY <1>4, <1>6
  <2> HIDE DEF F, U
  <2> QED
    BY <2>1, <2>2
<1>9. /\ InOrder(<<>>) /\ IsInjective(<<>>)
      /\ \A e : Refused(e).subjects = <<>>
  BY DEF InOrder, IsInjective, Refused
<1>10. CASE fatal # {}
  <2>1. first \in fatal
    <3>1. fatal \subseteq {1, 2}
      BY DEF fatal
    <3>2. \E i \in fatal : \A j \in fatal : i <= j
      <4>1. CASE 1 \in fatal
        <5>1. \A j \in fatal : 1 <= j
          BY <3>1
        <5> QED
          BY <4>1, <5>1
      <4>2. CASE 1 \notin fatal
        <5>1. fatal = {2}
          BY <1>10, <3>1, <4>2
        <5>2. \A j \in fatal : 2 <= j
          BY <5>1
        <5> QED
          BY <5>1, <5>2
      <4> QED
        BY <4>1, <4>2
    <3> QED
      BY <3>2
  <2> HIDE DEF first
  <2>2. lists[first].err = sets[first].err
    BY <1>1, <1>2, <2>1 DEF fatal
  <2> HIDE DEF lists, sets
  <2>3. answer = Refused(lists[first].err)
    BY <1>7, <1>10 DEF lists
  <2>4. SetOf(answer) = MergedMembers(sets)
    BY <1>8, <1>10, <2>2, <2>3, SetOfAnswers
  <2> QED
    BY <1>9, <2>3, <2>4 DEF sets
<1>11. CASE fatal = {} /\ uniq = {}
  <2> HIDE DEF lists, sets, first
  <2>1. answer = Refused("notFound")
    BY <1>7, <1>11 DEF lists
  <2>2. SetOf(answer) = MergedMembers(sets)
    BY <1>8, <1>11, <2>1, SetOfAnswers
  <2> QED
    BY <1>9, <2>1, <2>2 DEF sets
<1>12. CASE fatal = {} /\ uniq # {}
  <2>1. uniq \in SUBSET Subject /\ IsFiniteSet(uniq)
    <3>1. own.subjects \in Seq(Subject) /\ a.subjects \in Seq(Subject)
      BY AnswerCases
    <3>2. IsFiniteSet(Range(own.subjects)) /\ IsFiniteSet(Range(a.subjects))
      BY <3>1, FiniteRange
    <3>3. Range(own.subjects) \subseteq Subject /\ Range(a.subjects) \subseteq Subject
      BY <3>1, ElementOfSeq, LenProperties DEF Range
    <3> QED
      BY <3>2, <3>3, FS_Union DEF uniq
  <2> HIDE DEF lists, sets, first
  <2>2. PICK list \in NormalizeUniq(uniq) : answer = Listed(list)
    BY <1>7, <1>12 DEF lists
  <2>3. list \in Ordered /\ Range(list) = uniq /\ IsInjective(list)
    BY <2>1, NormalizedIs
  <2>4. SetOf(answer) = MergedMembers(sets)
    BY <1>8, <1>12, <2>2, <2>3, SetOfAnswers
  <2>5. answer.subjects = list
    BY <2>2 DEF Listed
  <2> QED
    BY <2>3, <2>4, <2>5 DEF Ordered, sets
<1> QED
  BY <1>10, <1>11, <1>12

\* No error that ends the loop: everybody the two lists name.
LEMMA MergedListsAre ==
    ASSUME NEW own \in ListAnswer, NEW a \in ListAnswer,
           own.err \in {"nil", "notFound"}, a.err \in {"nil", "notFound"}
    PROVE  LET uniq == Range(own.subjects) \union Range(a.subjects)
           IN  MergedLists(<<own, a>>) = IF uniq = {} THEN {Refused("notFound")}
                                         ELSE {Listed(list) : list \in NormalizeUniq(uniq)}
<1> DEFINE lists == <<own, a>>
           uniq  == Range(own.subjects) \union Range(a.subjects)
           F == {i \in DOMAIN lists : lists[i].err # "nil" /\ ~IsNotFound(lists[i].err)}
           U == UNION {Range(lists[i].subjects) : i \in DOMAIN lists}
<1>1. DOMAIN lists = {1, 2} /\ lists[1] = own /\ lists[2] = a
  OBVIOUS
<1>2. F = {} /\ U = uniq
  BY <1>1 DEF IsNotFound
<1> HIDE DEF lists
<1>3. MergedLists(lists) = IF F # {}
                             THEN {Refused(lists[CHOOSE i \in F : \A j \in F : i <= j].err)}
                             ELSE IF U = {} THEN {Refused("notFound")}
                             ELSE {Listed(list) : list \in NormalizeUniq(U)}
  BY DEF MergedLists
<1> HIDE DEF F, U, uniq
<1>4. MergedLists(lists) = IF uniq = {} THEN {Refused("notFound")}
                           ELSE {Listed(list) : list \in NormalizeUniq(uniq)}
  BY <1>2, <1>3
<1> QED
  BY <1>4 DEF lists, uniq

LEMMA NoneInRange ==
    ASSUME NEW B, NEW s \in Seq(B)
    PROVE  Range(s) = {} <=> s = <<>>
<1>1. Len(s) \in Nat /\ DOMAIN s = 1..Len(s)
  BY LenProperties
<1>2. ASSUME s # <<>> PROVE Range(s) # {}
  <2>1. Len(s) # 0
    BY <1>2, EmptySeq
  <2>2. 1 \in DOMAIN s
    BY <1>1, <2>1
  <2> QED
    BY <2>2 DEF Range
<1> QED
  BY <1>2, NobodyInRange

\* What the config's own map says, list for set.
LEMMA OwnLists ==
    ASSUME NEW ms \in Seq(MembershipList), NEW g,
           NEW own \in GroupMapLists(ms, g)
    PROVE  /\ own \in ListAnswer
           /\ own.err \in {"nil", "notFound"}
           /\ SetOf(own) = GroupMapMembers(GroupMapOf([i \in DOMAIN ms |-> SetOf(ms[i])]), g)
           /\ \/ own = Refused("notFound")
              \/ \E list \in Seq(Subject) :
                    /\ own = Listed(list) /\ Range(list) # {}
                    /\ list \in NormalizeUniq(Range(list))
<1> DEFINE sets == [i \in DOMAIN ms |-> SetOf(ms[i])]
           all  == UNION {m.subjects : m \in {m \in Range(sets) : m.group = g}}
           list0 == Gathered(ms, g)
<1>1. list0 \in Seq(Subject)
      /\ Range(list0) = UNION {Range(m.subjects) : m \in {x \in Range(ms) : x.group = g}}
  BY GatheredAll
<1>2. all = Range(list0)
  <2>1. /\ Len(ms) \in Nat /\ DOMAIN ms = 1..Len(ms)
        /\ \A i \in DOMAIN ms : ms[i] \in MembershipList
    BY LenProperties, ElementOfSeq
  <2>2. \A i \in DOMAIN ms : /\ SetOf(ms[i]).group = ms[i].group
                             /\ SetOf(ms[i]).subjects = Range(ms[i].subjects)
    BY <2>1 DEF MembershipList, SetOf
  <2>3. Range(sets) = {SetOf(ms[i]) : i \in DOMAIN ms} /\ Range(ms) = {ms[i] : i \in DOMAIN ms}
    BY DEF Range
  <2> HIDE DEF sets
  <2>4. ASSUME NEW x PROVE x \in all <=> \E i \in DOMAIN ms : /\ ms[i].group = g
                                                              /\ x \in Range(ms[i].subjects)
    BY <2>2, <2>3
  <2>5. ASSUME NEW x PROVE x \in Range(list0) <=> \E i \in DOMAIN ms :
                                /\ ms[i].group = g /\ x \in Range(ms[i].subjects)
    BY <1>1, <2>3
  <2> HIDE DEF all, list0
  <2> QED
    BY <2>4, <2>5
<1>3. GroupMapMembers(GroupMapOf(sets), g) = IF all = {} THEN Failure("notFound")
                                                         ELSE Success(all)
  <2> HIDE DEF sets
  <2> QED
    BY TogetherIsAll
<1>4. GroupMapLists(ms, g) = IF list0 = <<>> THEN {Refused("notFound")}
                             ELSE {Listed(list) : list \in NormalizeUniq(Range(list0))}
  BY DEF GroupMapLists, Normalize
<1>5. Range(list0) = {} <=> list0 = <<>>
  BY <1>1, NoneInRange
<1> HIDE DEF sets, all, list0
<1>6. CASE list0 = <<>>
  <2>1. own = Refused("notFound")
    BY <1>4, <1>6
  <2>2. own \in ListAnswer /\ own.err = "notFound"
    BY <2>1 DEF ListAnswer, Errors, Refused
  <2>3. SetOf(own) = GroupMapMembers(GroupMapOf(sets), g)
    BY <1>2, <1>3, <1>5, <1>6, <2>1, SetOfAnswers
  <2> QED
    BY <2>1, <2>2, <2>3 DEF sets
<1>7. CASE list0 # <<>>
  <2>1. PICK list \in NormalizeUniq(Range(list0)) : own = Listed(list)
    BY <1>4, <1>7
  <2>2. Range(list0) \in SUBSET Subject /\ IsFiniteSet(Range(list0))
    <3>1. Range(list0) \subseteq Subject
      BY <1>1, ElementOfSeq, LenProperties DEF Range
    <3> QED
      BY <1>1, <3>1, FiniteRange
  <2>3. list \in Ordered /\ Range(list) = Range(list0)
    BY <2>1, <2>2, NormalizedIs
  <2>4. list \in Seq(Subject)
    BY <2>3 DEF Ordered
  <2>5. own \in ListAnswer /\ own.err = "nil"
    BY <2>1, <2>4 DEF ListAnswer, Listed
  <2>6. SetOf(own) = GroupMapMembers(GroupMapOf(sets), g)
    BY <1>2, <1>3, <1>5, <1>7, <2>1, <2>3, SetOfAnswers
  <2>7. Range(list) # {} /\ list \in NormalizeUniq(Range(list))
    BY <1>5, <1>7, <2>1, <2>3
  <2> QED
    BY <2>1, <2>4, <2>5, <2>6, <2>7 DEF sets
<1> QED
  BY <1>6, <1>7

-----------------------------------------------------------------------------
(* Every state of MCGroups *)

Inputs ==
    /\ memberships \in Seq([group : Group, subjects : Lists])
    /\ answers \in [Group -> Upstream]

LEMMA InputsKept == Spec => []Inputs
<1>1. Init => Inputs
  BY DEF Init, Inputs, Upstream, Errors
<1>2. Inputs /\ [Next]_vars => Inputs'
  <2> SUFFICES ASSUME Inputs, [Next]_vars PROVE Inputs'
    OBVIOUS
  <2>1. ASSUME NEW g \in Group, NEW list \in Lists, AddMembership(g, list) PROVE Inputs'
    BY <2>1, AppendProperties DEF AddMembership, Inputs
  <2>2. ASSUME NEW g \in Group, NEW a \in Upstream, Answers(g, a) PROVE Inputs'
    <3>1. Refused("notFound") \in Upstream
      BY DEF Upstream, Errors
    <3> QED
      BY <2>2, <3>1 DEF Answers, Inputs
  <2>3. CASE UNCHANGED vars
    BY <2>3 DEF vars, Inputs
  <2> QED
    BY <2>1, <2>2, <2>3 DEF Next
<1> QED
  BY <1>1, <1>2, PTL DEF Spec

\* Taking lists for sets changes no error.
LEMMA SameError ==
    ASSUME NEW a \in Upstream
    PROVE  SetOf(a).err = a.err
BY DEF Upstream, Refused, Listed, SetOf

\* What Inputs says of the lists, for any bound on them.
LEMMA InputLists ==
    ASSUME Inputs
    PROVE  memberships \in Seq(MembershipList) /\ answers \in [Group -> ListAnswer]
<1>1. Lists \subseteq Seq(Subject)
  <2>1. \A n \in Nat : \A list : list \in [1..n -> Subject] => list \in Seq(Subject)
    OBVIOUS
  <2>2. Lists = UNION {[1..n -> Subject] : n \in 0..MaxSubjects}
    BY DEF Lists, BoundedSeq, SeqOf
  <2>3. 0..MaxSubjects \subseteq Nat
    BY BoundsAssumption
  <2> QED
    BY <2>1, <2>2, <2>3
<1>2. memberships \in Seq(MembershipList)
  <2>1. [group : Group, subjects : Lists] \subseteq MembershipList
    BY <1>1 DEF MembershipList
  <2>2. \A S, T : S \subseteq T => Seq(S) \subseteq Seq(T)
    OBVIOUS
  <2> QED
    BY <2>1, <2>2 DEF Inputs
<1>3. Upstream \subseteq ListAnswer
  <2>1. ASSUME NEW l \in Lists, NEW list \in Normalize(l) PROVE list \in Seq(Subject)
    <3>1. l \in Seq(Subject)
      BY <1>1
    <3>2. Range(l) \in SUBSET Subject /\ IsFiniteSet(Range(l))
      <4>1. Range(l) \subseteq Subject
        BY <3>1, ElementOfSeq, LenProperties DEF Range
      <4> QED
        BY <3>1, <4>1, FiniteRange
    <3> QED
      BY <2>1, <3>2, NormalizedIs DEF Normalize, Ordered
  <2> QED
    BY <2>1 DEF Upstream, ListAnswer
<1> QED
  BY <1>2, <1>3 DEF Inputs

\* An upstream failure reaches handleConfig as it is, whatever the config lists.
THEOREM FailuresDominate == Spec => []FailureDominates
<1>1. Inputs => FailureDominates
  <2> SUFFICES ASSUME Inputs, NEW g \in Group, answers[g].err \notin {"nil", "notFound"}
               PROVE  Members(g) = Failure(answers[g].err)
    BY DEF FailureDominates
  <2>1. SetOf(answers[g]).err = answers[g].err
    BY SameError DEF Inputs
  <2> QED
    BY <2>1, OwnAnswer, FatalEnds DEF Members, ResolveMembers
<1> QED
  BY <1>1, InputsKept, PTL

\* handleConfig never gets a list with nobody in it.
THEOREM NoEmptyLists == Spec => []NeverEmpty
<1>1. NeverEmpty
  BY ListsHaveMembers DEF NeverEmpty, Members, ResolveMembers
<1> QED
  BY <1>1, PTL

\* How a config spells its memberships makes no difference.
THEOREM SpellingIsFree == Spec => []OrderFree
<1>1. Inputs => OrderFree
  <2> SUFFICES ASSUME Inputs, NEW g \in Group
               PROVE  LET of     == {m \in Range(Sets) : m.group = g}
                          united == <<[group |-> g,
                                       subjects |-> UNION {m.subjects : m \in of}]>>
                      IN  /\ Members(g) = ResolveMembers(Reverse(Sets), g, SetOf(answers[g]))
                          /\ Members(g) = ResolveMembers(united, g, SetOf(answers[g]))
    BY DEF OrderFree
  <2> DEFINE All(ms) == UNION {m.subjects : m \in {m \in Range(ms) : m.group = g}}
             united  == <<[group |-> g, subjects |-> All(Sets)]>>
  <2>1. ASSUME NEW ms, All(ms) = All(Sets)
        PROVE  Members(g) = ResolveMembers(ms, g, SetOf(answers[g]))
    <3>1. GroupMapMembers(GroupMapOf(ms), g) = GroupMapMembers(GroupMapOf(Sets), g)
      BY <2>1, TogetherIsAll
    <3> QED
      BY <3>1 DEF Members, ResolveMembers
  <2>2. All(Reverse(Sets)) = All(Sets)
    <3>1. Sets \in Seq({SetOf(m) : m \in Range(memberships)})
      <4>1. Len(memberships) \in Nat /\ DOMAIN memberships = 1..Len(memberships)
        BY LenProperties DEF Inputs
      <4>2. Sets = [i \in 1..Len(memberships) |-> SetOf(memberships[i])]
        BY <4>1 DEF Sets
      <4>3. \A i \in 1..Len(memberships) : memberships[i] \in Range(memberships)
        BY <4>1 DEF Range
      <4> QED
        BY <4>1, <4>2, <4>3
    <3>2. Range(Reverse(Sets)) = Range(Sets)
      BY <3>1, ReversedRange
    <3> QED
      BY <3>2
  <2>3. All(united) = All(Sets)
    <3> DEFINE one == [group |-> g, subjects |-> All(Sets)]
    <3>1. Range(united) = {one}
      BY RangeOfOne
    <3>2. one.group = g /\ one.subjects = All(Sets)
      OBVIOUS
    <3> HIDE DEF one
    <3> QED
      BY <3>1, <3>2
  <2> QED
    BY <2>1, <2>2, <2>3
<1> QED
  BY <1>1, InputsKept, PTL

\* Reading lists as sets, which the controller's modules do, loses nothing that
\* is said of a binding's members: whatever order Go's maps give, the list that
\* handleConfig gets has the members Groups says, each once, by name.
THEOREM ListsAgreeWithSets == Spec => []ListsAreSets
<1>1. Inputs => ListsAreSets
  <2> SUFFICES ASSUME Inputs, NEW g \in Group,
                      NEW answer \in ResolveLists(memberships, g, answers[g])
               PROVE  LET list == answer.subjects
                      IN  /\ SetOf(answer) = Members(g)
                          /\ IsInjective(list)
                          /\ \A i, j \in DOMAIN list :
                                i < j => list[i].name <= list[j].name
    BY DEF ListsAreSets
  <2>1. memberships \in Seq(MembershipList) /\ answers[g] \in ListAnswer
    BY InputLists
  <2>2. PICK own \in GroupMapLists(memberships, g) :
                answer \in MergedLists(<<own, answers[g]>>)
    BY DEF ResolveLists
  <2>3. /\ own \in ListAnswer
        /\ SetOf(own) = GroupMapMembers(GroupMapOf(Sets), g)
    BY <2>1, OwnLists DEF Sets
  <2>4. /\ SetOf(answer) = MergedMembers(<<SetOf(own), SetOf(answers[g])>>)
        /\ InOrder(answer.subjects) /\ IsInjective(answer.subjects)
    BY <2>1, <2>2, <2>3, MergedListsAgree
  <2> QED
    BY <2>3, <2>4 DEF Members, ResolveMembers, InOrder
<1> QED
  BY <1>1, InputsKept, PTL

\* To merge one map into another is to ask both in turn, for every group and
\* every two maps, but for groups with no subjects.
THEOREM MergeIntoAgrees == Spec => []MergeIntoIsMerge
<1>1. Inputs => MergeIntoIsMerge
  <2> SUFFICES ASSUME Inputs, NEW g \in Group, NEW own \in GroupMapLists(memberships, g),
                      answers[g].err \in {"nil", "notFound"},
                      NEW merged \in MergeInto(own, answers[g])
               PROVE  merged \in MergedLists(<<own, answers[g]>>) \/ merged = Listed(<<>>)
    BY DEF MergeIntoIsMerge
  <2> DEFINE a == answers[g]
             uniq == Range(own.subjects) \union Range(a.subjects)
  <2>1. memberships \in Seq(MembershipList) /\ a \in ListAnswer
    BY InputLists
  <2>2. /\ own \in ListAnswer /\ own.err \in {"nil", "notFound"}
        /\ \/ own = Refused("notFound")
           \/ \E list \in Seq(Subject) :
                 /\ own = Listed(list) /\ Range(list) # {}
                 /\ list \in NormalizeUniq(Range(list))
    BY <2>1, OwnLists
  <2>3. MergedLists(<<own, a>>) = IF uniq = {} THEN {Refused("notFound")}
                                  ELSE {Listed(list) : list \in NormalizeUniq(uniq)}
    BY <2>1, <2>2, MergedListsAre
  <2>4. own.subjects \in Seq(Subject) /\ a.subjects \in Seq(Subject)
    BY <2>1, <2>2, AnswerCases
  <2>5. CASE a.err = "nil"
    <3>1. Normalize(own.subjects \o a.subjects) = NormalizeUniq(uniq)
      <4>1. Range(own.subjects \o a.subjects) = uniq
        BY <2>4, RangeOfConcat
      <4> HIDE DEF a, uniq
      <4> QED
        BY <4>1 DEF Normalize, a
    <3>2. PICK list \in NormalizeUniq(uniq) : merged = Listed(list)
      BY <2>5, <3>1 DEF MergeInto
    <3>3. uniq \in SUBSET Subject /\ IsFiniteSet(uniq)
      <4>1. IsFiniteSet(Range(own.subjects)) /\ IsFiniteSet(Range(a.subjects))
        BY <2>4, FiniteRange
      <4>2. Range(own.subjects) \subseteq Subject /\ Range(a.subjects) \subseteq Subject
        BY <2>4, ElementOfSeq, LenProperties DEF Range
      <4> QED
        BY <4>1, <4>2, FS_Union
    <3> HIDE DEF a, uniq
    <3>4. CASE uniq = {}
      <4>1. list \in Seq(Subject) /\ Range(list) = {}
        BY <3>2, <3>3, <3>4, NormalizedIs DEF Ordered
      <4> QED
        BY <3>2, <4>1, NoneInRange
    <3>5. CASE uniq # {}
      BY <2>3, <3>2, <3>5 DEF a
    <3> QED
      BY <3>4, <3>5
  <2>6. CASE a.err = "notFound"
    <3>1. merged = own
      BY <2>6 DEF MergeInto
    <3>2. Range(a.subjects) = {}
      BY <2>1, <2>6, AnswerCases, NobodyInRange
    <3>3. CASE own = Refused("notFound")
      <4>1. uniq = {}
        BY <3>2, <3>3, NobodyInRange DEF Refused
      <4> QED
        BY <2>3, <3>1, <3>3, <4>1
    <3>4. CASE \E list \in Seq(Subject) : /\ own = Listed(list) /\ Range(list) # {}
                                          /\ list \in NormalizeUniq(Range(list))
      <4>1. PICK list \in Seq(Subject) : /\ own = Listed(list) /\ Range(list) # {}
                                         /\ list \in NormalizeUniq(Range(list))
        BY <3>4
      <4>2. uniq = Range(list)
        BY <3>2, <4>1 DEF Listed
      <4> HIDE DEF a, uniq
      <4> QED
        BY <2>3, <3>1, <4>1, <4>2 DEF a
    <3> QED
      BY <2>2, <3>3, <3>4
  <2> QED
    BY <2>5, <2>6
<1> QED
  BY <1>1, InputsKept, PTL
=============================================================================
