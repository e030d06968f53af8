------------------------------ MODULE Subjects ------------------------------
(***************************************************************************)
(* pkg/groups again, with the lists that Groups takes for sets: Normalize  *)
(* collects a list in a Go map, whose order is random, and sorts what      *)
(* comes out by name alone.  What a function may return is then a set of   *)
(* lists, and two subjects of one name come in either order.               *)
(*                                                                         *)
(* Answers and memberships are those of Groups with lists for sets.        *)
(***************************************************************************)
EXTENDS Groups, FiniteSets, SequencesExt

\* Subjects are records with a name, which is a number, and a kind.
ASSUME SubjectsAssumption == \A s \in Subject : s.name \in Nat

Listed(list) == [err |-> "nil", subjects |-> list]
Refused(err) == [err |-> err, subjects |-> <<>>]

-----------------------------------------------------------------------------
\* SliceStable: a subject goes behind those with a name that is not greater.
Insert(sorted, s) ==
    LET i == Cardinality({j \in DOMAIN sorted : sorted[j].name <= s.name})
    IN  SubSeq(sorted, 1, i) \o <<s>> \o SubSeq(sorted, i + 1, Len(sorted))

SortSubjects(subjects) == FoldLeft(Insert, <<>>, subjects)

\* (mistake) What comes out of the map is not sorted.
NormalizeUniqUnsorted(uniq) == SetToSeqs(uniq)

\* The subjects in any order the map may give them, sorted.
NormalizeUniq(uniq) == {SortSubjects(order) : order \in SetToSeqs(uniq)}

Normalize(subjects) == NormalizeUniq(Range(subjects))

-----------------------------------------------------------------------------
\* resolveGroups appends the subjects of a group's memberships one by one.
Gathered(memberships, g) ==
    FoldLeft(LAMBDA list, m : IF m.group = g THEN list \o m.subjects ELSE list,
             <<>>, memberships)

\* Members of the GroupMap that resolveGroups, like NewGroupMap, normalizes.
GroupMapLists(memberships, g) ==
    IF Gathered(memberships, g) = <<>>
      THEN {Refused("notFound")}
      ELSE {Listed(list) : list \in Normalize(Gathered(memberships, g))}

\* Merged.Members over the lists of its groupers.
MergedLists(answers) ==
    LET fatal == {i \in DOMAIN answers :
                    answers[i].err # "nil" /\ ~IsNotFound(answers[i].err)}
        uniq  == UNION {Range(answers[i].subjects) : i \in DOMAIN answers}
    IN  IF fatal # {}
          THEN {Refused(answers[CHOOSE i \in fatal : \A j \in fatal : i <= j].err)}
          ELSE IF uniq = {} THEN {Refused("notFound")}
                            ELSE {Listed(list) : list \in NormalizeUniq(uniq)}

\* gm.Members(g) in handleConfig.
ResolveLists(memberships, g, upstreamAnswer) ==
    UNION {MergedLists(<<own, upstreamAnswer>>) : own \in GroupMapLists(memberships, g)}

\* (mistake) What the receiver had is replaced.
MergeIntoReplaces(own, other) ==
    IF other.err = "nil" THEN {Listed(list) : list \in Normalize(other.subjects)} ELSE {own}

\* GroupMap.MergeInto for one group: what Members says of the receiver and of the
\* other map before, and of the receiver after.
MergeInto(own, other) ==
    IF other.err = "nil"
      THEN {Listed(list) : list \in Normalize(own.subjects \o other.subjects)}
      ELSE {own}
=============================================================================
