------------------------------ MODULE MCGroups ------------------------------
(***************************************************************************)
(* Group resolution checked over bounded inputs: a state is the list of    *)
(* memberships of one config and what upstream answers for each group; a   *)
(* step changes either.                                                    *)
(***************************************************************************)
EXTENDS Subjects

CONSTANTS
    MaxMemberships,    \* bound on the length of the list
    MaxSubjects        \* bound on the subjects in it, and in an answer

ASSUME BoundsAssumption == MaxMemberships \in Nat /\ MaxSubjects \in Nat

VARIABLES memberships, answers

vars == <<memberships, answers>>

\* A user and a service account may have the same name.
People == {[name |-> 1, kind |-> "User"], [name |-> 1, kind |-> "ServiceAccount"],
           [name |-> 2, kind |-> "User"]}

Lists == BoundedSeq(Subject, MaxSubjects)

Room == MaxSubjects - FoldLeft(LAMBDA n, m : n + Len(m.subjects), 0, memberships)

Upstream == {Refused(e) : e \in Errors} \union
            {Listed(list) : list \in UNION {Normalize(l) : l \in Lists}}

Init == memberships = <<>> /\ answers = [g \in Group |-> Refused("notFound")]

AddMembership(g, list) ==
    /\ Len(memberships) < MaxMemberships /\ Len(list) <= Room
    /\ memberships' = Append(memberships, [group |-> g, subjects |-> list])
    /\ UNCHANGED answers

\* One group at a time has an upstream answer: no group's members depend on what
\* is answered for another.
Answers(g, a) ==
    /\ answers' = [h \in Group |-> IF h = g THEN a ELSE Refused("notFound")]
    /\ UNCHANGED memberships

Next ==
    \/ \E g \in Group, list \in Lists : AddMembership(g, list)
    \/ \E g \in Group, a \in Upstream : Answers(g, a)

Spec == Init /\ [][Next]_vars

\* The same with sets for lists, which is what Groups and the controller's
\* modules work with.
SetOf(answer) == [answer EXCEPT !.subjects = Range(@)]
Sets == [i \in DOMAIN memberships |-> SetOf(memberships[i])]
Members(g) == ResolveMembers(Sets, g, SetOf(answers[g]))

\* An upstream error other than NotFound is never softened into a list, not
\* even when the config itself names members of the group: handleConfig would
\* otherwise shrink the binding to those.
FailureDominates ==
    \A g \in Group :
        answers[g].err \notin {"nil", "notFound"} =>
            Members(g) = Failure(answers[g].err)

\* A list is never empty, so handleConfig never gets as far as its check for no
\* members, and a binding without subjects is never written.
NeverEmpty == \A g \in Group : Members(g).err = "nil" => Members(g).subjects # {}

\* The order in which a config lists its memberships, and whether it gives a
\* group's subjects in one entry or in several, makes no difference.
OrderFree ==
    \A g \in Group :
        LET of     == {m \in Range(Sets) : m.group = g}
            united == <<[group |-> g, subjects |-> UNION {m.subjects : m \in of}]>>
        IN  /\ Members(g) = ResolveMembers(Reverse(Sets), g, SetOf(answers[g]))
            /\ Members(g) = ResolveMembers(united, g, SetOf(answers[g]))

\* Sets are the right picture of lists: whatever order the maps gave, what is
\* resolved has the members Groups says, each once and in the order of their
\* names, so that nothing but the order of namesakes is left to chance.
ListsAreSets ==
    \A g \in Group : \A answer \in ResolveLists(memberships, g, answers[g]) :
        LET list == answer.subjects
        IN  /\ SetOf(answer) = Members(g)
            /\ IsInjective(list)
            /\ \A i, j \in DOMAIN list : i < j => list[i].name <= list[j].name

\* To merge one GroupMap into another answers as asking both in turn does, except
\* that a group with no subjects is found.
MergeIntoIsMerge ==
    \A g \in Group : \A own \in GroupMapLists(memberships, g) :
        answers[g].err \in {"nil", "notFound"} =>
            \A merged \in MergeInto(own, answers[g]) :
                \/ merged \in MergedLists(<<own, answers[g]>>)
                \/ merged = Listed(<<>>)
=============================================================================
