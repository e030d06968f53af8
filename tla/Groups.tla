------------------------------- MODULE Groups -------------------------------
(***************************************************************************)
(* pkg/groups: who is a member of a group.                                 *)
(*                                                                         *)
(* A Grouper answers Members(group) with a list of subjects or an error.   *)
(* Two groupers matter to the controller: the GroupMap built from the      *)
(* memberships written in a config, and the upstream one (G Suite).  Merge *)
(* asks them in order.  Every list a Grouper returns is uniqified and      *)
(* sorted by Normalize, so a list of subjects is modelled by its set.      *)
(***************************************************************************)
EXTENDS Integers, Sequences, Functions

CONSTANTS
    Group,     \* group names
    Subject    \* rbacv1.Subject values: users, groups, service accounts

\* The causes the controller tells apart.  "other" is an error of a Grouper
\* outside this repository that uses none of the four sentinel errors.
Errors == {"notFound", "unknown", "timeout", "canceled", "other"}

IsNotFound(err) == err = "notFound"
IsUnknownMemberships(err) == err \in {"unknown", "timeout", "canceled"}

\* What Members returns: a list with a nil error, or an error with no list.
Success(S)   == [err |-> "nil", subjects |-> S]
Failure(err) == [err |-> err, subjects |-> {}]
Answer == {Success(S) : S \in SUBSET Subject} \union {Failure(e) : e \in Errors}

\* The grouper configured when no upstream is.
EmptyMembers(g) == Failure("notFound")

-----------------------------------------------------------------------------
\* Memberships as an RBACSyncConfig spells them: one group may be listed
\* several times, and may be listed with no subject at all.
Membership == [group : Group, subjects : SUBSET Subject]

\* (mistake) The last membership of a group replaces the others.
LastMembershipWins(memberships) ==
    [g \in {m.group : m \in {x \in Range(memberships) : x.subjects # {}}} |->
        LET of == {i \in DOMAIN memberships : memberships[i].group = g}
        IN  memberships[CHOOSE i \in of : \A j \in of : j <= i].subjects]

\* resolveGroups' GroupMap: appending a membership's subjects one by one
\* leaves a group that has none out of the map.
GroupMapOf(memberships) ==
    LET filled == {m \in Range(memberships) : m.subjects # {}}
    IN  [g \in {m.group : m \in filled} |->
            UNION {m.subjects : m \in {f \in filled : f.group = g}}]

GroupMapMembers(gm, g) ==
    IF g \in DOMAIN gm THEN Success(gm[g]) ELSE Failure("notFound")

\* (mistake) Every error is skipped like NotFound.
MergedMembersLenient(answers) ==
    LET union == UNION {answers[i].subjects : i \in DOMAIN answers}
    IN  IF union = {} THEN Failure("notFound") ELSE Success(union)

\* (mistake) An empty union is returned as a list.
MergedMembersMaybeEmpty(answers) ==
    LET fatal == {i \in DOMAIN answers :
                    answers[i].err # "nil" /\ ~IsNotFound(answers[i].err)}
    IN  IF fatal # {}
          THEN Failure(answers[CHOOSE i \in fatal : \A j \in fatal : i <= j].err)
          ELSE Success(UNION {answers[i].subjects : i \in DOMAIN answers})

\* Merged.Members over the answers of its groupers, in their order: NotFound
\* is skipped, any other error ends the loop and discards what was gathered.
MergedMembers(answers) ==
    LET fatal == {i \in DOMAIN answers :
                    answers[i].err # "nil" /\ ~IsNotFound(answers[i].err)}
        union == UNION {answers[i].subjects : i \in DOMAIN answers}
    IN  IF fatal # {}
          THEN Failure(answers[CHOOSE i \in fatal : \A j \in fatal : i <= j].err)
          ELSE IF union = {} THEN Failure("notFound") ELSE Success(union)

\* gm.Members(g) in handleConfig: the config's own memberships merged with
\* what the upstream grouper answers.
ResolveMembers(memberships, g, upstreamAnswer) ==
    MergedMembers(<<GroupMapMembers(GroupMapOf(memberships), g), upstreamAnswer>>)
=============================================================================
