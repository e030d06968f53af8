------------------------ MODULE GsuiteGrouperProofs ------------------------
(***************************************************************************)
(* For every group, page size and sequence of edits: what a call of        *)
(* Members returns is complete, and not found only when there is no group. *)
(***************************************************************************)
EXTENDS GsuiteGrouper, FiniteSetTheorems, TLAPS

\* The members the service has still to list, and its next page of them.
Rest == {s \in MembersNow : s > cursor}
FirstOf(R) == {s \in R : Cardinality({t \in R : t < s}) < PageSize}

\* A page has no gap: with a member it has every earlier one that is left.
LEMMA PageHasNoGap ==
    ASSUME NEW R \in SUBSET Nat, NEW t \in FirstOf(R), NEW s \in R, s <= t
    PROVE  s \in FirstOf(R)
<1> DEFINE Below(x) == {u \in R : u < x}
<1>1. /\ t \in Nat /\ s \in Nat
      /\ Cardinality(Below(t)) < PageSize
  BY DEF FirstOf
<1>2. IsFiniteSet(Below(t))
  <2>1. Below(t) \in SUBSET (0..t)
    <3>1. ASSUME NEW u \in Below(t) PROVE u \in 0..t
      <4>1. u \in Nat /\ u < t
        BY <3>1
      <4> QED
        BY <4>1, <1>1
    <3> QED
      BY <3>1
  <2>2. IsFiniteSet(0..t)
    BY <1>1, FS_Interval
  <2> QED
    BY <2>1, <2>2, FS_Subset
<1>3. Below(s) \in SUBSET Below(t)
  <2>1. ASSUME NEW u \in R, u < s PROVE u < t
    BY <1>1, <2>1
  <2> QED
    BY <2>1
<1>4. /\ IsFiniteSet(Below(s))
      /\ Cardinality(Below(s)) <= Cardinality(Below(t))
  BY <1>2, <1>3, FS_Subset
<1>5. Cardinality(Below(s)) \in Nat /\ Cardinality(Below(t)) \in Nat
  BY <1>2, <1>4, FS_CardinalityType
<1>6. Cardinality(Below(s)) < PageSize
  BY <1>1, <1>4, <1>5, GsuiteAssumption
<1> QED
  BY <1>6 DEF FirstOf

\* What is true while a call fetches pages.  Up to the cursor nothing steady is
\* missing; an answer under way continues from there, to its last member or to
\* the end of the list; and a 404 has seen that there is no group.
Fetching == pc \in {"request", "wait"}
PageUnderWay == reply \in Replies /\ reply.err = "nil"

Gathered ==
    Fetching =>
        /\ subjects \subseteq ever
        /\ steady \subseteq MembersNow
        /\ MembersNow \subseteq ever
        /\ \A s \in steady : s <= cursor => s \in subjects

UnderWay ==
    Fetching /\ PageUnderWay =>
        /\ reply.page \subseteq ever
        /\ reply.more =>
              \A s \in steady, t \in reply.page :
                  s > cursor /\ s <= t => s \in reply.page
        /\ ~reply.more => \A s \in steady : s > cursor => s \in reply.page

Absence ==
    Fetching => /\ directory = NoGroup => absent
                /\ reply \in Replies /\ reply.err = "404" => absent

IInv ==
    TypeOK /\ Gathered /\ UnderWay /\ Absence /\ ListIsComplete /\ NotFoundMeansAbsent

LEMMA NumberedMembers ==
    /\ \A s \in Subject : s \in Nat /\ s > 0
    /\ TypeOK => /\ \A s \in steady : s \in Subject
                 /\ cursor \in Nat
<1>1. \A s \in Subject : s \in Nat /\ s > 0
  BY GsuiteAssumption
<1>2. TypeOK => /\ \A s \in steady : s \in Subject
                /\ cursor \in Subject \union {0}
  BY DEF TypeOK
<1>3. \A n \in Subject \union {0} : n \in Nat
  BY <1>1
<1> QED
  BY <1>1, <1>2, <1>3

LEMMA InitEstablishes == Init => IInv
<1> SUFFICES ASSUME Init PROVE IInv
  OBVIOUS
<1>1. TypeOK
  <2>1. Failure("notFound") \in Answer
    BY DEF Answer, Errors
  <2>2. edits \in 0..MaxEdits
    BY GsuiteAssumption DEF Init
  <2> QED
    BY <2>1, <2>2 DEF Init, TypeOK
<1>2. pc = "idle"
  BY DEF Init
<1> QED
  BY <1>1, <1>2 DEF IInv, Gathered, UnderWay, Absence, Fetching, ListIsComplete,
                    NotFoundMeansAbsent

LEMMA EditKeeps ==
    ASSUME IInv, NEW d \in {NoGroup} \union SUBSET Subject, EditDirectory(d)
    PROVE  IInv'
<1> USE DEF IInv, EditDirectory, callVars
<1>1. TypeOK'
  <2>1. edits' \in 0..MaxEdits
    BY GsuiteAssumption DEF TypeOK
  <2>2. ever' \in SUBSET Subject /\ steady' \in SUBSET Subject
    BY DEF TypeOK
  <2> QED
    BY <2>1, <2>2 DEF TypeOK
<1>2. steady' \subseteq steady /\ ever \subseteq ever' /\ (absent => absent')
  BY DEF TypeOK
<1>3. Gathered'
  BY <1>2 DEF Gathered, Fetching, MembersNow
<1>4. UnderWay'
  BY <1>2 DEF UnderWay, Fetching, PageUnderWay
<1>5. Absence'
  BY <1>2 DEF Absence, Fetching
<1>6. ListIsComplete' /\ NotFoundMeansAbsent'
  BY <1>2 DEF ListIsComplete, NotFoundMeansAbsent
<1> QED
  BY <1>1, <1>3, <1>4, <1>5, <1>6

LEMMA ServeKeeps ==
    ASSUME IInv, Serve
    PROVE  IInv'
<1> DEFINE page == FirstOf(Rest)
           r == IF directory = NoGroup
                  THEN [err |-> "404", page |-> {}, more |-> FALSE]
                  ELSE [err |-> "nil", page |-> page, more |-> page # Rest]
<1>1. Answered(r)
  BY DEF Serve, Rest, FirstOf
<1> HIDE DEF r
<1>2. /\ pc = "wait" /\ reply' = r
      /\ UNCHANGED <<directory, edits, matches, pc, subjects, cursor, expired, result,
                     steady, ever, absent>>
  BY <1>1 DEF Answered, historyVars
<1>3. /\ MembersNow \in SUBSET Subject
      /\ Rest \in SUBSET Nat /\ Rest \subseteq MembersNow /\ page \subseteq Rest
  BY GsuiteAssumption DEF IInv, TypeOK, MembersNow, Rest, FirstOf
<1>4. r \in Replies
  BY <1>3 DEF r, Replies
<1>5. TypeOK'
  BY <1>2, <1>4 DEF IInv, TypeOK
<1>6. Gathered'
  BY <1>2 DEF IInv, Gathered, Fetching, MembersNow
<1>7. UnderWay'
  <2> SUFFICES ASSUME directory # NoGroup
               PROVE  /\ page \subseteq ever
                      /\ \A s \in steady, t \in page :
                            s > cursor /\ s <= t => s \in page
                      /\ page = Rest => \A s \in steady : s > cursor => s \in page
    BY <1>2 DEF UnderWay, PageUnderWay, Fetching, r
  <2>1. page \subseteq ever /\ \A s \in steady : s > cursor => s \in Rest
    BY <1>2, <1>3 DEF IInv, Gathered, Fetching, Rest
  <2> QED
    BY <2>1, <1>3, PageHasNoGap
<1>8. Absence'
  BY <1>2 DEF IInv, Absence, Fetching, r
<1>9. ListIsComplete' /\ NotFoundMeansAbsent'
  BY <1>2 DEF ListIsComplete, NotFoundMeansAbsent
<1> QED
  BY <1>5, <1>6, <1>7, <1>8, <1>9 DEF IInv

LEMMA ServerFailsKeeps ==
    ASSUME IInv, ServerFails
    PROVE  IInv'
<1> USE DEF IInv, ServerFails, Answered, historyVars
<1>1. TypeOK'
  BY DEF TypeOK, Replies
<1>2. Gathered' /\ Absence'
  BY DEF Gathered, Absence, Fetching, MembersNow
<1>3. UnderWay'
  BY DEF UnderWay, PageUnderWay
<1>4. ListIsComplete' /\ NotFoundMeansAbsent'
  BY DEF ListIsComplete, NotFoundMeansAbsent
<1> QED
  BY <1>1, <1>2, <1>3, <1>4

LEMMA CallKeeps ==
    ASSUME IInv, Call
    PROVE  IInv'
<1> USE DEF IInv, Call, historyVars
<1>1. TypeOK'
  BY GsuiteAssumption DEF TypeOK, Answer, Failure, Errors
<1>2. Gathered' /\ UnderWay' /\ Absence'
  BY DEF Gathered, UnderWay, Absence, Fetching
<1>3. ListIsComplete' /\ NotFoundMeansAbsent'
  BY DEF ListIsComplete, NotFoundMeansAbsent, Failure, TypeOK
<1> QED
  BY <1>1, <1>2, <1>3

LEMMA ClientReadyKeeps ==
    ASSUME IInv, ClientReady
    PROVE  IInv'
<1> USE DEF IInv, ClientReady
<1>1. TypeOK'
  BY DEF TypeOK, MembersNow
<1>2. reply' = NoReply
  BY DEF TypeOK
<1>3. Gathered'
  <2>1. \A s \in steady' : ~(s <= cursor')
    BY <1>1, NumberedMembers DEF TypeOK
  <2> QED
    BY <2>1 DEF Gathered, Fetching, MembersNow
<1>4. UnderWay' /\ Absence'
  BY <1>2, GsuiteAssumption DEF UnderWay, PageUnderWay, Absence, Fetching
<1>5. ListIsComplete' /\ NotFoundMeansAbsent'
  BY DEF ListIsComplete, NotFoundMeansAbsent
<1> QED
  BY <1>1, <1>3, <1>4, <1>5

\* Asking for a page and the passing of the deadline change nothing of this.
LEMMA RequestOrExpireKeeps ==
    ASSUME IInv, Request \/ Expire
    PROVE  IInv'
<1> USE DEF IInv, Request, Expire, historyVars
<1>1. TypeOK'
  BY DEF TypeOK
<1>2. Gathered' /\ UnderWay' /\ Absence'
  BY DEF Gathered, UnderWay, PageUnderWay, Absence, Fetching, MembersNow
<1>3. ListIsComplete' /\ NotFoundMeansAbsent'
  BY DEF ListIsComplete, NotFoundMeansAbsent, TypeOK
<1> QED
  BY <1>1, <1>2, <1>3

\* A call that returns an error: it must not be a false "not found".
LEMMA FailureKeeps ==
    ASSUME IInv, NEW e \in Errors, Return(Failure(e)), UNCHANGED subjects,
           e = "notFound" => absent
    PROVE  IInv'
<1> USE DEF IInv, Return, historyVars
<1>1. TypeOK'
  BY DEF TypeOK, Answer
<1>2. Gathered' /\ UnderWay' /\ Absence'
  BY DEF Gathered, UnderWay, Absence, Fetching
<1>3. ListIsComplete' /\ NotFoundMeansAbsent'
  BY DEF ListIsComplete, NotFoundMeansAbsent, Failure, Errors
<1> QED
  BY <1>1, <1>2, <1>3

LEMMA ClassifyType ==
    ASSUME NEW err
    PROVE  /\ Classify(err) \in Errors
           /\ Classify(err) = "notFound" => err = "404"
<1>1. ContextErr \in {"nil", "DeadlineExceeded"}
  BY DEF ContextErr
<1> QED
  BY <1>1 DEF Classify, Errors

LEMMA TakePageKeeps ==
    ASSUME IInv, TakePage
    PROVE  IInv'
<1>1. /\ Fetching /\ PageUnderWay
      /\ subjects' = subjects \union reply.page
      /\ reply.page \in SUBSET Subject
      /\ reply.more \in BOOLEAN
  BY DEF TakePage, Fetching, PageUnderWay, Replies
<1>2. subjects' \subseteq ever
  BY <1>1 DEF IInv, Gathered, UnderWay
<1>3. CASE reply.more
  <2>1. PICK last \in reply.page :
           (\A s \in reply.page : s <= last) /\ cursor' = last
    BY <1>3 DEF TakePage, NextPage
  <2>2. /\ pc' = "request" /\ reply' = NoReply
        /\ UNCHANGED <<directory, edits, matches, expired, result, steady, ever, absent>>
    BY <1>3 DEF TakePage, NextPage, historyVars
  <2>3. TypeOK'
    BY <1>1, <2>1, <2>2 DEF IInv, TypeOK
  <2>4. ASSUME NEW s \in steady, s <= cursor' PROVE s \in subjects'
    <3>1. s \in Nat /\ cursor \in Nat /\ last \in Nat
      BY <1>1, <2>1, NumberedMembers DEF IInv
    <3>2. CASE s <= cursor
      BY <1>1, <3>2 DEF IInv, Gathered
    <3>3. CASE s > cursor
      BY <1>1, <1>3, <2>1, <2>4, <3>3 DEF IInv, UnderWay
    <3> QED
      BY <3>1, <3>2, <3>3
  <2>5. Gathered'
    BY <1>1, <1>2, <2>2, <2>4 DEF IInv, Gathered, Fetching, MembersNow
  <2>6. UnderWay' /\ Absence'
    BY <1>1, <2>2, GsuiteAssumption
       DEF IInv, UnderWay, PageUnderWay, Absence, Fetching
  <2>7. ListIsComplete' /\ NotFoundMeansAbsent'
    BY <2>2 DEF ListIsComplete, NotFoundMeansAbsent
  <2> QED
    BY <2>3, <2>5, <2>6, <2>7 DEF IInv
<1>4. CASE ~reply.more
  <2>1. /\ pc' = "done" /\ reply' = NoReply /\ result' = Success(subjects')
        /\ UNCHANGED <<directory, edits, matches, cursor, expired, steady, ever, absent>>
    BY <1>4 DEF TakePage, NextPage, Return, historyVars
  <2>2. TypeOK'
    BY <1>1, <2>1 DEF IInv, TypeOK, Answer
  <2>3. ASSUME NEW s \in steady PROVE s \in subjects'
    <3>1. s \in Nat /\ cursor \in Nat
      BY NumberedMembers DEF IInv
    <3>2. s <= cursor \/ s > cursor
      BY <3>1
    <3> QED
      BY <1>1, <1>4, <3>2 DEF IInv, Gathered, UnderWay
  <2>4. ListIsComplete' /\ NotFoundMeansAbsent'
    BY <1>2, <2>1, <2>3 DEF ListIsComplete, NotFoundMeansAbsent, Success
  <2>5. Gathered' /\ UnderWay' /\ Absence'
    BY <2>1 DEF Gathered, UnderWay, Absence, Fetching
  <2> QED
    BY <2>2, <2>4, <2>5 DEF IInv
<1> QED
  BY <1>1, <1>3, <1>4

LEMMA StepKeeps == IInv /\ [Next]_vars => IInv'
<1> SUFFICES ASSUME IInv, [Next]_vars PROVE IInv'
  OBVIOUS
<1>1. ASSUME NEW d \in {NoGroup} \union SUBSET Subject, EditDirectory(d) PROVE IInv'
  BY <1>1, EditKeeps
<1>2. CASE Serve
  BY <1>2, ServeKeeps
<1>3. CASE ServerFails
  BY <1>3, ServerFailsKeeps
<1>4. CASE Call
  BY <1>4, CallKeeps
<1>5. CASE ClientReady
  BY <1>5, ClientReadyKeeps
<1>6. CASE Request \/ Expire
  BY <1>6, RequestOrExpireKeeps
<1>7. CASE TakePage
  BY <1>7, TakePageKeeps
<1>8. CASE ClientFails
  BY <1>8, FailureKeeps DEF ClientFails, Errors
<1>9. CASE TakeError
  <2>1. Classify(reply.err) = "notFound" => absent
    BY <1>9, ClassifyType DEF TakeError, IInv, Absence, Fetching
  <2> QED
    BY <1>9, <2>1, ClassifyType, FailureKeeps DEF TakeError
<1>10. CASE GiveUp
  <2>1. Classify("context") \in Errors \ {"notFound"}
    BY ClassifyType
  <2> QED
    BY <1>10, <2>1, FailureKeeps DEF GiveUp
<1>11. CASE UNCHANGED vars
  BY <1>11 DEF vars, callVars, historyVars, IInv, TypeOK, Gathered, UnderWay,
               PageUnderWay, Absence, Fetching, MembersNow, ListIsComplete,
               NotFoundMeansAbsent
<1> QED
  BY <1>1, <1>2, <1>3, <1>4, <1>5, <1>6, <1>7, <1>8, <1>9, <1>10, <1>11
     DEF Next, Members

\* Every variable keeps its type, and no answer outlives the call it was for.
THEOREM GrouperTypes == Spec => []TypeOK
<1>1. IInv => TypeOK
  BY DEF IInv
<1> QED
  BY InitEstablishes, StepKeeps, <1>1, PTL DEF Spec

\* A list that Members returns has everyone who was a member all along and
\* nobody who never was one, for every page size and every edit meanwhile.
THEOREM ListsAreComplete == Spec => []ListIsComplete
<1>1. IInv => ListIsComplete
  BY DEF IInv
<1> QED
  BY InitEstablishes, StepKeeps, <1>1, PTL DEF Spec

\* Members says not found only of a group that the pattern excludes or that did
\* not exist at some moment of the call.
THEOREM NotFoundIsTrue == Spec => []NotFoundMeansAbsent
<1>1. IInv => NotFoundMeansAbsent
  BY DEF IInv
<1> QED
  BY InitEstablishes, StepKeeps, <1>1, PTL DEF Spec
=============================================================================
