--------------------------- MODULE GsuiteGrouper ---------------------------
(***************************************************************************)
(* pkg/groups/gsuite: one call after another of Grouper.Members, for one   *)
(* group.  The members come from the directory page by page, under one     *)
(* deadline for all pages, while the directory is edited; whatever goes    *)
(* wrong becomes one of the sentinel errors of package groups.             *)
(*                                                                         *)
(* The directory service is external.  It lists members in a fixed order   *)
(* (subjects are numbered by it), and a page token names the last member   *)
(* of the page it came with.                                               *)
(***************************************************************************)
EXTENDS Groups, FiniteSets

CONSTANTS
    PageSize,   \* members the directory puts on a page
    MaxEdits,   \* bound: edits of the directory between two calls' starts
    NoGroup,    \* marker: the directory has no such group
    NoReply     \* marker: the service has not answered yet

\* What the service answers: a page, a status 404, or any other failure.
Replies == [err : {"nil", "404", "other"}, page : SUBSET Subject, more : BOOLEAN]

ASSUME GsuiteAssumption ==
    /\ Subject \subseteq Nat \ {0}
    /\ PageSize \in Nat \ {0}
    /\ MaxEdits \in Nat
    /\ \A S \in SUBSET Subject : S # NoGroup
    /\ NoReply \notin Replies

VARIABLES
    directory,  \* the members of the group now, or NoGroup
    edits,      \* how much of the bound is used
    matches,    \* does the group's name match -gsuite.pattern?
    pc,         \* idle, client, request, wait, done
    reply,      \* the answer to the request, on its way
    subjects,   \* gathered so far
    cursor,     \* the page token
    expired,    \* has the deadline of tctx passed?
    result,     \* what the last call returned
    steady,     \* (history) members at every moment of the fetch
    ever,       \* (history) members at some moment of the fetch
    absent      \* (history) did the group not exist at some moment of it?

callVars    == <<matches, pc, reply, subjects, cursor, expired, result>>
historyVars == <<steady, ever, absent>>
vars == <<directory, edits, callVars, historyVars>>

MembersNow == IF directory = NoGroup THEN {} ELSE directory

Init ==
    /\ directory \in {NoGroup} \union SUBSET Subject
    /\ edits = 0 /\ matches = FALSE /\ pc = "idle" /\ reply = NoReply
    /\ subjects = {} /\ cursor = 0 /\ expired = FALSE
    /\ result = Failure("notFound")
    /\ steady = {} /\ ever = {} /\ absent = FALSE

-----------------------------------------------------------------------------
(* The directory *)

EditDirectory(d) ==
    /\ d # directory /\ edits < MaxEdits
    /\ edits' = edits + 1
    /\ directory' = d
    /\ steady' = IF d = NoGroup THEN {} ELSE steady \intersect d
    /\ ever' = IF d = NoGroup THEN ever ELSE ever \union d
    /\ absent' = (absent \/ d = NoGroup)
    /\ UNCHANGED callVars

Answered(r) ==
    /\ pc = "wait" /\ reply = NoReply
    /\ reply' = r
    /\ UNCHANGED <<directory, edits, matches, pc, subjects, cursor, expired, result, historyVars>>

\* The next members after the cursor, and whether there are more.
Serve ==
    LET rest == {s \in MembersNow : s > cursor}
        page == {s \in rest : Cardinality({t \in rest : t < s}) < PageSize}
    IN  Answered(IF directory = NoGroup
                   THEN [err |-> "404", page |-> {}, more |-> FALSE]
                   ELSE [err |-> "nil", page |-> page, more |-> page # rest])

\* Any status other than 404, or no usable answer at all.
ServerFails == Answered([err |-> "other", page |-> {}, more |-> FALSE])

-----------------------------------------------------------------------------
(* Members *)

\* Entry: a group that the pattern excludes is not found, without a request.
Call ==
    /\ pc \in {"idle", "done"}
    /\ matches' \in BOOLEAN
    /\ pc' = IF matches' THEN "client" ELSE "done"
    /\ result' = Failure("notFound")
    /\ edits' = 0
    /\ UNCHANGED <<directory, reply, subjects, cursor, expired, historyVars>>

\* (mistake) An answer that comes too late is left for the next call.
ReturnKeepsReply(answer) ==
    /\ result' = answer
    /\ pc' = "done"
    /\ UNCHANGED <<directory, edits, matches, reply, cursor, expired, historyVars>>

Return(answer) ==
    /\ result' = answer
    /\ pc' = "done"
    /\ reply' = NoReply
    /\ UNCHANGED <<directory, edits, matches, cursor, expired, historyVars>>

ClientFails ==
    /\ pc = "client"
    /\ Return(Failure("unknown"))
    /\ UNCHANGED subjects

\* The deadline starts once there is a client.
ClientReady ==
    /\ pc = "client"
    /\ pc' = "request"
    /\ subjects' = {} /\ cursor' = 0 /\ expired' = FALSE
    /\ steady' = MembersNow /\ ever' = MembersNow /\ absent' = (directory = NoGroup)
    /\ UNCHANGED <<directory, edits, matches, reply, result>>

\* The loop of Pages asks for a page.  A request under a context that is done
\* is not sent.
Request ==
    /\ pc = "request" /\ ~expired
    /\ pc' = "wait"
    /\ UNCHANGED <<directory, edits, matches, reply, subjects, cursor, expired, result, historyVars>>

Expire ==
    /\ pc \in {"request", "wait"} /\ ~expired
    /\ expired' = TRUE
    /\ UNCHANGED <<directory, edits, matches, pc, reply, subjects, cursor, result, historyVars>>

\* The loop of Pages ends with the list, or goes on after the page's last member.
NextPage ==
    IF reply.more
      THEN /\ pc' = "request"
           /\ reply' = NoReply
           /\ \E last \in reply.page : /\ \A s \in reply.page : s <= last
                                      /\ cursor' = last
           /\ UNCHANGED <<directory, edits, matches, expired, result, historyVars>>
      ELSE Return(Success(subjects'))

\* (mistake) The list is declared in the callback: each page replaces the last.
TakePageFresh ==
    /\ pc = "wait" /\ reply \in Replies /\ reply.err = "nil"
    /\ subjects' = reply.page
    /\ NextPage

\* The callback given to Pages appends a page.  An answer that has arrived is
\* used whether or not the deadline has passed.
TakePage ==
    /\ pc = "wait" /\ reply \in Replies /\ reply.err = "nil"
    /\ subjects' = subjects \union reply.page
    /\ NextPage

ContextErr == IF expired THEN "DeadlineExceeded" ELSE "nil"

\* (mistake) Whatever is neither a timeout nor a cancellation is not found.
ClassifyNotFoundLast(err) ==
    CASE ContextErr = "DeadlineExceeded" -> "timeout"
      [] ContextErr = "Canceled" -> "canceled"
      [] OTHER -> "notFound"

\* The switch on the error of Pages: a 404 is told by the error itself, the rest
\* by the state of the context, whatever the error was.  The context is
\* cancelled only after Members has returned, so "canceled" never happens.
Classify(err) ==
    CASE err = "404" -> "notFound"
      [] err # "404" /\ ContextErr = "DeadlineExceeded" -> "timeout"
      [] err # "404" /\ ContextErr = "Canceled" -> "canceled"
      [] OTHER -> "unknown"

TakeError ==
    /\ pc = "wait" /\ reply \in Replies /\ reply.err # "nil"
    /\ Return(Failure(Classify(reply.err)))
    /\ UNCHANGED subjects

\* (mistake) The deadline is looked at between two pages only.
GiveUpBetweenPages ==
    /\ pc = "request" /\ expired
    /\ Return(Failure(Classify("context")))
    /\ UNCHANGED subjects

\* The context ends a request that is to be made or is under way.
GiveUp ==
    /\ pc \in {"request", "wait"} /\ expired
    /\ Return(Failure(Classify("context")))
    /\ UNCHANGED subjects

-----------------------------------------------------------------------------
Members == ClientFails \/ ClientReady \/ Request \/ TakePage \/ TakeError \/ GiveUp

Next ==
    \/ \E d \in {NoGroup} \union SUBSET Subject : EditDirectory(d)
    \/ Serve \/ ServerFails
    \/ Call \/ Expire \/ Members

Spec == Init /\ [][Next]_vars

\* The timer fires and the caller's goroutine runs.  The service need not answer.
FairSpec == Spec /\ WF_vars(Expire) /\ WF_vars(Members)

-----------------------------------------------------------------------------
TypeOK ==
    /\ directory \in {NoGroup} \union SUBSET Subject
    /\ edits \in 0..MaxEdits
    /\ matches \in BOOLEAN /\ expired \in BOOLEAN /\ absent \in BOOLEAN
    /\ pc \in {"idle", "client", "request", "wait", "done"}
    /\ reply \in {NoReply} \union Replies
    /\ reply # NoReply => pc = "wait"
    /\ subjects \in SUBSET Subject
    /\ steady \in SUBSET Subject /\ ever \in SUBSET Subject
    /\ cursor \in Subject \union {0}
    /\ result \in Answer

\* A list is never cut short: it has everyone who was a member all along, and
\* nobody who was not a member at any moment, however many pages it took.  It need
\* not be the membership at any one moment.
ListIsComplete ==
    pc = "done" /\ result.err = "nil" =>
        steady \subseteq result.subjects /\ result.subjects \subseteq ever

\* Not found makes the controller delete bindings, so nothing else may read as
\* not found: not a deadline, not a failing service, and not a failing client.
NotFoundMeansAbsent ==
    pc = "done" /\ result.err = "notFound" => ~matches \/ absent

\* "The timeout will set a context timeout for a fetch of all pages": a call
\* returns though the service may stop answering at any page.
Returns == pc \in {"client", "request", "wait"} ~> pc = "done"
=============================================================================
