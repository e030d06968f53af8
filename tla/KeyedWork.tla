----------------------------- MODULE KeyedWork -----------------------------
(***************************************************************************)
(* What the controller needs of its work queue, and nothing of how the     *)
(* queue does it: keys are owed a handling, one at a time is handled, and  *)
(* a key asked for while it is handled stays owed.                         *)
(***************************************************************************)
EXTENDS Integers, FiniteSets

CONSTANT Key

VARIABLES
    owed,   \* keys some request has not been served for
    busy,   \* the keys being handled: one at most
    closed  \* no new request is accepted

vars == <<owed, busy, closed>>

Init == owed = {} /\ busy = {} /\ closed = FALSE

Request(K) ==
    /\ ~closed
    /\ owed' = owed \union K
    /\ UNCHANGED <<busy, closed>>

\* Two requests for k may be served by one handling or by two.
Start(k) ==
    /\ k \in owed
    /\ busy = {}
    /\ owed' \in {owed, owed \ {k}}
    /\ busy' = {k}
    /\ UNCHANGED closed

Finish(k) ==
    /\ busy = {k}
    /\ busy' = {}
    /\ UNCHANGED <<owed, closed>>

\* Closing may forget requests, never a handling in progress.
Close ==
    /\ ~closed
    /\ closed' = TRUE
    /\ owed' \in SUBSET owed
    /\ UNCHANGED busy

Next ==
    \/ \E K \in SUBSET Key : Request(K)
    \/ \E k \in Key : Start(k) \/ Finish(k)
    \/ Close

Spec == Init /\ [][Next]_vars
=============================================================================
