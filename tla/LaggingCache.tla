---------------------------- MODULE LaggingCache ----------------------------
(***************************************************************************)
(* What the controller needs of an informer: a cache of the configs that   *)
(* is behind the API server but never goes back, and that owes the worker  *)
(* a look at each version it moves to, from the moment it has it.  It is   *)
(* the way Controller's Sync, Dequeue and Load see their informer.         *)
(***************************************************************************)
EXTENDS Naturals, Sequences

CONSTANT Config

VARIABLES
    log,     \* all writes of configs: log[i] = [config, present]
    seen,    \* seen[c]: the write of c the cache shows, 0 for none
    loaded,  \* loaded[c]: the one the worker last read
    owed     \* configs the worker will be sent to

Init ==
    /\ log = <<>>
    /\ seen = [c \in Config |-> 0]
    /\ loaded = [c \in Config |-> 0]
    /\ owed = {}

Write(c, there) ==
    /\ log' = Append(log, [config |-> c, present |-> there])
    /\ UNCHANGED <<seen, loaded, owed>>

\* The cache moves on to a later write; a deletion calls for nothing.
Sync(c) ==
    \E i \in (seen[c] + 1)..Len(log) :
        /\ log[i].config = c
        /\ seen' = [seen EXCEPT ![c] = i]
        /\ owed' = IF log[i].present THEN owed \union {c} ELSE owed
        /\ UNCHANGED <<log, loaded>>

\* Two reasons to look may be served by one look or by two.
Handle(c) ==
    /\ c \in owed
    /\ loaded' = [loaded EXCEPT ![c] = seen[c]]
    /\ owed' \in {owed, owed \ {c}}
    /\ UNCHANGED <<log, seen>>

Next == \E c \in Config : Sync(c) \/ Handle(c) \/ \E there \in BOOLEAN : Write(c, there)

Spec == Init /\ [][Next]_<<log, seen, loaded, owed>>
=============================================================================
