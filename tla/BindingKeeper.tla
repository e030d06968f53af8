--------------------------- MODULE BindingKeeper ---------------------------
(***************************************************************************)
(* What users are promised of the controller, with no queue, no timers, no *)
(* order of entries, no list of children and no API calls: a keeper of     *)
(* bindings that works on one version of one config at a time, the one it  *)
(* knows of.                                                               *)
(*                                                                         *)
(* It writes only bindings that the version asks for, with the subjects    *)
(* that the version and one upstream answer name, over nothing or over a   *)
(* binding of the same config that is no younger.  It deletes only what    *)
(* that very object owns.  In one pass it changes its mind about no name:  *)
(* a name it has granted, or whose group it could not look up, is settled. *)
(***************************************************************************)
EXTENDS Naturals, Sequences

CONSTANTS Config, Group, Name, Specs, ValidKinds, UpstreamAnswers,
          NoSpec, NoConfig, NoVersion, Absent

VARIABLES
    history,   \* history[c]: every version of config c, the last is live
    upstream,  \* upstream[g]: every upstream answer for g, the last is live
    bindings,  \* bindings[n]: the binding named n, or Absent
    edits,     \* how many times people have changed one of these
    known,     \* known[c]: the version of c the keeper knows of
    handled,   \* the config it works on, or NoConfig
    version,   \* the version of it that it works on
    settled    \* the names it is done with in this pass

world  == <<history, upstream, edits>>
keeper == <<known, handled, version, settled>>
vars   == <<world, bindings, keeper>>

Live(c) == history[c][Len(history[c])]

Init ==
    /\ history = [c \in Config |-> <<[uid |-> 0, spec |-> NoSpec]>>]
    /\ \A g \in Group : Len(upstream[g]) = 1
    /\ bindings = [n \in Name |-> Absent]
    /\ edits = 0
    /\ known = [c \in Config |-> 1]
    /\ handled = NoConfig /\ version = NoVersion /\ settled = {}

-----------------------------------------------------------------------------
\* A config that is created again is another object.
EditConfig(c, s) ==
    /\ edits' = edits + 1
    /\ history' = [history EXCEPT ![c] = Append(@,
          [uid |-> IF Live(c).spec = NoSpec THEN Live(c).uid + 1 ELSE Live(c).uid,
           spec |-> s])]
    /\ UNCHANGED <<upstream, bindings, keeper>>

EditUpstream(g, a) ==
    /\ edits' = edits + 1
    /\ upstream' = [upstream EXCEPT ![g] = Append(@, a)]
    /\ UNCHANGED <<history, bindings, keeper>>

RemoveByHand(n) ==
    /\ edits' = edits + 1
    /\ bindings' = [bindings EXCEPT ![n] = Absent]
    /\ UNCHANGED <<history, upstream, keeper>>

\* The cluster removes what belongs to an object that is gone.
Collect(n) ==
    /\ bindings[n] # Absent
    /\ LET o == bindings[n].owner
       IN  Live(o.config).spec = NoSpec \/ Live(o.config).uid # o.uid
    /\ bindings' = [bindings EXCEPT ![n] = Absent]
    /\ UNCHANGED <<world, keeper>>

-----------------------------------------------------------------------------
Learn(c) ==
    /\ \E i \in (known[c] + 1)..Len(history[c]) : known' = [known EXCEPT ![c] = i]
    /\ UNCHANGED <<world, bindings, handled, version, settled>>

Begin(c) ==
    /\ handled = NoConfig
    /\ history[c][known[c]].spec # NoSpec
    /\ handled' = c /\ version' = history[c][known[c]] /\ settled' = {}
    /\ UNCHANGED <<world, bindings, known>>

\* A pass may be given up at any point.
End ==
    /\ handled' = NoConfig /\ version' = NoVersion /\ settled' = {}
    /\ UNCHANGED <<world, bindings, known>>

Object == [config |-> handled, uid |-> version.uid]

\* The version's entries that claim the name n: it is config-group-role.
Claims(n) ==
    {i \in DOMAIN version.spec.bindings :
        LET e == version.spec.bindings[i]
        IN  e.kind \in ValidKinds /\ n = handled \o e.group \o e.role}

\* The subjects the version itself lists for the group g.
Listed(g) ==
    LET ms == version.spec.memberships
    IN  UNION {ms[i].subjects : i \in {k \in DOMAIN ms : ms[k].group = g}}

\* The binding an entry asks for once upstream has answered a for its group.
AskedFor(e, a) ==
    [owner |-> Object, group |-> e.group, kind |-> e.kind, role |-> e.role,
     subjects |-> Listed(e.group) \union a.subjects]

\* The keeper may fail to notice that a write has succeeded.
Grant(n) ==
    /\ handled # NoConfig
    /\ n \notin settled
    /\ bindings[n] # Absent => /\ bindings[n].owner.config = handled
                               /\ bindings[n].owner.uid <= version.uid
    /\ \E i \in Claims(n) :
          LET e == version.spec.bindings[i]
          IN  \E j \in DOMAIN upstream[e.group] :
                LET a == upstream[e.group][j]
                IN  /\ a.err \in {"nil", "notFound"}
                    /\ AskedFor(e, a).subjects # {}
                    /\ bindings' = [bindings EXCEPT ![n] = AskedFor(e, a)]
    /\ settled' \in {settled, settled \union {n}}
    /\ UNCHANGED <<world, known, handled, version>>

\* The lookup of a group has failed: its bindings stay as they are.
Settle(n) ==
    /\ handled # NoConfig
    /\ Claims(n) # {}
    /\ settled' = settled \union {n}
    /\ UNCHANGED <<world, bindings, known, handled, version>>

Revoke(n) ==
    /\ handled # NoConfig
    /\ n \notin settled
    /\ bindings[n] # Absent
    /\ bindings[n].owner = Object
    /\ bindings' = [bindings EXCEPT ![n] = Absent]
    /\ UNCHANGED <<world, keeper>>

Next ==
    \/ \E c \in Config, s \in Specs \union {NoSpec} : EditConfig(c, s)
    \/ \E g \in Group, a \in UpstreamAnswers : EditUpstream(g, a)
    \/ \E n \in Name : RemoveByHand(n) \/ Collect(n)
    \/ \E c \in Config : Learn(c) \/ Begin(c)
    \/ \E n \in Name : Grant(n) \/ Settle(n) \/ Revoke(n)
    \/ End

Spec == Init /\ [][Next]_vars
=============================================================================
