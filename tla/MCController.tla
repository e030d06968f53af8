---------------------------- MODULE MCController ----------------------------
(* Instances of Controller for TLC. *)
EXTENDS Controller

CONSTANTS u1, u2

a == <<"a">>
b == <<"b">>
g == <<"g">>
h == <<"g", "h">>
r == <<"r">>
hr == <<"h", "r">>

Bind(grp, kind) == [group |-> grp, kind |-> kind, role |-> r]
Has(grp, S) == [group |-> grp, subjects |-> S]

OneConfig == {a}
TwoConfigs == {a, b}
OneGroup == {g}
TwoGroups == {g, h}
OneRole == {r}

TwoRoles == {r, hr}

Both == [bindings |-> <<Bind(g, "Role"), Bind(h, "Role")>>,
         memberships |-> <<Has(g, {u1}), Has(h, {})>>]

\* Group is no kind of role. The group g-h with the role r and the group g with
\* the role h-r share a name.
Fewer == [bindings |-> <<Bind(h, "Group"), Bind(h, "Role"),
                         [group |-> g, kind |-> "Role", role |-> hr]>>,
          memberships |-> <<Has(h, {u2}), Has(h, {u1})>>]

OnlyG     == [bindings |-> <<Bind(g, "Role")>>, memberships |-> <<Has(g, {u1})>>]
ClusterG  == [bindings |-> <<Bind(g, "ClusterRole")>>, memberships |-> <<>>]
TwoKinds  == [bindings |-> <<Bind(g, "Role"), Bind(g, "ClusterRole")>>,
              memberships |-> <<Has(g, {u1})>>]
NothingLeft == [bindings |-> <<>>, memberships |-> <<>>]

RichSpecs   == {Both, Fewer}
KindSpecs   == {OnlyG, ClusterG}
ShrinkSpecs == {OnlyG, ClusterG, NothingLeft}
TwoKindSpecs == {TwoKinds, OnlyG}

Known == {Success({u2}), Failure("notFound")}
=============================================================================
