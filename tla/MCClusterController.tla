------------------------- MODULE MCClusterController -------------------------
(* Instances of ClusterController for TLC. *)
EXTENDS ClusterController

CONSTANTS u1, u2

a == <<"a">>
x == <<"x">>
g == <<"g">>
r == <<"r">>

Bind(kind) == [group |-> g, kind |-> kind, role |-> r]

NamespacedConfigs == {a}
ClusterConfigs == {x}
Groups1 == {g}
Roles1 == {r}

\* The namespaced config may bind a ClusterRole; the cluster config may not
\* bind a Role, and loses its entry when it is edited to.
NamespacedSpecs == {[bindings |-> <<Bind("Role")>>,
                     memberships |-> <<[group |-> g, subjects |-> {u1}]>>]}
SomeClusterSpecs == {[bindings |-> <<Bind("ClusterRole")>>, memberships |-> <<>>],
                     [bindings |-> <<Bind("Role")>>, memberships |-> <<>>]}

Known == {Success({u2}), Failure("notFound")}
=============================================================================
