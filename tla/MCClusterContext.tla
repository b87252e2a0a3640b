-------------------------- MODULE MCClusterContext --------------------------
(* ClusterContext for TLC: two nodes and two slots. *)
EXTENDS ClusterContext, TLC

CONSTANTS n1, n2

TwoOwners == (0 :> n1) @@ (1 :> n2)

NodesAndOrphan == Nodes \cup Slots \cup {Orphan}

OneAndBoth == {<<1>>, <<0, 1>>}
=============================================================================
