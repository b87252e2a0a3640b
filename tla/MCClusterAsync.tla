--------------------------- MODULE MCClusterAsync ---------------------------
(* ClusterAsync for TLC: nodes, slots, and the connections they may have. *)
EXTENDS ClusterAsync, TLC

CONSTANTS n1, n2

OneOwner == [s \in Slots |-> n1]
=============================================================================
