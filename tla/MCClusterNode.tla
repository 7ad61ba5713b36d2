--------------------------- MODULE MCClusterNode ---------------------------
(* Instances of ClusterNode for TLC: two nodes, each the other's peer.  n1 *)
(* bootstraps alone; n2 has n1 as its second contact and nobody answers    *)
(* under the URL of the first.                                             *)
EXTENDS ClusterNode, TLC

CONSTANTS n1, n2, k1, r1

TwoPeers == n1 :> <<n2>> @@ n2 :> <<n1>>

TwoContacts == n1 :> <<n2>> @@ n2 :> <<NoNode, n1>>

\* k1 falls on the peer of the node that assigns it.
OneHash == k1 :> 1
=============================================================================
