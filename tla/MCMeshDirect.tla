---------------------------- MODULE MCMeshDirect ----------------------------
(* Two nodes with the same configuration, so that their switches have the  *)
(* same hash, and a third that controls both.                              *)
EXTENDS MeshDirect

CONSTANTS node_a, node_b, node_c

Local(t, h) == [type |-> t, hash |-> h, addr |-> NoDevice, target |-> 0, pub |-> <<>>]
Remote(h, n, t) == [type |-> "switch", hash |-> h, addr |-> n, target |-> t, pub |-> <<>>]

MCEntity == (node_a :> <<Remote(1, node_b, 3), Remote(2, node_c, 3)>>) @@
            (node_b :> <<Local("switch", 3)>>) @@ (node_c :> <<Local("switch", 3)>>)
MCLevel == (node_a :> <<Unknown, Unknown>>) @@ (node_b :> <<1>>) @@ (node_c :> <<0>>)
=============================================================================
