------------------------------ MODULE MCMeshOta ------------------------------
(* One node among two senders of arbitrary datagrams, for model checking.  *)
EXTENDS MeshOta, TLC

MCMagic == <<2, 1>>
MCImage == (<<1>> :> <<1, 2>>) @@ (<<2>> :> <<0>>)
MCDatagram == {<<0>>, <<1>>, <<2>>, <<2, 1>>}
MCReply == [n \in Nonce |-> <<1, 1>>]
==============================================================================
