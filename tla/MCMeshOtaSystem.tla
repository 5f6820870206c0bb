--------------------------- MODULE MCMeshOtaSystem ---------------------------
(* Clients, images and the wire of MeshOtaSystem, small enough to check.   *)
EXTENDS MeshOtaSystem

CONSTANTS a, b

MCMagic == <<5, 4>>
(* A full block of two bytes and a shorter one; a single full block.       *)
MCImage == (<<3>> :> <<1, 2, 3>>) @@ (<<4>> :> <<2, 0>>)
(* For the reliable mesh: a full block and a shorter one.                  *)
MCLongImage == (<<3>> :> <<1, 2, 3, 0, 4, 0, 1>>)
MCOffer == (a :> <<3>>) @@ (b :> <<4>>)
(* Only who knows the password ever sends a 6.                             *)
MCReply == [n \in Nonce |-> <<1, 6>>]
MCWrongReply == <<1, 4>>
(* tx is only ever read in the step that sets it: states that differ in it *)
(* alone have the same future.                                             *)
MCView == <<dev, pc, ota_state, peerVars, rx, shakeVars, authVars, updateVars,
            data_buf, timeVars, boot, net, down, clientVars, repeats>>
MCDatagram == UNION {[1 .. n -> Value] : n \in 1 .. 3}
==============================================================================
