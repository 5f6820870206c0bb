---------------------------- MODULE MCEspHomeOta ----------------------------
(* The TCP server and two connections: one whose peer may send anything,   *)
(* close or reset at will, and one whose peer says nothing.  They come in  *)
(* either order.                                                           *)
EXTENDS EspHomeOta, TLC

CONSTANTS a, b  \* the connections: a sends

MCMagic == <<3, 6>>
MCImage == <<3>> :> <<3, 0, 6>>
MCSegment == [c \in Conn |-> IF c = a THEN {<<0>>, <<3>>, <<6>>} ELSE {}]
MCReply == [n \in Nonce |-> <<3, 0>>]
==============================================================================
