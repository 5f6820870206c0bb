---------------------------- MODULE MCLwipSockets ---------------------------
(* As many connections as fit into the accept queue, and one more.  They   *)
(* come in any order; one peer sends two bytes, one a single byte, and to  *)
(* the third the program writes.                                           *)
EXTENDS LwipSockets, TLC

CONSTANTS c1, c2, c3

MCRx == (c1 :> 2) @@ (c2 :> 1) @@ (c3 :> 0)
MCTx == (c1 :> 0) @@ (c2 :> 0) @@ (c3 :> 2)
==============================================================================
