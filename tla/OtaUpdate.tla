------------------------------ MODULE OtaUpdate ------------------------------
(***************************************************************************)
(* What an over-the-air update promises to the node that runs it, with no  *)
(* datagrams, buffers, acknowledgements or timers: a session is opened,    *)
(* the peer is granted the right to update, an inactive flash slot is      *)
(* opened for an image of a declared size and filled, and only a slot that *)
(* holds the whole of an image whose digest was announced is ever made the *)
(* one the boot loader starts.  Every other way out of a session closes it *)
(* and leaves the boot slot as it was.                                     *)
(*                                                                         *)
(* MeshOta implements this specification; OTA servers that speak the same  *)
(* protocol over another transport promise the same.                       *)
(***************************************************************************)
EXTENDS Integers, Sequences

CONSTANTS
  Value,    \* the values a byte can have
  Image,    \* digest -> the image it is the digest of (an ideal hash)
  Secured   \* a password is configured

VARIABLES
  phase,    \* how far the session is
  proved,   \* the peer has shown, in this session, that it has the password
  size,     \* declared size of the image being written
  slot,     \* what has been written to the inactive slot
  boot      \* the image the boot loader starts; <<>> is the factory's

uvars == <<phase, proved, size, slot, boot>>

Phase == {"idle", "greeting", "granted", "writing", "ended"}

UInit ==
  /\ phase = "idle"
  /\ proved = FALSE
  /\ size = 0
  /\ slot = <<>>
  /\ boot = <<>>

Greet ==
  /\ phase = "idle"
  /\ phase' = "greeting"
  /\ UNCHANGED <<proved, size, slot, boot>>

(* Access is granted to a peer that proves it has the password, if there   *)
(* is one.                                                                 *)
Grant ==
  /\ phase = "greeting"
  /\ phase' = "granted"
  /\ proved' \in BOOLEAN
  /\ Secured => proved'
  /\ UNCHANGED <<size, slot, boot>>

Begin ==
  /\ phase = "granted"
  /\ phase' = "writing"
  /\ size' \in Nat
  /\ slot' = <<>>
  /\ UNCHANGED <<proved, boot>>

(* The slot only grows, at its end, and never beyond the declared size.    *)
Write ==
  /\ phase = "writing"
  /\ slot' \in Seq(Value)
  /\ Len(slot) < Len(slot') /\ Len(slot') <= size
  /\ SubSeq(slot', 1, Len(slot)) = slot
  /\ UNCHANGED <<phase, proved, size, boot>>

Commit ==
  /\ phase = "writing"
  /\ Len(slot) = size
  /\ \E digest \in DOMAIN Image : Image[digest] = slot
  /\ phase' = "ended"
  /\ boot' = slot
  /\ UNCHANGED <<proved, size, slot>>

(* Timeout, refusal, failure, reset, and the restart that ends an update.  *)
Close ==
  /\ phase' = "idle"
  /\ proved' = FALSE
  /\ size' = 0
  /\ slot' = <<>>
  /\ UNCHANGED boot

UNext == Greet \/ Grant \/ Begin \/ Write \/ Commit \/ Close

USpec == UInit /\ [][UNext]_uvars

------------------------------------------------------------------------------
(* The promise, as a property of the abstract states alone: what boots is  *)
(* the factory's image or a complete image whose digest was announced,     *)
(* nobody who had to prove the password gets past the greeting without,    *)
(* and the slot is never filled beyond the declared size.                  *)
Promise ==
  /\ boot # <<>> => \E digest \in DOMAIN Image : Image[digest] = boot
  /\ phase \in {"granted", "writing", "ended"} => (Secured => proved)
  /\ Len(slot) <= size
==============================================================================
