--------------------------- MODULE OtaUpdate_proofs ---------------------------
(***************************************************************************)
(* What every server that implements OtaUpdate promises, for every value   *)
(* of the constants.                                                       *)
(***************************************************************************)
EXTENDS OtaUpdate, SequenceTheorems, TLAPS

UInv == Promise /\ size \in Nat /\ phase \in Phase

LEMMA UInvInductive == UInv /\ [UNext]_uvars => UInv'
<1> SUFFICES ASSUME UInv, [UNext]_uvars PROVE UInv'
  OBVIOUS
<1> USE DEF UInv, Promise, Phase
<1>1. Len(<<>>) = 0
  BY EmptySeq
<1>2. CASE Greet
  BY <1>2 DEF Greet
<1>3. CASE Grant
  BY <1>3 DEF Grant
<1>4. CASE Begin
  BY <1>1, <1>4 DEF Begin
<1>5. CASE Write
  BY <1>5 DEF Write
<1>6. CASE Commit
  BY <1>6 DEF Commit
<1>7. CASE Close
  BY <1>1, <1>7 DEF Close
<1>8. CASE UNCHANGED uvars
  BY <1>8 DEF uvars
<1> QED
  BY <1>2, <1>3, <1>4, <1>5, <1>6, <1>7, <1>8 DEF UNext

(* What boots is verified, what is granted was proved, what is written     *)
(* fits.                                                                   *)
THEOREM UpdateKeepsPromise == USpec => []Promise
<1>1. UInit => UInv
  BY EmptySeq DEF UInit, UInv, Promise, Phase
<1>2. UInv => Promise
  BY DEF UInv
<1> QED
  BY <1>1, <1>2, UInvInductive, PTL DEF USpec
==============================================================================
