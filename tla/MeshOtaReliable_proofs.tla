------------------------ MODULE MeshOtaReliable_proofs ------------------------
(***************************************************************************)
(* One client updates the node, over a mesh that delivers its datagrams in *)
(* order and in time: the receive buffer never overflows, the node does    *)
(* not crash and boots what a client that knows the password offered; for  *)
(* any image, block size, cut of the data into datagrams and number of     *)
(* retries.                                                                *)
(*                                                                         *)
(* The argument is that client and server follow the same script.  The     *)
(* server is at line s of it and has taken t bytes of that line            *)
(* (ServerAt), and the client is saying that line, has answers to hear up  *)
(* to it, or is through (Talking); what is neither taken nor lost is on    *)
(* the way (Way).  Every step of the server takes bytes of the line,       *)
(* answers it, refuses it or restarts the node (Moves), and each of these, *)
(* like each step of the client and of the mesh, keeps Joint.              *)
(***************************************************************************)
EXTENDS MeshOtaSystem_proofs, FiniteSetTheorems

------------------------------------------------------------------------------
(* What is on the way: the bytes of a text that have been said and not yet *)
(* taken, part of them in the receive buffer and part in datagrams.        *)

(* Every set of natural numbers that is not empty has a least element.     *)
LEMMA Least ==
  ASSUME NEW T \in SUBSET Nat, T # {}
  PROVE  \E m \in T : \A n \in T : m <= n
<1> DEFINE R == OpToRel(<, Nat)
<1>1. IsWellFoundedOn(R, Nat)
  BY NatLessThanWellFounded
<1>2. \A x, y \in Nat : <<y, x>> \in R <=> y < x
  BY DEF OpToRel
<1> HIDE DEF R
<1>3. PICK m \in T : \A n \in T : ~(<<n, m>> \in R)
  BY <1>1, WFMin
<1>4. m \in Nat /\ \A n \in T : n \in Nat /\ ~(n < m)
  BY <1>2, <1>3
<1> QED
  BY <1>3, <1>4

(* What was said of a text and not yet taken, t bytes of which are taken:  *)
(* r waits to be read and the datagrams of w are on their way, in order,   *)
(* and together they are the text from byte t + 1 to byte end.  sum[i] is  *)
(* how much of the text datagram i takes it to.                            *)
Totals(r, w, t, text, end, sum) ==
  /\ sum \in [0 .. Len(w) -> Nat]
  /\ sum[0] = t + Len(r) /\ sum[Len(w)] = end
  /\ \A i, j \in 0 .. Len(w) : i <= j => sum[i] <= sum[j]
  /\ \A i \in 1 .. Len(w) :
       /\ sum[i] = sum[i - 1] + Len(w[i].data)
       /\ \A k \in 1 .. Len(w[i].data) : w[i].data[k] = text[sum[i - 1] + k]
Way(r, w, t, text, end) ==
  /\ \A k \in 1 .. Len(r) : r[k].v = text[t + k]
  /\ \E sum : Totals(r, w, t, text, end, sum)

(* Every datagram brings something.                                        *)
LEMMA FlyingLength ==
  ASSUME NEW w \in Seq(Flying), NEW i \in 1 .. Len(w)
  PROVE  w[i].from \in Client /\ w[i].data \in Seq(Value) /\ Len(w[i].data) \in Nat \ {0}
<1>1. w[i] \in Flying
  BY ElementOfSeq
<1>2. w[i].data \in Seq(Value) \ {<<>>}
  BY <1>1, WireAssumption DEF Flying
<1> QED
  BY <1>1, <1>2, EmptySeq DEF Flying

(* Nobody takes more than was said, and what is taken to its end has all   *)
(* arrived.                                                                *)
LEMMA WayTypes ==
  ASSUME NEW r \in Seq(Byte), NEW w \in Seq(Flying), NEW t \in Nat, NEW text, NEW end,
         Way(r, w, t, text, end)
  PROVE  /\ end \in Nat /\ t + Len(r) <= end
         /\ w # <<>> => t + Len(r) + Len(w[1].data) <= end
         /\ t = end => r = <<>> /\ w = <<>>
<1>1. PICK sum : Totals(r, w, t, text, end, sum)
  BY DEF Way
<1>2. Len(w) \in Nat /\ Len(r) \in Nat /\ (r # <<>> => Len(r) # 0) /\ (w # <<>> => Len(w) # 0)
  BY LenProperties, EmptySeq
<1>3. /\ sum[0] = t + Len(r) /\ sum[Len(w)] = end /\ sum[0] <= sum[Len(w)]
      /\ sum[Len(w)] \in Nat
  BY <1>1, <1>2 DEF Totals
<1>4. ASSUME w # <<>> PROVE t + Len(r) + Len(w[1].data) <= end /\ Len(w[1].data) \in Nat \ {0}
  <2>1. 1 \in 1 .. Len(w) /\ 1 <= Len(w)
    BY <1>2, <1>4
  <2>2. Len(w[1].data) \in Nat \ {0}
    BY <2>1, FlyingLength
  <2>3. 1 - 1 = 0 /\ 1 \in 0 .. Len(w) /\ Len(w) \in 0 .. Len(w)
    BY <1>2, <2>1
  <2>4. sum[1] = sum[0] + Len(w[1].data) /\ sum[1] <= sum[Len(w)]
    BY <1>1, <2>1, <2>3 DEF Totals
  <2> QED
    BY <1>3, <2>2, <2>4
<1>5. end \in Nat /\ t + Len(r) <= end
  BY <1>3
<1>6. ASSUME t = end PROVE r = <<>> /\ w = <<>>
  <2>1. Len(r) = 0
    BY <1>2, <1>5, <1>6
  <2>2. r = <<>>
    BY <1>2, <2>1
  <2>3. w = <<>>
    <3> SUFFICES ASSUME w # <<>> PROVE FALSE
      OBVIOUS
    <3> DEFINE d == Len(w[1].data)
    <3>1. t + Len(r) + d <= end /\ d \in Nat \ {0}
      BY <1>4
    <3> HIDE DEF d
    <3> QED
      BY <1>2, <1>6, <3>1
  <2> QED
    BY <2>2, <2>3
<1> QED
  BY <1>4, <1>5, <1>6

(* Nothing has been said.                                                  *)
LEMMA WayNone ==
  ASSUME NEW text
  PROVE  Way(<<>>, <<>>, 0, text, 0)
<1> DEFINE sum == [i \in {0} |-> 0]
<1>1. Len(<<>>) = 0 /\ 0 .. 0 = {0} /\ 1 .. 0 = {}
  OBVIOUS
<1>2. Totals(<<>>, <<>>, 0, text, 0, sum)
  BY <1>1 DEF Totals
<1> QED
  BY <1>1, <1>2 DEF Way

(* The server takes from the receive buffer.                               *)
LEMMA WayTake ==
  ASSUME NEW r \in Seq(Byte), NEW w \in Seq(Flying), NEW t \in Nat, NEW text, NEW end,
         Way(r, w, t, text, end), NEW m \in 0 .. Len(r)
  PROVE  Way(SubSeq(r, m + 1, Len(r)), w, t + m, text, end)
<1> DEFINE q == SubSeq(r, m + 1, Len(r))
<1>1. Len(r) \in Nat /\ m \in Nat
  BY LenProperties
<1>2. \A i \in m + 1 .. Len(r) : r[i] \in Byte
  BY <1>1, ElementOfSeq
<1>3. Len(q) = Len(r) - m /\ \A i \in 1 .. Len(r) - m : q[i] = r[m + i]
  BY <1>1, <1>2, SubSeqProperties
<1> HIDE DEF q
<1>4. t + Len(r) = (t + m) + Len(q)
  BY <1>1, <1>3
<1>5. \A k \in 1 .. Len(q) : q[k].v = text[(t + m) + k]
  <2> TAKE k \in 1 .. Len(q)
  <2>1. m + k \in 1 .. Len(r) /\ q[k] = r[m + k]
    BY <1>1, <1>3
  <2>2. t + (m + k) = (t + m) + k
    BY <1>1, <1>3
  <2>3. r[m + k].v = text[t + (m + k)]
    BY <2>1 DEF Way
  <2> QED
    BY <2>1, <2>2, <2>3
<1>6. PICK sum : Totals(r, w, t, text, end, sum)
  BY DEF Way
<1>7. Totals(q, w, t + m, text, end, sum)
  BY <1>4, <1>6 DEF Totals
<1> QED
  BY <1>5, <1>7 DEF Way, q

(* The client says more of the text.                                       *)
LEMMA WaySay ==
  ASSUME NEW r \in Seq(Byte), NEW w \in Seq(Flying), NEW t \in Nat, NEW text \in Seq(Value),
         NEW end \in Nat, Way(r, w, t, text, end),
         NEW c, NEW n \in Nat \ {0}, end + n <= Len(text),
         [from |-> c, data |-> SubSeq(text, end + 1, end + n)] \in Flying
  PROVE  Way(r, Append(w, [from |-> c, data |-> SubSeq(text, end + 1, end + n)]), t,
             text, end + n)
<1> DEFINE piece == SubSeq(text, end + 1, end + n)
           d == [from |-> c, data |-> piece]
           v == Append(w, d)
<1>1. Len(w) \in Nat /\ Len(text) \in Nat
  BY LenProperties
<1>2. Len(piece) = n /\ \A k \in 1 .. n : piece[k] = text[end + k]
  <2>1. \A i \in end + 1 .. end + n : text[i] \in Value
    BY <1>1, ElementOfSeq
  <2>2. end + 1 \in Int /\ end + n \in Int /\ end + 1 <= end + n
        /\ (end + n) - (end + 1) + 1 = n
    OBVIOUS
  <2>3. \A k \in 1 .. n : end + 1 + k - 1 = end + k
    OBVIOUS
  <2> QED
    BY <2>1, <2>2, <2>3, SubSeqProperties
<1> HIDE DEF piece
<1>3. d.data = piece /\ d \in Flying
  BY DEF piece
<1> HIDE DEF d
<1>4. Len(v) = Len(w) + 1 /\ v[Len(w) + 1] = d /\ \A i \in 1 .. Len(w) : v[i] = w[i]
  BY <1>3, AppendProperties
<1> HIDE DEF v
<1>5. PICK sum : Totals(r, w, t, text, end, sum)
  BY DEF Way
<1> DEFINE tot == [i \in 0 .. Len(v) |-> IF i = Len(w) + 1 THEN end + n ELSE sum[i]]
<1>6. /\ tot \in [0 .. Len(v) -> Nat]
      /\ tot[Len(w) + 1] = end + n
      /\ \A i \in 0 .. Len(w) : tot[i] = sum[i] /\ sum[i] \in Nat /\ sum[i] <= end
  <2>1. \A i \in 0 .. Len(w) : sum[i] \in Nat /\ sum[i] <= end
    BY <1>1, <1>5 DEF Totals
  <2>2. \A i \in 0 .. Len(v) : i \in 0 .. Len(w) \/ i = Len(w) + 1
    BY <1>1, <1>4
  <2>3. Len(w) + 1 \in 0 .. Len(v) /\ \A i \in 0 .. Len(w) : i \in 0 .. Len(v) /\ i # Len(w) + 1
    BY <1>1, <1>4
  <2> QED
    BY <2>1, <2>2, <2>3
<1> HIDE DEF tot
<1>7. tot[0] = t + Len(r) /\ tot[Len(v)] = end + n
  BY <1>1, <1>4, <1>5, <1>6 DEF Totals
<1>8. \A i, j \in 0 .. Len(v) : i <= j => tot[i] <= tot[j]
  <2> TAKE i, j \in 0 .. Len(v)
  <2> HAVE i <= j
  <2>1. CASE j = Len(w) + 1
    <3>1. i \in 0 .. Len(w) \/ i = Len(w) + 1
      BY <1>1, <1>4
    <3>2. tot[j] = end + n /\ end + n \in Nat /\ end <= end + n
      BY <1>6, <2>1
    <3>3. CASE i \in 0 .. Len(w)
      <4>1. tot[i] \in Nat /\ tot[i] <= end
        BY <1>6, <3>3
      <4> QED
        BY <3>2, <4>1
    <3>4. CASE i = Len(w) + 1
      <4>1. tot[i] = end + n
        BY <1>6, <3>4
      <4> QED
        BY <3>2, <4>1
    <3> QED
      BY <3>1, <3>3, <3>4
  <2>2. CASE j # Len(w) + 1
    <3>1. i \in 0 .. Len(w) /\ j \in 0 .. Len(w)
      BY <1>1, <1>4, <2>2
    <3>2. sum[i] <= sum[j]
      BY <1>5, <3>1 DEF Totals
    <3> QED
      BY <1>6, <3>1, <3>2
  <2> QED
    BY <2>1, <2>2
<1>9. \A i \in 1 .. Len(v) :
        /\ tot[i] = tot[i - 1] + Len(v[i].data)
        /\ \A k \in 1 .. Len(v[i].data) : v[i].data[k] = text[tot[i - 1] + k]
  <2> TAKE i \in 1 .. Len(v)
  <2>1. CASE i = Len(w) + 1
    <3>1. i - 1 = Len(w) /\ i - 1 \in 0 .. Len(w)
      BY <1>1, <2>1
    <3>2. tot[i - 1] = end
      BY <1>5, <1>6, <3>1 DEF Totals
    <3> QED
      BY <1>2, <1>3, <1>4, <1>6, <2>1, <3>2
  <2>2. CASE i # Len(w) + 1
    <3>1. i \in 1 .. Len(w) /\ i \in 0 .. Len(w) /\ i - 1 \in 0 .. Len(w)
      BY <1>1, <1>4, <2>2
    <3>2. v[i] = w[i] /\ tot[i] = sum[i] /\ tot[i - 1] = sum[i - 1]
      BY <1>4, <1>6, <3>1
    <3> QED
      BY <1>5, <3>1, <3>2 DEF Totals
  <2> QED
    BY <2>1, <2>2
<1>10. Totals(r, v, t, text, end + n, tot)
  BY <1>6, <1>7, <1>8, <1>9 DEF Totals
<1> QED
  BY <1>10 DEF Way, v, d, piece

(* The mesh delivers a datagram.                                           *)
LEMMA WayDeliver ==
  ASSUME NEW r \in Seq(Byte), NEW w \in Seq(Flying), NEW t \in Nat, NEW text, NEW end,
         Way(r, w, t, text, end), w # <<>>
  PROVE  Way(r \o Bytes(w[1].from, w[1].data), Tail(w), t, text, end)
<1> DEFINE b == Bytes(w[1].from, w[1].data)
           q == r \o b
           v == Tail(w)
<1>1. Len(w) \in Nat \ {0} /\ Len(r) \in Nat
  BY EmptySeq, LenProperties
<1>2. 1 \in 1 .. Len(w)
  BY <1>1
<1>3. w[1].from \in Node /\ w[1].data \in Seq(Value) /\ Len(w[1].data) \in Nat
  BY <1>2, FlyingLength DEF Client
<1>4. b \in Seq(Byte) /\ Len(b) = Len(w[1].data)
      /\ \A k \in 1 .. Len(w[1].data) : b[k].v = w[1].data[k]
  BY <1>3, BytesType DEF Bytes
<1> HIDE DEF b
<1>5. /\ Len(q) = Len(r) + Len(b)
      /\ \A k \in 1 .. Len(r) + Len(b) : q[k] = IF k <= Len(r) THEN r[k] ELSE b[k - Len(r)]
  BY <1>4, ConcatProperties
<1>6. Len(v) = Len(w) - 1 /\ \A i \in 1 .. Len(v) : v[i] = w[i + 1]
  BY HeadTailProperties
<1> HIDE DEF q, v
<1>7. PICK sum : Totals(r, w, t, text, end, sum)
  BY DEF Way
<1>8. /\ sum \in [0 .. Len(w) -> Nat]
      /\ sum[0] = t + Len(r) /\ sum[Len(w)] = end
      /\ sum[1] = sum[0] + Len(w[1].data)
      /\ \A k \in 1 .. Len(w[1].data) : w[1].data[k] = text[sum[0] + k]
  <2>1. 1 - 1 = 0
    OBVIOUS
  <2>2. /\ sum[1] = sum[1 - 1] + Len(w[1].data)
        /\ \A k \in 1 .. Len(w[1].data) : w[1].data[k] = text[sum[1 - 1] + k]
    BY <1>2, <1>7 DEF Totals
  <2> QED
    BY <1>7, <2>1, <2>2 DEF Totals
<1>9. \A k \in 1 .. Len(q) : q[k].v = text[t + k]
  <2> TAKE k \in 1 .. Len(q)
  <2>1. CASE k <= Len(r)
    <3>1. k \in 1 .. Len(r) /\ q[k] = r[k]
      BY <1>1, <1>3, <1>4, <1>5, <2>1
    <3> QED
      BY <3>1 DEF Way
  <2>2. CASE ~(k <= Len(r))
    <3>1. k - Len(r) \in 1 .. Len(w[1].data) /\ q[k] = b[k - Len(r)]
      BY <1>1, <1>3, <1>4, <1>5, <2>2
    <3>2. sum[0] + (k - Len(r)) = t + k
      BY <1>1, <1>3, <1>4, <1>5, <1>8
    <3> QED
      BY <1>4, <1>8, <3>1, <3>2
  <2> QED
    BY <2>1, <2>2
<1> DEFINE tot == [i \in 0 .. Len(v) |-> sum[i + 1]]
<1>10. \A i \in 0 .. Len(v) : i + 1 \in 0 .. Len(w) /\ i + 1 \in 1 .. Len(w)
  BY <1>1, <1>6
<1>11. tot \in [0 .. Len(v) -> Nat] /\ \A i \in 0 .. Len(v) : tot[i] = sum[i + 1]
  BY <1>8, <1>10
<1> HIDE DEF tot
<1>12. tot[0] = t + Len(q) /\ tot[Len(v)] = end
  <2>1. 0 \in 0 .. Len(v) /\ Len(v) \in 0 .. Len(v) /\ Len(v) + 1 = Len(w) /\ 0 + 1 = 1
    BY <1>1, <1>6
  <2>2. tot[0] = sum[1] /\ tot[Len(v)] = sum[Len(w)]
    BY <1>11, <2>1
  <2>3. Len(b) \in Nat /\ Len(w[1].data) = Len(b)
    BY <1>3, <1>4
  <2>4. t + Len(r) + Len(b) = t + (Len(r) + Len(b))
    BY <1>1, <2>3
  <2> QED
    BY <1>5, <1>8, <2>2, <2>3, <2>4
<1>13. \A i, j \in 0 .. Len(v) : i <= j => tot[i] <= tot[j]
  <2> TAKE i, j \in 0 .. Len(v)
  <2> HAVE i <= j
  <2>1. i + 1 <= j + 1 /\ i + 1 \in 0 .. Len(w) /\ j + 1 \in 0 .. Len(w)
    BY <1>1, <1>6
  <2>2. sum[i + 1] <= sum[j + 1]
    BY <1>7, <2>1 DEF Totals
  <2> QED
    BY <1>11, <2>2
<1>14. \A i \in 1 .. Len(v) :
         /\ tot[i] = tot[i - 1] + Len(v[i].data)
         /\ \A k \in 1 .. Len(v[i].data) : v[i].data[k] = text[tot[i - 1] + k]
  <2> TAKE i \in 1 .. Len(v)
  <2>1. i \in 0 .. Len(v) /\ i - 1 \in 0 .. Len(v) /\ (i - 1) + 1 = i /\ (i + 1) - 1 = i
        /\ i + 1 \in 1 .. Len(w)
    BY <1>1, <1>6
  <2>2. tot[i] = sum[i + 1] /\ tot[i - 1] = sum[i] /\ v[i] = w[i + 1]
    BY <1>6, <1>11, <2>1
  <2>3. /\ sum[i + 1] = sum[(i + 1) - 1] + Len(w[i + 1].data)
        /\ \A k \in 1 .. Len(w[i + 1].data) : w[i + 1].data[k] = text[sum[(i + 1) - 1] + k]
    BY <1>7, <2>1 DEF Totals
  <2> QED
    BY <2>1, <2>2, <2>3
<1>15. Totals(q, v, t, text, end, tot)
  BY <1>11, <1>12, <1>13, <1>14 DEF Totals
<1> QED
  BY <1>9, <1>15 DEF Way, q, v, b

(* The bytes in flight of the only client, counted.                        *)
LEMMA WayInFlight ==
  ASSUME NEW r \in Seq(Byte), NEW w \in Seq(Flying), NEW t \in Nat, NEW text, NEW end,
         Way(r, w, t, text, end), NEW c, \A i \in 1 .. Len(w) : w[i].from = c
  PROVE  /\ t + Len(r) + Cardinality(BytesOf(w, c)) = end
         /\ Cardinality(BytesOf(w, c)) \in Nat
<1> DEFINE B(n) == UNION {{i} \X (1 .. Len(w[i].data)) : i \in 1 .. n}
<1>1. Len(w) \in Nat /\ Len(r) \in Nat /\ DOMAIN w = 1 .. Len(w)
  BY LenProperties
<1>2. BytesOf(w, c) = B(Len(w))
  <2>1. {i \in DOMAIN w : w[i].from = c} = 1 .. Len(w)
    BY <1>1
  <2>2. \A i \in 1 .. Len(w) : DOMAIN w[i].data = 1 .. Len(w[i].data)
    BY FlyingLength, LenProperties
  <2>3. \A i \in 1 .. Len(w) : {i} \X DOMAIN w[i].data = {i} \X (1 .. Len(w[i].data))
    BY <2>2
  <2> QED
    BY <2>1, <2>3 DEF BytesOf
<1>3. PICK sum : Totals(r, w, t, text, end, sum)
  BY DEF Way
<1>4. sum \in [0 .. Len(w) -> Nat] /\ sum[0] = t + Len(r) /\ sum[Len(w)] = end
      /\ \A i \in 1 .. Len(w) : sum[i] = sum[i - 1] + Len(w[i].data)
  BY <1>3 DEF Totals
<1> DEFINE P(n) == IsFiniteSet(B(n)) /\ sum[0] + Cardinality(B(n)) = sum[n]
           T == {n \in 0 .. Len(w) : ~P(n)}
<1>5. T = {}
  <2> SUFFICES ASSUME T # {} PROVE FALSE
    OBVIOUS
  <2>1. T \in SUBSET Nat
    BY <1>1
  <2>2. PICK n \in T : \A k \in T : n <= k
    <3> HIDE DEF T
    <3> QED
      BY <2>1, Least
  <2>3. n # 0
    <3>1. B(0) = {}
      OBVIOUS
    <3>2. 0 \in 0 .. Len(w)
      BY <1>1
    <3>3. sum[0] \in Nat
      BY <1>4, <3>2
    <3>4. IsFiniteSet(B(0)) /\ Cardinality(B(0)) = 0
      BY <3>1, FS_EmptySet
    <3>5. P(0)
      BY <3>3, <3>4
    <3> QED
      BY <2>2, <3>5
  <2>4. n \in 1 .. Len(w) /\ n - 1 \in 0 .. Len(w)
    BY <1>1, <2>2, <2>3
  <2>5. P(n - 1)
    <3>1. ~(n <= n - 1)
      BY <1>1, <2>4
    <3> QED
      BY <2>2, <2>4, <3>1
  <2> DEFINE N == {n} \X (1 .. Len(w[n].data))
  <2>6. B(n) = B(n - 1) \cup N /\ B(n - 1) \cap N = {}
    <3>1. 1 .. n = (1 .. n - 1) \cup {n} /\ n \notin 1 .. n - 1
      BY <2>4
    <3>2. ASSUME NEW e PROVE e \in B(n) <=> e \in B(n - 1) \cup N
      BY <3>1
    <3>3. ASSUME NEW e \in N, e \in B(n - 1) PROVE FALSE
      <4>1. PICK i \in 1 .. n - 1 : e \in {i} \X (1 .. Len(w[i].data))
        BY <3>3
      <4>2. e[1] = i /\ e[1] = n
        BY <3>3, <4>1
      <4> QED
        BY <3>1, <4>1, <4>2
    <3> QED
      BY <3>2, <3>3
  <2>7. IsFiniteSet(N) /\ Cardinality(N) = Len(w[n].data) /\ Len(w[n].data) \in Nat
    <3>1. Len(w[n].data) \in Nat
      BY <2>4, FlyingLength
    <3>2. IsFiniteSet({n}) /\ Cardinality({n}) = 1
      BY FS_Singleton
    <3>3. IsFiniteSet(1 .. Len(w[n].data)) /\ Cardinality(1 .. Len(w[n].data)) = Len(w[n].data)
      <4> DEFINE m == Len(w[n].data)
      <4>1. m \in Int /\ 1 \in Int /\ (1 > m => m = 0) /\ (~(1 > m) => m - 1 + 1 = m)
        BY <3>1
      <4> HIDE DEF m
      <4>2. IsFiniteSet(1 .. m) /\ Cardinality(1 .. m) = IF 1 > m THEN 0 ELSE m - 1 + 1
        BY <4>1, FS_Interval
      <4> QED
        BY <4>1, <4>2 DEF m
    <3>4. IsFiniteSet(N) /\ Cardinality(N) = 1 * Len(w[n].data)
      BY <3>2, <3>3, FS_Product
    <3> QED
      BY <3>1, <3>4
  <2> HIDE DEF N
  <2>8. IsFiniteSet(B(n)) /\ Cardinality(B(n)) = Cardinality(B(n - 1)) + Cardinality(N)
    <3> DEFINE X == B(n - 1)
    <3>1. IsFiniteSet(X)
      BY <2>5
    <3>2. B(n) = X \cup N /\ X \cap N = {}
      BY <2>6
    <3> HIDE DEF X
    <3>3. IsFiniteSet(X \cup N)
          /\ Cardinality(X \cup N) = Cardinality(X) + Cardinality(N) - Cardinality(X \cap N)
      BY <2>7, <3>1, FS_Union
    <3>4. Cardinality(X) \in Nat /\ Cardinality(X \cap N) = 0
      BY <3>1, <3>2, FS_CardinalityType, FS_EmptySet
    <3>5. Cardinality(X \cup N) = Cardinality(X) + Cardinality(N)
      BY <2>7, <3>3, <3>4
    <3> QED
      BY <3>2, <3>3, <3>5 DEF X
  <2>9. P(n)
    <3> DEFINE k == Cardinality(B(n - 1))
    <3>1. k \in Nat
      BY <2>5, FS_CardinalityType
    <3>2. Cardinality(B(n)) = k + Len(w[n].data) /\ sum[n - 1] = sum[0] + k
          /\ sum[n] = sum[n - 1] + Len(w[n].data) /\ IsFiniteSet(B(n))
      BY <1>4, <2>4, <2>5, <2>7, <2>8
    <3> HIDE DEF k, B
    <3>3. sum[0] \in Nat
      BY <1>1, <1>4
    <3> QED
      BY <2>7, <3>1, <3>2, <3>3
  <2> QED
    BY <2>2, <2>9
<1>6. P(Len(w))
  <2>1. Len(w) \in 0 .. Len(w)
    BY <1>1
  <2> HIDE DEF P
  <2> QED
    BY <1>5, <2>1
<1>7. Cardinality(B(Len(w))) \in Nat
  BY <1>6, FS_CardinalityType
<1> HIDE DEF B
<1> QED
  BY <1>2, <1>4, <1>6, <1>7

------------------------------------------------------------------------------
(* The script of a client as a table: how many bytes its lines have and    *)
(* what they wait to hear.                                                 *)

(* Arithmetic of the blocks.                                               *)
LEMMA Division ==
  ASSUME NEW a \in Nat, NEW b \in Nat \ {0}
  PROVE  /\ a \div b \in Nat /\ a % b \in 0 .. b - 1
         /\ (a \div b) * b + (a % b) = a
         /\ (a \div b) * b <= a /\ a < ((a \div b) + 1) * b
OBVIOUS

(* The blocks follow one another.                                          *)
LEMMA Multiple ==
  ASSUME NEW j \in Nat, NEW k \in Nat, NEW b \in Nat
  PROVE  j * b \in Nat /\ (j + 1) * b = j * b + b /\ (j <= k => j * b <= k * b)
OBVIOUS

(* Where the lines of a script are: the proof of the password ends with    *)
(* line ProofEnd, size and digest follow, then the blocks.                 *)
ProofEnd == IF Password THEN 4 ELSE 3
BlockCount(c) == (Len(ImageOf(c)) + BlockSize - 1) \div BlockSize
LastLine(c) == ProofEnd + BlockCount(c) + 5
BlockLen(c, k) == Lesser(k * BlockSize, Len(ImageOf(c))) - (k - 1) * BlockSize
IsBlock(c, k) == k \in ProofEnd + 3 .. ProofEnd + 2 + BlockCount(c)

(* How many bytes a line says, and what it waits to hear, whatever the     *)
(* challenge is.                                                           *)
SayLen(c, k) ==
  CASE k = 1 -> Len(Magic)
    [] k = 2 -> 1
    [] k = 4 /\ Password -> AuthLen
    [] k = ProofEnd + 1 -> SizeLen
    [] k = ProofEnd + 2 -> Md5Len
    [] IsBlock(c, k) -> BlockLen(c, k - ProofEnd - 2)
    [] k = LastLine(c) -> 1
    [] OTHER -> 0
Hear(c, k) ==
  CASE k = 1 -> {"OK"}
    [] k = 2 -> {"HEADER_OK", "SUPPORTS_COMPRESSION"}
    [] k = 3 /\ Password -> {"REQUEST_SHA256_AUTH"}
    [] k = ProofEnd -> {"AUTH_OK"}
    [] k = ProofEnd + 1 -> {"UPDATE_PREPARE_OK"}
    [] k = ProofEnd + 2 -> {"BIN_MD5_OK"}
    [] IsBlock(c, k) -> {"CHUNK_OK"}
    [] k = ProofEnd + 3 + BlockCount(c) -> {"RECEIVE_OK"}
    [] k = ProofEnd + 4 + BlockCount(c) -> {"UPDATE_END_OK"}
    [] OTHER -> {}

(* The clients speak the protocol: every field they say has the length the *)
(* server reads, and the receive buffer holds the longest of them and a    *)
(* block (RX_RING_MAX and OTA_BLOCK_SIZE are 1024, the answer to the       *)
(* challenge has 128 bytes).                                               *)
Protocol ==
  /\ Version = 2
  /\ Radix # 0
  /\ \A c \in Client : Len(Offer[c]) = Md5Len
  /\ \A n \in Nonce : Len(AuthReply[n]) = AuthLen
  /\ Len(WrongReply) = AuthLen
  /\ \A n \in {Len(Magic), AuthLen, SizeLen, Md5Len, BlockSize} : n <= RxRingMax

(* The blocks cover the image: all are full but the last one, none is      *)
(* empty.                                                                  *)
LEMMA BlockFacts ==
  ASSUME NEW c \in Client
  PROVE  /\ Len(ImageOf(c)) \in Nat /\ BlockCount(c) \in Nat /\ LastLine(c) \in Nat
         /\ ProofEnd \in {3, 4}
         /\ Len(ImageOf(c)) <= BlockCount(c) * BlockSize
         /\ \A k \in 1 .. BlockCount(c) :
              /\ (k - 1) * BlockSize \in Nat /\ k * BlockSize \in Nat
              /\ k * BlockSize = (k - 1) * BlockSize + BlockSize
              /\ (k - 1) * BlockSize < Len(ImageOf(c))
              /\ BlockLen(c, k) \in 1 .. BlockSize
              /\ (k - 1) * BlockSize + BlockLen(c, k) = Lesser(k * BlockSize, Len(ImageOf(c)))
<1> DEFINE len == Len(ImageOf(c))
           a == len + BlockSize - 1
           q == BlockCount(c)
<1>1. len \in Nat /\ BlockSize \in Nat \ {0} /\ ProofEnd \in {3, 4}
  BY LenProperties, LimitAssumption, ClientAssumption DEF ImageOf, Client, ProofEnd
<1>2. a \in Nat /\ q = a \div BlockSize
  BY <1>1 DEF BlockCount
<1> HIDE DEF a
<1>3. q \in Nat /\ q * BlockSize <= a /\ a < (q + 1) * BlockSize
  BY <1>1, <1>2, Division
<1> HIDE DEF q
<1>4. q * BlockSize \in Nat /\ (q + 1) * BlockSize = q * BlockSize + BlockSize
  BY <1>1, <1>3, Multiple
<1> HIDE DEF len
<1>5. len <= q * BlockSize /\ q * BlockSize <= len + BlockSize - 1
  BY <1>1, <1>3, <1>4 DEF a
<1>6. ASSUME NEW k \in 1 .. q
      PROVE  /\ (k - 1) * BlockSize \in Nat /\ k * BlockSize \in Nat
             /\ k * BlockSize = (k - 1) * BlockSize + BlockSize
             /\ (k - 1) * BlockSize < len
             /\ Lesser(k * BlockSize, len) - (k - 1) * BlockSize \in 1 .. BlockSize
             /\ (k - 1) * BlockSize + (Lesser(k * BlockSize, len) - (k - 1) * BlockSize)
                  = Lesser(k * BlockSize, len)
  <2> DEFINE j == k - 1
             m == j * BlockSize
             n == k * BlockSize
  <2>1. j \in Nat /\ k = j + 1 /\ k \in Nat /\ k <= q
    BY <1>3
  <2> HIDE DEF j
  <2>2. m \in Nat /\ n = m + BlockSize /\ n <= q * BlockSize
    BY <1>1, <1>3, <2>1, Multiple
  <2> HIDE DEF m, n
  <2>3. m < len
    BY <1>1, <1>4, <1>5, <2>2
  <2>4. Lesser(n, len) \in Nat /\ Lesser(n, len) - m \in 1 .. BlockSize
        /\ m + (Lesser(n, len) - m) = Lesser(n, len)
    BY <1>1, <2>2, <2>3 DEF Lesser
  <2>5. n \in Nat
    BY <1>1, <2>2
  <2> QED
    BY <2>2, <2>3, <2>4, <2>5 DEF m, n, j
<1>7. LastLine(c) \in Nat
  BY <1>1, <1>3 DEF LastLine, q
<1> QED
  BY <1>1, <1>3, <1>5, <1>6, <1>7 DEF len, q, BlockLen

(* And they are what Blocks makes of the image.                            *)
LEMMA BlockShape ==
  ASSUME NEW c \in Client
  PROVE  /\ Len(Blocks(ImageOf(c))) = BlockCount(c)
         /\ \A k \in 1 .. BlockCount(c) :
              /\ Blocks(ImageOf(c))[k] \in Seq(Value)
              /\ Len(Blocks(ImageOf(c))[k]) = BlockLen(c, k)
<1> DEFINE image == ImageOf(c)
           q == BlockCount(c)
<1>1. image \in Seq(Value) /\ q \in Nat
  BY BlockFacts, ClientAssumption DEF ImageOf, Client
<1>2. Blocks(image) \in Seq(Seq(Value))
  BY <1>1, BlocksType
<1>3. Blocks(image) = [k \in 1 .. q |->
          SubSeq(image, (k - 1) * BlockSize + 1, Lesser(k * BlockSize, Len(image)))]
  BY DEF Blocks, BlockCount
<1> HIDE DEF q, image
<1>4. Len(Blocks(image)) = q
  <2>1. DOMAIN Blocks(image) = 1 .. q /\ DOMAIN Blocks(image) = 1 .. Len(Blocks(image))
    BY <1>2, <1>3, LenProperties
  <2> QED
    BY <1>1, <1>2, <2>1, LenProperties
<1>5. ASSUME NEW k \in 1 .. q
      PROVE  Blocks(image)[k] \in Seq(Value) /\ Len(Blocks(image)[k]) = BlockLen(c, k)
  <2> DEFINE first == (k - 1) * BlockSize + 1
             last == Lesser(k * BlockSize, Len(image))
  <2>1. Blocks(image)[k] = SubSeq(image, first, last)
    BY <1>3
  <2>2. first \in Nat /\ 1 <= first /\ last \in Nat /\ last <= Len(image)
        /\ first <= last /\ last - first + 1 = BlockLen(c, k)
    <3> DEFINE m == (k - 1) * BlockSize
    <3>1. /\ m \in Nat /\ k * BlockSize \in Nat /\ m < Len(image) /\ Len(image) \in Nat
          /\ BlockLen(c, k) \in 1 .. BlockSize /\ m + BlockLen(c, k) = last
      BY BlockFacts DEF q, image
    <3>2. first = m + 1
      OBVIOUS
    <3>3. BlockSize \in Nat
      BY LimitAssumption
    <3> HIDE DEF m, first
    <3>4. last \in Nat /\ last <= Len(image)
      BY <3>1 DEF Lesser
    <3> HIDE DEF last
    <3> QED
      BY <3>1, <3>2, <3>3, <3>4
  <2> HIDE DEF first, last
  <2>3. \A i \in first .. last : image[i] \in Value
    BY <1>1, <2>2, ElementOfSeq, LenProperties
  <2> QED
    BY <2>1, <2>2, <2>3, SubSeqProperties
<1> QED
  BY <1>4, <1>5 DEF q, image

(* What a concatenation holds.                                             *)
LEMMA Joined ==
  ASSUME NEW S, NEW x \in Seq(S), NEW y \in Seq(S)
  PROVE  /\ x \o y \in Seq(S) /\ Len(x \o y) = Len(x) + Len(y)
         /\ Len(x) \in Nat /\ Len(y) \in Nat
         /\ \A i \in 1 .. Len(x) : (x \o y)[i] = x[i]
         /\ \A i \in 1 .. Len(y) : (x \o y)[Len(x) + i] = y[i]
<1> DEFINE z == x \o y
<1>1. Len(x) \in Nat /\ Len(y) \in Nat
  BY LenProperties
<1>2. /\ z \in Seq(S) /\ Len(z) = Len(x) + Len(y)
      /\ \A i \in 1 .. Len(x) + Len(y) : z[i] = IF i <= Len(x) THEN x[i] ELSE y[i - Len(x)]
  BY ConcatProperties
<1> HIDE DEF z
<1>3. \A i \in 1 .. Len(x) : i \in 1 .. Len(x) + Len(y) /\ i <= Len(x)
  BY <1>1
<1>4. \A i \in 1 .. Len(y) :
        /\ Len(x) + i \in 1 .. Len(x) + Len(y) /\ ~(Len(x) + i <= Len(x))
        /\ Len(x) + i - Len(x) = i
  BY <1>1
<1>5. \A i \in 1 .. Len(x) : z[i] = x[i]
  BY <1>2, <1>3
<1>6. \A i \in 1 .. Len(y) : z[Len(x) + i] = y[i]
  BY <1>2, <1>4
<1> QED
  BY <1>1, <1>2, <1>5, <1>6 DEF z

(* The five kinds of place a line can have.                                *)
LEMMA Places ==
  ASSUME NEW c \in Client, NEW k \in 1 .. LastLine(c)
  PROVE  \/ k \in 1 .. ProofEnd + 2
         \/ \E i \in 1 .. BlockCount(c) : k = ProofEnd + 2 + i
         \/ k = ProofEnd + 3 + BlockCount(c)
         \/ k = ProofEnd + 4 + BlockCount(c)
         \/ k = LastLine(c)
<1> DEFINE b == BlockCount(c)
           i == k - ProofEnd - 2
<1>1. b \in Nat /\ ProofEnd \in {3, 4} /\ LastLine(c) = ProofEnd + b + 5
  BY BlockFacts DEF LastLine
<1> HIDE DEF b
<1>2. \/ k \in 1 .. ProofEnd + 2
      \/ i \in 1 .. b /\ k = ProofEnd + 2 + i
      \/ k = ProofEnd + 3 + b
      \/ k = ProofEnd + 4 + b
      \/ k = LastLine(c)
  BY <1>1
<1> QED
  BY <1>2 DEF b

(* The table of the lines, read at each place.                             *)
LEMMA TableFacts ==
  ASSUME NEW c \in Client
  PROVE  /\ SayLen(c, 1) = Len(Magic) /\ Hear(c, 1) = {"OK"}
         /\ SayLen(c, 2) = 1 /\ Hear(c, 2) = {"HEADER_OK", "SUPPORTS_COMPRESSION"}
         /\ SayLen(c, 3) = 0
         /\ Password => Hear(c, 3) = {"REQUEST_SHA256_AUTH"}
         /\ SayLen(c, ProofEnd) = (IF Password THEN AuthLen ELSE 0)
         /\ Hear(c, ProofEnd) = {"AUTH_OK"}
         /\ SayLen(c, ProofEnd + 1) = SizeLen /\ Hear(c, ProofEnd + 1) = {"UPDATE_PREPARE_OK"}
         /\ SayLen(c, ProofEnd + 2) = Md5Len /\ Hear(c, ProofEnd + 2) = {"BIN_MD5_OK"}
         /\ \A i \in 1 .. BlockCount(c) :
              /\ SayLen(c, ProofEnd + 2 + i) = BlockLen(c, i)
              /\ Hear(c, ProofEnd + 2 + i) = {"CHUNK_OK"}
         /\ SayLen(c, ProofEnd + 3 + BlockCount(c)) = 0
         /\ Hear(c, ProofEnd + 3 + BlockCount(c)) = {"RECEIVE_OK"}
         /\ SayLen(c, ProofEnd + 4 + BlockCount(c)) = 0
         /\ Hear(c, ProofEnd + 4 + BlockCount(c)) = {"UPDATE_END_OK"}
         /\ SayLen(c, LastLine(c)) = 1 /\ Hear(c, LastLine(c)) = {}
<1> DEFINE b == BlockCount(c)
<1>1. b \in Nat /\ LastLine(c) = ProofEnd + b + 5 /\ ProofEnd = IF Password THEN 4 ELSE 3
  BY BlockFacts DEF LastLine, ProofEnd
<1>2. \A k : IsBlock(c, k) <=> k \in ProofEnd + 3 .. ProofEnd + 2 + b
  BY DEF IsBlock
<1> HIDE DEF b
<1>3. /\ ~IsBlock(c, 1) /\ ~IsBlock(c, 2) /\ ~IsBlock(c, 3) /\ ~IsBlock(c, 4)
      /\ ~IsBlock(c, ProofEnd + 1) /\ ~IsBlock(c, ProofEnd + 2)
      /\ ~IsBlock(c, ProofEnd + 3 + b) /\ ~IsBlock(c, ProofEnd + 4 + b)
      /\ ~IsBlock(c, LastLine(c))
      /\ \A i \in 1 .. b : IsBlock(c, ProofEnd + 2 + i) /\ ProofEnd + 2 + i - ProofEnd - 2 = i
  BY <1>1, <1>2
<1>4. /\ SayLen(c, 1) = Len(Magic) /\ Hear(c, 1) = {"OK"}
      /\ SayLen(c, 2) = 1 /\ Hear(c, 2) = {"HEADER_OK", "SUPPORTS_COMPRESSION"}
  <2>1. \A k \in {1, 2} :
          /\ ~IsBlock(c, k) /\ k # ProofEnd /\ k # ProofEnd + 1 /\ k # ProofEnd + 2
          /\ k # ProofEnd + 3 + b /\ k # ProofEnd + 4 + b /\ k # LastLine(c) /\ k # 3 /\ k # 4
    BY <1>1, <1>3
  <2> QED
    BY <2>1 DEF SayLen, Hear, b
<1>5. /\ SayLen(c, 3) = 0
      /\ Password => Hear(c, 3) = {"REQUEST_SHA256_AUTH"}
  <2>1. /\ 3 # ProofEnd + 1 /\ 3 # ProofEnd + 2 /\ 3 # LastLine(c)
        /\ 3 # ProofEnd + 3 + b /\ 3 # ProofEnd + 4 + b
        /\ (Password => 3 # ProofEnd)
    BY <1>1
  <2> QED
    BY <1>3, <2>1 DEF SayLen, Hear, b
<1>6. /\ SayLen(c, ProofEnd) = (IF Password THEN AuthLen ELSE 0)
      /\ Hear(c, ProofEnd) = {"AUTH_OK"}
  <2> DEFINE k == ProofEnd
  <2>1. /\ ~IsBlock(c, k) /\ k # 1 /\ k # 2 /\ ~(k = 3 /\ Password)
        /\ k # k + 1 /\ k # k + 2 /\ k # LastLine(c)
        /\ k # k + 3 + b /\ k # k + 4 + b
        /\ (k = 4 <=> Password)
    BY <1>1, <1>3
  <2>2. Hear(c, k) = {"AUTH_OK"}
    BY <2>1 DEF Hear, b
  <2>3. SayLen(c, k) = (IF Password THEN AuthLen ELSE 0)
    BY <2>1 DEF SayLen
  <2> QED
    BY <2>2, <2>3
<1>7. /\ SayLen(c, ProofEnd + 1) = SizeLen /\ Hear(c, ProofEnd + 1) = {"UPDATE_PREPARE_OK"}
      /\ SayLen(c, ProofEnd + 2) = Md5Len /\ Hear(c, ProofEnd + 2) = {"BIN_MD5_OK"}
  <2>1. \A k \in {ProofEnd + 1, ProofEnd + 2} :
          /\ ~IsBlock(c, k) /\ k # 1 /\ k # 2 /\ ~(k = 3 /\ Password) /\ ~(k = 4 /\ Password)
          /\ k # ProofEnd /\ k # LastLine(c)
          /\ k # ProofEnd + 3 + b /\ k # ProofEnd + 4 + b
    BY <1>1, <1>3
  <2>2. ProofEnd + 1 # ProofEnd + 2
    BY <1>1
  <2> QED
    BY <2>1, <2>2 DEF SayLen, Hear, b
<1>8. ASSUME NEW i \in 1 .. b
      PROVE  /\ SayLen(c, ProofEnd + 2 + i) = BlockLen(c, i)
             /\ Hear(c, ProofEnd + 2 + i) = {"CHUNK_OK"}
  <2> DEFINE k == ProofEnd + 2 + i
  <2>1. /\ IsBlock(c, k) /\ k - ProofEnd - 2 = i /\ k # 1 /\ k # 2
        /\ ~(k = 4 /\ Password) /\ ~(k = 3 /\ Password) /\ k # ProofEnd
        /\ k # ProofEnd + 1 /\ k # ProofEnd + 2
        /\ k # ProofEnd + 3 + b /\ k # ProofEnd + 4 + b /\ k # LastLine(c)
    BY <1>1, <1>3
  <2> HIDE DEF k
  <2>2. SayLen(c, k) = BlockLen(c, i) /\ Hear(c, k) = {"CHUNK_OK"}
    BY <2>1 DEF SayLen, Hear, b
  <2> QED
    BY <2>2 DEF k
<1>9. /\ SayLen(c, ProofEnd + 3 + b) = 0 /\ Hear(c, ProofEnd + 3 + b) = {"RECEIVE_OK"}
      /\ SayLen(c, ProofEnd + 4 + b) = 0 /\ Hear(c, ProofEnd + 4 + b) = {"UPDATE_END_OK"}
  BY <1>1, <1>3 DEF SayLen, Hear, b
<1>10. SayLen(c, LastLine(c)) = 1 /\ Hear(c, LastLine(c)) = {}
  BY <1>1, <1>3 DEF SayLen, Hear, b
<1> QED
  BY <1>4, <1>5, <1>6, <1>7, <1>8, <1>9, <1>10 DEF b

(* What line k of the script says.                                         *)
Said(c, k) == Script(c)[k].say

(* What the lines before the image are, for any challenge.                 *)
LEMMA LineTypes ==
  ASSUME NonceTypes, Protocol, NEW c \in Client
  PROVE  /\ \A s \in Seq(Value), h \in SUBSET Response :
              /\ Line(s, h) \in ScriptLine
              /\ Line(s, h).say = s /\ Line(s, h).hear = h
         /\ Magic \in Seq(Value) /\ <<>> \in Seq(Value) /\ <<0>> \in Seq(Value)
         /\ <<Features>> \in Seq(Value) /\ WrongReply \in Seq(Value) /\ Offer[c] \in Seq(Value)
         /\ <<Len(ImageOf(c)) \div Radix, Len(ImageOf(c)) % Radix>> \in Seq(Value)
         /\ nonce[c] # NoNonce =>
              AuthReply[nonce[c]] \in Seq(Value) /\ Len(AuthReply[nonce[c]]) = AuthLen
<1>1. ASSUME NEW s \in Seq(Value), NEW h \in SUBSET Response
      PROVE  Line(s, h) \in ScriptLine /\ Line(s, h).say = s /\ Line(s, h).hear = h
  BY DEF Line, ScriptLine
<1>2. 0 \in Value /\ Features \in Value
  BY WireAssumption, ClientAssumption
<1>3. Magic \in Seq(Value) /\ WrongReply \in Seq(Value) /\ Offer[c] \in Seq(Value)
  BY WireAssumption, ClientAssumption DEF Client
<1>4. <<>> \in Seq(Value) /\ <<0>> \in Seq(Value) /\ <<Features>> \in Seq(Value)
  BY <1>2, EmptySeq
<1> DEFINE hi == Len(ImageOf(c)) \div Radix
           lo == Len(ImageOf(c)) % Radix
<1>5. hi \in Value /\ lo \in Value
  BY ClientAssumption DEF ImageOf, Client
<1> HIDE DEF hi, lo
<1>6. <<hi, lo>> \in Seq(Value)
  BY <1>5
<1>7. nonce[c] # NoNonce =>
        AuthReply[nonce[c]] \in Seq(Value) /\ Len(AuthReply[nonce[c]]) = AuthLen
  BY ClientAssumption DEF NonceTypes, Protocol
<1> QED
  BY <1>1, <1>3, <1>4, <1>6, <1>7 DEF hi, lo

(* The lines of a script, each at its place.                               *)
LEMMA ScriptPlaces ==
  ASSUME NonceTypes, Protocol, NEW c \in Client
  PROVE  /\ Len(Script(c)) = LastLine(c)
         /\ Script(c)[1] = Line(Magic, {"OK"})
         /\ Script(c)[2] = Line(<<Features>>, {"HEADER_OK", "SUPPORTS_COMPRESSION"})
         /\ ~Password => Script(c)[3] = Line(<<>>, {"AUTH_OK"})
         /\ Password => /\ Script(c)[3] = Line(<<>>, {"REQUEST_SHA256_AUTH"})
                        /\ Script(c)[4] =
                             Line(IF c \in Knows /\ nonce[c] # NoNonce
                                  THEN AuthReply[nonce[c]] ELSE WrongReply, {"AUTH_OK"})
         /\ Script(c)[ProofEnd + 1] =
              Line(<<Len(ImageOf(c)) \div Radix, Len(ImageOf(c)) % Radix>>,
                   {"UPDATE_PREPARE_OK"})
         /\ Script(c)[ProofEnd + 2] = Line(Offer[c], {"BIN_MD5_OK"})
         /\ \A i \in 1 .. BlockCount(c) :
              Script(c)[ProofEnd + 2 + i] = Line(Blocks(ImageOf(c))[i], {"CHUNK_OK"})
         /\ Script(c)[ProofEnd + 3 + BlockCount(c)] = Line(<<>>, {"RECEIVE_OK"})
         /\ Script(c)[ProofEnd + 4 + BlockCount(c)] = Line(<<>>, {"UPDATE_END_OK"})
         /\ Script(c)[LastLine(c)] = Line(<<0>>, {})
<1> DEFINE L == ScriptLine
           b == BlockCount(c)
           size == <<Len(ImageOf(c)) \div Radix, Len(ImageOf(c)) % Radix>>
           reply == IF c \in Knows /\ nonce[c] # NoNonce
                    THEN AuthReply[nonce[c]] ELSE WrongReply
           blocks == Blocks(ImageOf(c))
           hello == << Line(Magic, {"OK"}),
                       Line(<<Features>>, {"HEADER_OK", "SUPPORTS_COMPRESSION"}) >>
           proof == ProofLines(c)
           announce == << Line(size, {"UPDATE_PREPARE_OK"}), Line(Offer[c], {"BIN_MD5_OK"}) >>
           image == ImageLines(c)
           end == << Line(<<>>, {"UPDATE_END_OK"}), Line(<<0>>, {}) >>
<1>1. b \in Nat /\ ProofEnd \in {3, 4} /\ LastLine(c) = ProofEnd + b + 5
      /\ ProofEnd = IF Password THEN 4 ELSE 3
  BY BlockFacts DEF LastLine, ProofEnd
<1>2. Len(blocks) = b /\ blocks \in Seq(Seq(Value))
      /\ \A k \in 1 .. b : blocks[k] \in Seq(Value)
  <2>1. ImageOf(c) \in Seq(Value)
    BY ClientAssumption DEF ImageOf, Client
  <2> QED
    BY <2>1, BlockShape, BlocksType
<1>3. Script(c) = hello \o proof \o announce \o image \o end
  BY DEF Script
<1>4. reply \in Seq(Value)
  BY LineTypes
<1>5. \A s \in Seq(Value), h \in SUBSET Response : Line(s, h) \in L
  BY LineTypes
<1>6. /\ {"OK"} \in SUBSET Response
      /\ {"HEADER_OK", "SUPPORTS_COMPRESSION"} \in SUBSET Response
      /\ {"AUTH_OK"} \in SUBSET Response /\ {"REQUEST_SHA256_AUTH"} \in SUBSET Response
      /\ {"UPDATE_PREPARE_OK"} \in SUBSET Response /\ {"BIN_MD5_OK"} \in SUBSET Response
      /\ {"CHUNK_OK"} \in SUBSET Response /\ {"RECEIVE_OK"} \in SUBSET Response
      /\ {"UPDATE_END_OK"} \in SUBSET Response /\ {} \in SUBSET Response
  BY DEF Response
<1>7. /\ Line(Magic, {"OK"}) \in L
      /\ Line(<<Features>>, {"HEADER_OK", "SUPPORTS_COMPRESSION"}) \in L
      /\ Line(<<>>, {"AUTH_OK"}) \in L /\ Line(<<>>, {"REQUEST_SHA256_AUTH"}) \in L
      /\ Line(reply, {"AUTH_OK"}) \in L
      /\ Line(size, {"UPDATE_PREPARE_OK"}) \in L /\ Line(Offer[c], {"BIN_MD5_OK"}) \in L
      /\ Line(<<>>, {"RECEIVE_OK"}) \in L
      /\ Line(<<>>, {"UPDATE_END_OK"}) \in L /\ Line(<<0>>, {}) \in L
      /\ \A k \in 1 .. b : Line(blocks[k], {"CHUNK_OK"}) \in L
  <2> HIDE DEF L, reply, blocks
  <2> QED
    BY <1>2, <1>4, <1>5, <1>6, LineTypes
<1>8. hello \in Seq(L) /\ Len(hello) = 2 /\ hello[1] = Line(Magic, {"OK"})
      /\ hello[2] = Line(<<Features>>, {"HEADER_OK", "SUPPORTS_COMPRESSION"})
  <2> HIDE DEF L
  <2> QED
    BY <1>7
<1>9. announce \in Seq(L) /\ Len(announce) = 2
      /\ announce[1] = Line(size, {"UPDATE_PREPARE_OK"})
      /\ announce[2] = Line(Offer[c], {"BIN_MD5_OK"})
  <2> HIDE DEF L, size
  <2> QED
    BY <1>7
<1>10. end \in Seq(L) /\ Len(end) = 2 /\ end[1] = Line(<<>>, {"UPDATE_END_OK"})
       /\ end[2] = Line(<<0>>, {})
  <2> HIDE DEF L
  <2> QED
    BY <1>7
<1>11. /\ proof \in Seq(L) /\ Len(proof) = ProofEnd - 2
       /\ ~Password => proof[1] = Line(<<>>, {"AUTH_OK"})
       /\ Password => /\ proof[1] = Line(<<>>, {"REQUEST_SHA256_AUTH"})
                      /\ proof[2] = Line(reply, {"AUTH_OK"})
  <2>1. proof = IF ~Password THEN << Line(<<>>, {"AUTH_OK"}) >>
                ELSE << Line(<<>>, {"REQUEST_SHA256_AUTH"}), Line(reply, {"AUTH_OK"}) >>
    BY DEF ProofLines
  <2> HIDE DEF proof, L, reply
  <2>2. CASE Password
    BY <1>1, <1>7, <2>1, <2>2
  <2>3. CASE ~Password
    BY <1>1, <1>7, <2>1, <2>3
  <2> QED
    BY <2>2, <2>3
<1>12. /\ image \in Seq(L) /\ Len(image) = b + 1
       /\ \A k \in 1 .. b : image[k] = Line(blocks[k], {"CHUNK_OK"})
       /\ image[b + 1] = Line(<<>>, {"RECEIVE_OK"})
  <2> DEFINE front == [k \in 1 .. Len(blocks) |-> Line(blocks[k], {"CHUNK_OK"})]
             last == << Line(<<>>, {"RECEIVE_OK"}) >>
  <2>1. image = front \o last
    BY DEF ImageLines, Protocol
  <2>2. front \in Seq(L) /\ Len(front) = b
        /\ \A k \in 1 .. b : front[k] = Line(blocks[k], {"CHUNK_OK"})
    <3>1. front \in [1 .. b -> L]
      BY <1>2, <1>7
    <3> HIDE DEF L
    <3>2. front \in Seq(L) /\ Len(front) = b
      <4> HIDE DEF front, b
      <4>1. b \in Nat
        BY <1>1
      <4> QED
        BY <3>1, <4>1, FunctionIsSeq
    <3> QED
      BY <1>2, <3>2
  <2>3. last \in Seq(L) /\ Len(last) = 1 /\ last[1] = Line(<<>>, {"RECEIVE_OK"})
        /\ 1 \in 1 .. Len(last)
    <3> HIDE DEF L
    <3> QED
      BY <1>7
  <2> HIDE DEF front, last, L
  <2>4. /\ front \o last \in Seq(L) /\ Len(front \o last) = b + 1
        /\ \A k \in 1 .. b : (front \o last)[k] = front[k]
        /\ (front \o last)[b + 1] = last[1]
    <3>1. front \in Seq(L) /\ last \in Seq(L)
      BY <2>2, <2>3
    <3>2. /\ front \o last \in Seq(L) /\ Len(front \o last) = Len(front) + Len(last)
          /\ \A i \in 1 .. Len(front) : (front \o last)[i] = front[i]
          /\ \A i \in 1 .. Len(last) : (front \o last)[Len(front) + i] = last[i]
      BY <3>1, Joined
    <3> QED
      BY <2>2, <2>3, <3>2
  <2> QED
    BY <2>1, <2>2, <2>3, <2>4
<1> HIDE DEF hello, proof, announce, image, end, L, b
<1> DEFINE two == hello \o proof
           three == two \o announce
           four == three \o image
           s == four \o end
<1>13. /\ Len(s) = LastLine(c)
       /\ \A i \in 1 .. 2 : s[i] = hello[i]
       /\ \A i \in 1 .. ProofEnd - 2 : s[2 + i] = proof[i]
       /\ \A i \in 1 .. 2 : s[ProofEnd + i] = announce[i]
       /\ \A i \in 1 .. b + 1 : s[ProofEnd + 2 + i] = image[i]
       /\ \A i \in 1 .. 2 : s[ProofEnd + 3 + b + i] = end[i]
  <2> DEFINE p == ProofEnd
             q == ProofEnd + 2
             r == ProofEnd + 3 + b
  <2>1. /\ Len(hello) = 2 /\ Len(announce) = 2 /\ Len(image) = b + 1 /\ Len(end) = 2
        /\ Len(proof) = p - 2
    BY <1>8, <1>9, <1>10, <1>11, <1>12
  <2>2. hello \in Seq(L) /\ proof \in Seq(L) /\ announce \in Seq(L) /\ image \in Seq(L)
        /\ end \in Seq(L)
    BY <1>8, <1>9, <1>10, <1>11, <1>12
  <2>3. /\ p \in Nat /\ q \in Nat /\ r \in Nat /\ 2 + (p - 2) = p /\ p + 2 = q
        /\ q + (b + 1) = r /\ r + 2 = LastLine(c)
        /\ \A i \in 1 .. 2 : i \in 1 .. p /\ p + i \in 1 .. q
        /\ \A i \in 1 .. p - 2 : 2 + i \in 1 .. p
        /\ \A i \in 1 .. b + 1 : q + i \in 1 .. r
        /\ \A i \in 1 .. p : i \in 1 .. q
        /\ \A i \in 1 .. q : i \in 1 .. r
    BY <1>1
  <2> HIDE DEF p, q, r
  <2>4. /\ two \in Seq(L) /\ Len(two) = Len(hello) + Len(proof)
        /\ \A i \in 1 .. Len(hello) : two[i] = hello[i]
        /\ \A i \in 1 .. Len(proof) : two[Len(hello) + i] = proof[i]
    BY <2>2, Joined
  <2>5. two \in Seq(L) /\ Len(two) = p
    BY <2>1, <2>3, <2>4
  <2> HIDE DEF two
  <2>6. /\ three \in Seq(L) /\ Len(three) = Len(two) + Len(announce)
        /\ \A i \in 1 .. Len(two) : three[i] = two[i]
        /\ \A i \in 1 .. Len(announce) : three[Len(two) + i] = announce[i]
    <3>1. two \in Seq(L) /\ announce \in Seq(L)
      BY <2>2, <2>5
    <3> QED
      BY <3>1, Joined
  <2>7. three \in Seq(L) /\ Len(three) = q
    BY <2>1, <2>3, <2>5, <2>6
  <2> HIDE DEF three
  <2>8. /\ four \in Seq(L) /\ Len(four) = Len(three) + Len(image)
        /\ \A i \in 1 .. Len(three) : four[i] = three[i]
        /\ \A i \in 1 .. Len(image) : four[Len(three) + i] = image[i]
    <3>1. three \in Seq(L) /\ image \in Seq(L)
      BY <2>2, <2>7
    <3> QED
      BY <3>1, Joined
  <2>9. four \in Seq(L) /\ Len(four) = r
    BY <2>1, <2>3, <2>7, <2>8
  <2> HIDE DEF four
  <2>10. /\ Len(s) = Len(four) + Len(end)
         /\ \A i \in 1 .. Len(four) : s[i] = four[i]
         /\ \A i \in 1 .. Len(end) : s[Len(four) + i] = end[i]
    <3>1. four \in Seq(L) /\ end \in Seq(L)
      BY <2>2, <2>9
    <3> QED
      BY <3>1, Joined
  <2> HIDE DEF s
  <2>11. /\ Len(s) = LastLine(c)
         /\ \A i \in 1 .. r : s[i] = four[i]
         /\ \A i \in 1 .. 2 : s[r + i] = end[i]
    BY <2>1, <2>3, <2>9, <2>10
  <2>12. /\ \A i \in 1 .. q : s[i] = three[i]
         /\ \A i \in 1 .. b + 1 : s[q + i] = image[i]
    BY <2>1, <2>3, <2>7, <2>8, <2>11
  <2>13. /\ \A i \in 1 .. p : s[i] = two[i]
         /\ \A i \in 1 .. 2 : s[p + i] = announce[i]
    BY <2>1, <2>3, <2>5, <2>6, <2>12
  <2>14. /\ \A i \in 1 .. 2 : s[i] = hello[i]
         /\ \A i \in 1 .. p - 2 : s[2 + i] = proof[i]
    BY <2>1, <2>3, <2>4, <2>13
  <2> QED
    BY <2>11, <2>12, <2>13, <2>14 DEF p, q, r
<1> HIDE DEF s
<1>14. s[1] = hello[1] /\ s[2] = hello[2] /\ s[ProofEnd + 1] = announce[1]
       /\ s[ProofEnd + 2] = announce[2]
       /\ s[ProofEnd + 3 + b + 1] = end[1] /\ s[ProofEnd + 3 + b + 2] = end[2]
       /\ s[ProofEnd + 2 + (b + 1)] = image[b + 1]
       /\ \A i \in 1 .. b : s[ProofEnd + 2 + i] = image[i]
  <2>1. 1 \in 1 .. 2 /\ 2 \in 1 .. 2 /\ b + 1 \in 1 .. b + 1 /\ 1 .. b \subseteq 1 .. b + 1
    BY <1>1
  <2> QED
    BY <1>13, <2>1
<1>15. s[2 + 1] = proof[1] /\ (Password => s[2 + 2] = proof[2])
  <2>1. 1 \in 1 .. ProofEnd - 2 /\ (Password => 2 \in 1 .. ProofEnd - 2)
    BY <1>1
  <2> QED
    BY <1>13, <2>1
<1>16. ProofEnd + 3 + b + 1 = ProofEnd + 4 + b /\ ProofEnd + 3 + b + 2 = LastLine(c)
       /\ ProofEnd + 2 + (b + 1) = ProofEnd + 3 + b /\ 2 + 1 = 3 /\ 2 + 2 = 4
  BY <1>1
<1>17. Script(c) = s
  BY <1>3 DEF s, four, three, two
<1> HIDE DEF size, reply, blocks
<1>18. /\ Script(c)[1] = Line(Magic, {"OK"})
       /\ Script(c)[2] = Line(<<Features>>, {"HEADER_OK", "SUPPORTS_COMPRESSION"})
       /\ Script(c)[ProofEnd + 1] = Line(size, {"UPDATE_PREPARE_OK"})
       /\ Script(c)[ProofEnd + 2] = Line(Offer[c], {"BIN_MD5_OK"})
  BY <1>8, <1>9, <1>14, <1>17
<1>19. /\ ~Password => Script(c)[3] = Line(<<>>, {"AUTH_OK"})
       /\ Password => /\ Script(c)[3] = Line(<<>>, {"REQUEST_SHA256_AUTH"})
                      /\ Script(c)[4] = Line(reply, {"AUTH_OK"})
  BY <1>11, <1>15, <1>16, <1>17
<1>20. /\ \A i \in 1 .. b : Script(c)[ProofEnd + 2 + i] = Line(blocks[i], {"CHUNK_OK"})
       /\ Script(c)[ProofEnd + 3 + b] = Line(<<>>, {"RECEIVE_OK"})
  BY <1>12, <1>14, <1>16, <1>17
<1>21. /\ Script(c)[ProofEnd + 4 + b] = Line(<<>>, {"UPDATE_END_OK"})
       /\ Script(c)[LastLine(c)] = Line(<<0>>, {})
  BY <1>10, <1>14, <1>16, <1>17
<1> QED
  BY <1>13, <1>17, <1>18, <1>19, <1>20, <1>21 DEF size, reply, blocks, b

(* The lines of a script are what the table says: how much each says does  *)
(* not depend on the challenge, and only the answer to it does at all.     *)
LEMMA ScriptTable ==
  ASSUME NonceTypes, Protocol, NEW c \in Client
  PROVE  /\ Len(Script(c)) = LastLine(c)
         /\ \A k \in 1 .. LastLine(c) :
              /\ Said(c, k) \in Seq(Value) /\ Len(Said(c, k)) = SayLen(c, k)
              /\ Script(c)[k].hear = Hear(c, k)
         /\ Said(c, ProofEnd + 1) = <<Len(ImageOf(c)) \div Radix, Len(ImageOf(c)) % Radix>>
         /\ Said(c, ProofEnd + 2) = Offer[c]
         /\ Password /\ c \notin Knows => Said(c, 4) = WrongReply
<1> DEFINE b == BlockCount(c)
           Good(k) == /\ Said(c, k) \in Seq(Value) /\ Len(Said(c, k)) = SayLen(c, k)
                      /\ Script(c)[k].hear = Hear(c, k)
           size == <<Len(ImageOf(c)) \div Radix, Len(ImageOf(c)) % Radix>>
<1>1. b \in Nat /\ ProofEnd = IF Password THEN 4 ELSE 3
  BY BlockFacts DEF ProofEnd
<1>2. Good(1)
  <2>1. Said(c, 1) = Magic /\ Script(c)[1].hear = {"OK"}
    <3>1. Script(c)[1] = Line(Magic, {"OK"})
      BY ScriptPlaces
    <3> QED
      BY <3>1 DEF Said, Line
  <2> QED
    BY <2>1, LineTypes, TableFacts
<1>3. Good(2)
  <2>1. Said(c, 2) = <<Features>> /\ Script(c)[2].hear = {"HEADER_OK", "SUPPORTS_COMPRESSION"}
    <3>1. Script(c)[2] = Line(<<Features>>, {"HEADER_OK", "SUPPORTS_COMPRESSION"})
      BY ScriptPlaces
    <3> QED
      BY <3>1 DEF Said, Line
  <2>2. Len(<<Features>>) = 1
    OBVIOUS
  <2> QED
    BY <2>1, <2>2, LineTypes, TableFacts
<1>4. Len(<<>>) = 0
  OBVIOUS
<1>5. ASSUME ~Password PROVE Good(3)
  <2>1. Said(c, 3) = <<>> /\ Script(c)[3].hear = {"AUTH_OK"}
    <3>1. Script(c)[3] = Line(<<>>, {"AUTH_OK"})
      BY <1>5, ScriptPlaces
    <3> QED
      BY <3>1 DEF Said, Line
  <2>2. ProofEnd = 3
    BY <1>1, <1>5
  <2>3. SayLen(c, 3) = 0 /\ Hear(c, 3) = {"AUTH_OK"}
    BY <2>2, TableFacts
  <2> QED
    BY <1>4, <2>1, <2>3, LineTypes
<1>6. ASSUME Password
      PROVE  Good(3) /\ Good(4) /\ (c \notin Knows => Said(c, 4) = WrongReply)
  <2> DEFINE reply == IF c \in Knows /\ nonce[c] # NoNonce THEN AuthReply[nonce[c]]
                      ELSE WrongReply
  <2>1. reply \in Seq(Value) /\ Len(reply) = AuthLen /\ (c \notin Knows => reply = WrongReply)
    BY LineTypes DEF Protocol
  <2>2. /\ Script(c)[3] = Line(<<>>, {"REQUEST_SHA256_AUTH"})
        /\ Script(c)[4] = Line(reply, {"AUTH_OK"})
    BY <1>6, ScriptPlaces
  <2> HIDE DEF reply
  <2>3. /\ Said(c, 3) = <<>> /\ Script(c)[3].hear = {"REQUEST_SHA256_AUTH"}
        /\ Said(c, 4) = reply /\ Script(c)[4].hear = {"AUTH_OK"}
    BY <2>2 DEF Said, Line
  <2>4. ProofEnd = 4
    BY <1>1, <1>6
  <2>5. /\ SayLen(c, 3) = 0 /\ Hear(c, 3) = {"REQUEST_SHA256_AUTH"}
        /\ SayLen(c, 4) = AuthLen /\ Hear(c, 4) = {"AUTH_OK"}
    BY <1>6, <2>4, TableFacts
  <2> QED
    BY <1>4, <2>1, <2>3, <2>5, LineTypes
<1>7. /\ Good(ProofEnd + 1) /\ Good(ProofEnd + 2)
      /\ Said(c, ProofEnd + 1) = size /\ Said(c, ProofEnd + 2) = Offer[c]
  <2>1. /\ Script(c)[ProofEnd + 1] = Line(size, {"UPDATE_PREPARE_OK"})
        /\ Script(c)[ProofEnd + 2] = Line(Offer[c], {"BIN_MD5_OK"})
    BY ScriptPlaces
  <2>2. size \in Seq(Value) /\ Len(size) = SizeLen
    <3>1. size \in Seq(Value)
      BY LineTypes
    <3> QED
      BY <3>1 DEF SizeLen
  <2> HIDE DEF size
  <2>3. /\ Said(c, ProofEnd + 1) = size /\ Said(c, ProofEnd + 2) = Offer[c]
        /\ Script(c)[ProofEnd + 1].hear = {"UPDATE_PREPARE_OK"}
        /\ Script(c)[ProofEnd + 2].hear = {"BIN_MD5_OK"}
    BY <2>1 DEF Said, Line
  <2>4. Len(Offer[c]) = Md5Len
    BY DEF Protocol
  <2> QED
    BY <2>2, <2>3, <2>4, LineTypes, TableFacts
<1>8. ASSUME NEW i \in 1 .. b PROVE Good(ProofEnd + 2 + i)
  <2>1. Script(c)[ProofEnd + 2 + i] = Line(Blocks(ImageOf(c))[i], {"CHUNK_OK"})
    BY ScriptPlaces
  <2>2. Blocks(ImageOf(c))[i] \in Seq(Value) /\ Len(Blocks(ImageOf(c))[i]) = BlockLen(c, i)
    BY BlockShape
  <2>3. /\ Said(c, ProofEnd + 2 + i) = Blocks(ImageOf(c))[i]
        /\ Script(c)[ProofEnd + 2 + i].hear = {"CHUNK_OK"}
    BY <2>1 DEF Said, Line
  <2>4. /\ SayLen(c, ProofEnd + 2 + i) = BlockLen(c, i)
        /\ Hear(c, ProofEnd + 2 + i) = {"CHUNK_OK"}
    BY TableFacts
  <2> QED
    BY <2>2, <2>3, <2>4
<1>9. Good(ProofEnd + 3 + b) /\ Good(ProofEnd + 4 + b)
  <2>1. /\ Script(c)[ProofEnd + 3 + b] = Line(<<>>, {"RECEIVE_OK"})
        /\ Script(c)[ProofEnd + 4 + b] = Line(<<>>, {"UPDATE_END_OK"})
    BY ScriptPlaces
  <2>2. /\ Said(c, ProofEnd + 3 + b) = <<>> /\ Said(c, ProofEnd + 4 + b) = <<>>
        /\ Script(c)[ProofEnd + 3 + b].hear = {"RECEIVE_OK"}
        /\ Script(c)[ProofEnd + 4 + b].hear = {"UPDATE_END_OK"}
    BY <2>1 DEF Said, Line
  <2> QED
    BY <1>4, <2>2, LineTypes, TableFacts
<1>10. Good(LastLine(c))
  <2>1. Script(c)[LastLine(c)] = Line(<<0>>, {})
    BY ScriptPlaces
  <2>2. Said(c, LastLine(c)) = <<0>> /\ Script(c)[LastLine(c)].hear = {}
    BY <2>1 DEF Said, Line
  <2>3. Len(<<0>>) = 1
    OBVIOUS
  <2> QED
    BY <2>2, <2>3, LineTypes, TableFacts
<1>11. ASSUME NEW k \in 1 .. LastLine(c) PROVE Good(k)
  <2>1. CASE k \in 1 .. ProofEnd + 2
    <3>1. k \in {1, 2, 3, ProofEnd + 1, ProofEnd + 2} \/ (Password /\ k = 4)
      BY <1>1, <2>1
    <3> HIDE DEF Good
    <3> QED
      BY <1>2, <1>3, <1>5, <1>6, <1>7, <3>1
  <2> HIDE DEF Good, b
  <2>2. CASE \E i \in 1 .. b : k = ProofEnd + 2 + i
    BY <1>8, <2>2
  <2>3. CASE k = ProofEnd + 3 + b \/ k = ProofEnd + 4 + b \/ k = LastLine(c)
    BY <1>9, <1>10, <2>3
  <2> QED
    BY <2>1, <2>2, <2>3, Places DEF b
<1> QED
  BY <1>6, <1>7, <1>11, ScriptPlaces

------------------------------------------------------------------------------
(* The server at work, one line of the script at a time.                   *)

(* A mesh that delivers in order and in time what clients who do not give  *)
(* up send to a node that does not fail.                                   *)
Reliable ==
  /\ ~Timed /\ ~Lossy /\ ~Unordered /\ MaxRepeats = 0 /\ ~Impatient
  /\ ~SendMayFail /\ ~FaultsMayHappen

(* Which line of client c the server is at, and how many bytes of it it    *)
(* has taken out of the receive buffer, by the state it is in.             *)
ServerAt(c, s, t) ==
  \/ /\ s = 1
     /\ \/ ota_state = "IDLE" /\ t = 0
        \/ ota_state = "MAGIC_READ" /\ t = Len(hs_buf)
        \/ ota_state = "MAGIC_ACK" /\ t = Len(Magic)
  \/ /\ s = 2
     /\ \/ ota_state = "FEATURE_READ" /\ t = 0
        \/ ota_state = "FEATURE_ACK" /\ t = 1
  \/ /\ Password
     /\ \/ s = 3 /\ ota_state = "AUTH_SEND" /\ t = 0
        \/ s = 4 /\ ota_state = "AUTH_READ" /\ t = Len(auth_in)
  \/ ota_state = "DATA_AUTH_OK" /\ s = ProofEnd /\ t = SayLen(c, s)
  \/ /\ s = ProofEnd + 1
     /\ \/ ota_state = "DATA_SIZE" /\ t = Len(data_buf)
        \/ /\ ota_state = "DATA_BEGIN" /\ t = SizeLen
           /\ ota_size = Len(ImageOf(c))
        \/ /\ ota_state = "DATA_PREPARE_OK" /\ t = SizeLen
           /\ ota_size = Len(ImageOf(c))
           /\ firmware_total = 0 /\ size_acknowledged = 0
  \/ /\ s = ProofEnd + 2 /\ ota_size = Len(ImageOf(c))
     /\ firmware_total = 0 /\ size_acknowledged = 0
     /\ \/ ota_state = "DATA_MD5" /\ t = Len(data_buf)
        \/ ota_state = "DATA_MD5_OK" /\ t = Md5Len /\ md5 = Offer[c]
  \/ /\ ota_state = "DATA_FIRMWARE" /\ ota_size = Len(ImageOf(c)) /\ md5 = Offer[c]
     /\ \/ \E k \in 1 .. BlockCount(c) :
             /\ s = ProofEnd + 2 + k
             /\ size_acknowledged = (k - 1) * BlockSize
             /\ firmware_total = (k - 1) * BlockSize + t
             /\ t <= BlockLen(c, k) /\ (pc = "chunks" \/ t < BlockLen(c, k))
        \/ /\ s = ProofEnd + 3 + BlockCount(c) /\ t = 0
           /\ size_acknowledged = BlockCount(c) * BlockSize
           /\ firmware_total = ota_size
  \/ ota_state = "DATA_RECEIVE_OK" /\ s = ProofEnd + 3 + BlockCount(c) /\ t = 0 /\ md5 = Offer[c]
  \/ ota_state = "DATA_END" /\ s = ProofEnd + 4 + BlockCount(c) /\ t = 0 /\ md5 = Offer[c]
  \/ ota_state = "DATA_END_OK" /\ s = ProofEnd + 4 + BlockCount(c) /\ t = 0
  \/ ota_state = "DATA_FINAL_ACK" /\ s = LastLine(c) /\ t = 0
  \/ ota_state = "DATA_REBOOT" /\ s = LastLine(c) /\ t = 1

(* What it holds of a field it is still reading.                           *)
Held ==
  CASE ota_state = "MAGIC_READ" -> hs_buf
    [] ota_state = "AUTH_READ" -> auth_in
    [] ota_state \in {"DATA_SIZE", "DATA_MD5"} -> data_buf
    [] OTHER -> <<>>
(* What has been taken of a line is its beginning.                         *)
Spells(b, text) == \A k \in 1 .. Len(b) : b[k].v = text[k]

(* What a client that does not know the password says answers no challenge. *)
Unforgeable == \A n \in Nonce : WrongReply # AuthReply[n]

(* The server among reliable surroundings: it has a peer from the first    *)
(* step of a session on, that is the client, and no time has passed.       *)
Settled(c) ==
  /\ elapsed = 0 /\ uptime = 0
  /\ ota_state # "IDLE" => has_peer
  /\ ota_state = "IDLE" => pc = "main"
  /\ ota_state # "AUTH_READ" => auth_in = <<>>
  /\ has_peer \/ rx # <<>> => peer = c
  /\ Unforgeable /\ Password /\ proved => c \in Knows

(* It reads line s, of which it has taken t bytes, and what it holds of it *)
(* and what waits to be read are what the client said.                     *)
Reads(c, s, t) ==
  /\ s \in 1 .. LastLine(c) /\ t \in Nat
  /\ ServerAt(c, s, t)
  /\ t + Len(rx) <= SayLen(c, s)
  /\ Spells(Held, Said(c, s))
  /\ \A k \in 1 .. Len(rx) : rx[k].v = Said(c, s)[t + k]

(* The server is at work on it.                                            *)
Serving(c, s, t) ==
  TypeOK /\ SessionInv /\ dev = "run" /\ Settled(c) /\ Reads(c, s, t)

(* What a step of the server can do to that.                               *)
TakesOn(c, s, t) ==
  /\ dev' = "run" /\ tx' = <<>>
  /\ \E m \in 0 .. Len(rx) :
       /\ ServerAt(c, s, t + m)' /\ rx' = SubSeq(rx, m + 1, Len(rx))
       /\ Spells(Held', Said(c, s))
AnswersLine(c, s, t) ==
  /\ dev' = "run" /\ rx' = rx
  /\ t = SayLen(c, s) /\ s < LastLine(c) /\ ServerAt(c, s + 1, 0)'
  /\ \E code \in Hear(c, s), n \in Nonce \cup {NoNonce} :
       tx' = << [to |-> peer, code |-> code, nonce |-> n] >>
RefusesLine(c, s, t) ==
  /\ dev' = "run" /\ rx' = <<>>
  /\ t + Len(rx) = SayLen(c, s) /\ ota_state' = "IDLE"
  /\ \E code \in ResponseError, n \in Nonce \cup {NoNonce} :
       tx' = << [to |-> peer, code |-> code, nonce |-> n] >>
GoesDown(c, s, t) ==
  /\ dev' = "off" /\ rx' = <<>> /\ tx' = <<>>
  /\ s = LastLine(c) /\ t = 1 /\ ota_state' = "IDLE"
Moves(c, s, t) ==
  /\ \/ TakesOn(c, s, t) \/ AnswersLine(c, s, t) \/ RefusesLine(c, s, t) \/ GoesDown(c, s, t)
  /\ Settled(c)'
  /\ boot' = boot \/ (boot' = ImageOf(c) /\ (Unforgeable /\ Password => c \in Knows))

(* In a session every label finds a peer, the backend and the proof.       *)
LEMMA ServingFacts ==
  ASSUME NEW c \in Client, NEW s, NEW t, Serving(c, s, t), ota_state # "IDLE"
  PROVE  /\ has_peer /\ InSession /\ peer = c
         /\ ota_state \in BackendStates => backend
         /\ Unforgeable /\ ota_state \in OTAData /\ Password => c \in Knows
         /\ pc = "size" => ota_state = "DATA_SIZE"
         /\ pc = "md5" => ota_state = "DATA_MD5"
         /\ pc = "chunks" => ota_state = "DATA_FIRMWARE"
BY DEF Serving, Settled, SessionInv, InSession

(* What waits to be read is a sequence of bytes.                           *)
LEMMA RxFacts ==
  ASSUME NEW c \in Client, NEW s, NEW t, Serving(c, s, t)
  PROVE  /\ rx \in Seq(Byte) /\ Len(rx) \in Nat /\ SubSeq(rx, 1, Len(rx)) = rx
         /\ t \in Nat /\ (rx # <<>> => Len(rx) # 0)
<1>1. rx \in Seq(Byte)
  BY DEF Serving, TypeOK
<1>2. Len(rx) \in Nat /\ (rx # <<>> => Len(rx) # 0)
  BY <1>1, LenProperties, EmptySeq
<1>3. SubSeq(rx, 1, Len(rx)) = rx
  BY <1>1
<1> QED
  BY <1>1, <1>2, <1>3 DEF Serving, Reads

(* A step that takes nothing and stays at the line.                        *)
LEMMA TakesNothing ==
  ASSUME NEW c \in Client, NEW s, NEW t, Serving(c, s, t),
         dev' = "run", tx' = <<>>, rx' = rx, ServerAt(c, s, t)',
         Held' = <<>> \/ Held' = Held
  PROVE  TakesOn(c, s, t)
<1>1. 0 \in 0 .. Len(rx) /\ 0 + 1 = 1 /\ t + 0 = t
  BY RxFacts
<1>2. Spells(Held', Said(c, s))
  BY DEF Serving, Reads, Spells
<1> QED
  BY <1>1, <1>2, RxFacts DEF TakesOn

(* A label that fails drops the rest of the line, all of which is there.   *)
LEMMA Refusal ==
  ASSUME Reliable, NEW c \in Client, NEW s, NEW t, Serving(c, s, t),
         ota_state # "IDLE", t + Len(rx) = SayLen(c, s),
         NEW code \in ResponseError, Fail(code)
  PROVE  Moves(c, s, t)
<1>1. has_peer /\ uptime = 0
  BY ServingFacts DEF Serving, Settled
<1>2. tx' = << [to |-> peer, code |-> code, nonce |-> NoNonce] >>
  BY <1>1 DEF Fail, SendErrorAndCleanup, Send, SendNonce, SendFails, Reliable
<1>3. /\ has_peer' = FALSE /\ rx' = <<>> /\ ota_state' = "IDLE" /\ auth_in' = <<>>
      /\ proved' = FALSE /\ elapsed' = 0 /\ uptime' = 0 /\ pc' = "main"
      /\ dev' = dev /\ boot' = boot
  BY <1>1 DEF Fail, SendErrorAndCleanup, Cleanup, ClearSession, CleanupAuth, Transition, Return
<1>4. RefusesLine(c, s, t)
  BY <1>2, <1>3 DEF RefusesLine, Serving
<1>5. Settled(c)'
  BY <1>3 DEF Settled
<1> QED
  BY <1>3, <1>4, <1>5 DEF Moves

(* loop() begins a session, or sees which handler is due.                  *)
LEMMA LoopMoves ==
  ASSUME Reliable, NEW c \in Client, NEW s, NEW t, Serving(c, s, t),
         StartSession \/ LoopHandshake \/ LoopData
  PROVE  Moves(c, s, t)
<1>1. elapsed = 0 /\ uptime = 0 /\ HandshakeTimeout \in Nat /\ DataTimeout \in Nat
      /\ ~TimedOut(HandshakeTimeout) /\ ~TimedOut(DataTimeout)
  BY TimeAssumption DEF Serving, Settled, TimedOut
<1>2. CASE StartSession
  <2>1. /\ ota_state = "IDLE" /\ ota_state' = "MAGIC_READ" /\ hs_buf' = <<>> /\ rx' = rx
        /\ tx' = <<>> /\ has_peer' = TRUE /\ peer' = peer /\ rx # <<>>
        /\ auth_in' = auth_in /\ proved' = proved /\ elapsed' = 0 /\ uptime' = uptime
        /\ boot' = boot /\ dev' = "run"
    BY <1>2 DEF StartSession, AtLoop, Transition, Silent, authVars
  <2>2. s = 1 /\ t = 0
    BY <2>1 DEF Serving, Reads, ServerAt
  <2>3. ServerAt(c, s, t)'
    BY <2>1, <2>2, EmptySeq DEF ServerAt
  <2>4. Held' = <<>>
    BY <2>1 DEF Held
  <2>5. TakesOn(c, s, t)
    BY <2>1, <2>3, <2>4, TakesNothing
  <2>6. Settled(c)'
    BY <1>1, <2>1 DEF Serving, Settled
  <2> QED
    BY <2>1, <2>5, <2>6 DEF Moves
<1>3. CASE LoopHandshake \/ LoopData
  <2>1. /\ UNCHANGED <<sessionVars, timeVars, data_buf, boot>> /\ pc' = "step" /\ tx' = <<>>
        /\ dev' = "run" /\ pc = "main" /\ ota_state # "IDLE"
    BY <1>1, <1>3 DEF LoopHandshake, LoopData, AtLoop, Silent, OTAData
  <2> USE DEF sessionVars, timeVars, peerVars, shakeVars, authVars, updateVars, countVars,
              slotVars
  <2>2. ServerAt(c, s, t)'
    <3>1. ServerAt(c, s, t)
      BY DEF Serving, Reads
    <3> QED
      BY <2>1, <3>1 DEF ServerAt
  <2>3. Held' = Held
    BY <2>1 DEF Held
  <2>4. TakesOn(c, s, t)
    BY <2>1, <2>2, <2>3, TakesNothing
  <2>5. Settled(c)'
    BY <2>1 DEF Serving, Settled
  <2> QED
    BY <2>1, <2>4, <2>5 DEF Moves
<1> QED
  BY <1>2, <1>3

(* Bytes taken from the receive buffer go on with what was held of a line. *)
LEMMA Taken ==
  ASSUME NEW c \in Client, NEW s, NEW t, Serving(c, s, t),
         NEW b \in Seq(Byte), Len(b) = t, Spells(b, Said(c, s)), NEW n \in Nat
  PROVE  /\ RxTake(n) \in Seq(Byte) /\ Len(RxTake(n)) = Lesser(n, Len(rx))
         /\ Lesser(n, Len(rx)) \in 0 .. Len(rx)
         /\ RxRest(n) = SubSeq(rx, Lesser(n, Len(rx)) + 1, Len(rx))
         /\ b \o RxTake(n) \in Seq(Byte)
         /\ Len(b \o RxTake(n)) = t + Lesser(n, Len(rx))
         /\ Spells(b \o RxTake(n), Said(c, s))
<1> DEFINE m == Lesser(n, Len(rx))
           r == RxTake(n)
<1>1. rx \in Seq(Byte) /\ Len(rx) \in Nat /\ t \in Nat
  BY RxFacts
<1>2. m \in 0 .. Len(rx) /\ m \in Nat
  BY <1>1 DEF Lesser
<1>3. r = SubSeq(rx, 1, m) /\ r \in Seq(Byte) /\ Len(r) = m /\ RxRest(n) = SubSeq(rx, m + 1, Len(rx))
  BY <1>1, RxSplit DEF RxTake, RxRest
<1> HIDE DEF m
<1>4. \A k \in 1 .. m : r[k] = rx[k]
  BY <1>1, <1>2, <1>3
<1> HIDE DEF r
<1>5. /\ b \o r \in Seq(Byte) /\ Len(b \o r) = t + m
      /\ \A k \in 1 .. t : (b \o r)[k] = b[k]
      /\ \A k \in 1 .. m : (b \o r)[t + k] = r[k]
  <2>1. b \in Seq(Byte) /\ r \in Seq(Byte) /\ Len(b) = t /\ Len(r) = m
    BY <1>3
  <2>2. b \o r \in Seq(Byte) /\ Len(b \o r) = Len(b) + Len(r)
    BY <2>1, Joined
  <2>3. \A k \in 1 .. Len(b) : (b \o r)[k] = b[k]
    BY <2>1, Joined
  <2>4. \A k \in 1 .. Len(r) : (b \o r)[Len(b) + k] = r[k]
    BY <2>1, Joined
  <2> QED
    BY <2>1, <2>2, <2>3, <2>4
<1>6. Spells(b \o r, Said(c, s))
  <2> SUFFICES ASSUME NEW k \in 1 .. Len(b \o r) PROVE (b \o r)[k].v = Said(c, s)[k]
    BY DEF Spells
  <2>1. CASE k \in 1 .. t
    BY <1>5, <2>1 DEF Spells
  <2>2. CASE k \notin 1 .. t
    <3>1. k - t \in 1 .. m /\ t + (k - t) = k
      BY <1>1, <1>2, <1>5, <2>2
    <3>2. (b \o r)[k] = rx[k - t] /\ k - t \in 1 .. Len(rx)
      BY <1>1, <1>2, <1>4, <1>5, <3>1
    <3>3. rx[k - t].v = Said(c, s)[t + (k - t)]
      BY <3>2 DEF Serving, Reads
    <3> QED
      BY <3>1, <3>2, <3>3
  <2> QED
    BY <2>1, <2>2
<1> QED
  BY <1>2, <1>3, <1>5, <1>6 DEF m, r

(* Bytes that spell a text all of which they are long are that text.       *)
LEMMA Spelled ==
  ASSUME NEW b \in Seq(Byte), NEW text \in Seq(Value), Spells(b, text), Len(b) = Len(text)
  PROVE  Values(b) = text
<1>1. Values(b) \in Seq(Value) /\ Len(Values(b)) = Len(text)
  BY ValuesType
<1>2. Len(b) \in Nat
  BY LenProperties
<1>3. \A k \in 1 .. Len(text) : Values(b)[k] = text[k]
  BY <1>2 DEF Values, Spells
<1> QED
  BY <1>1, <1>3, SeqEqual

(* The magic bytes arrive in pieces, and are those of the protocol.        *)
LEMMA MagicReadMoves ==
  ASSUME Reliable, Protocol, NonceTypes, NEW c \in Client, NEW s, NEW t, Serving(c, s, t),
         MagicRead
  PROVE  Moves(c, s, t)
<1> DEFINE n == Len(Magic) - Len(hs_buf)
           got == hs_buf \o RxTake(n)
<1>1. /\ ota_state = "MAGIC_READ" /\ dev = "run" /\ ota_state # "IDLE"
      /\ s = 1 /\ t = Len(hs_buf) /\ Held = hs_buf
  BY DEF MagicRead, At, Serving, Reads, ServerAt, Held
<1>2. hs_buf \in Seq(Byte) /\ n \in Nat /\ Len(Magic) \in Nat /\ Spells(hs_buf, Said(c, s))
  <2>1. hs_buf \in Seq(Byte) /\ Len(hs_buf) < Len(Magic) /\ Spells(hs_buf, Said(c, s))
    BY <1>1 DEF Serving, TypeOK, Reads
  <2>2. Len(hs_buf) \in Nat /\ Len(Magic) \in Nat
    BY <2>1, WireAssumption, LenProperties
  <2> QED
    BY <2>1, <2>2
<1>3. /\ Lesser(n, Len(rx)) \in 0 .. Len(rx)
      /\ RxRest(n) = SubSeq(rx, Lesser(n, Len(rx)) + 1, Len(rx))
      /\ got \in Seq(Byte) /\ Len(got) = t + Lesser(n, Len(rx)) /\ Spells(got, Said(c, s))
  <2>1. hs_buf \in Seq(Byte) /\ Len(hs_buf) = t /\ Spells(hs_buf, Said(c, s)) /\ n \in Nat
    BY <1>1, <1>2
  <2> HIDE DEF n
  <2>2. Lesser(n, Len(rx)) \in 0 .. Len(rx)
    BY <2>1, Taken
  <2>3. RxRest(n) = SubSeq(rx, Lesser(n, Len(rx)) + 1, Len(rx))
    BY <2>1, Taken
  <2>4. got \in Seq(Byte)
    BY <2>1, Taken
  <2>5. Len(got) = t + Lesser(n, Len(rx))
    BY <2>1, Taken
  <2>6. Spells(got, Said(c, s))
    BY <2>1, Taken
  <2> QED
    BY <2>2, <2>3, <2>4, <2>5, <2>6
<1>4. t \in Nat /\ Len(rx) \in Nat /\ t + Len(rx) <= Len(Magic)
  BY <1>1, RxFacts, TableFacts DEF Serving, Reads
<1>5. PICK m \in 0 .. Len(rx) : m = Lesser(n, Len(rx)) /\ m = Len(rx)
  BY <1>1, <1>2, <1>4 DEF Lesser
<1>6. has_peer /\ peer = c
  BY <1>1, ServingFacts
<1> HIDE DEF n, got
<1>7. CASE Len(got) = Len(Magic) /\ Fail("ERROR_MAGIC")
  <2>1. t + Len(rx) = SayLen(c, s) /\ "ERROR_MAGIC" \in ResponseError
    BY <1>1, <1>3, <1>5, <1>7, TableFacts DEF ResponseError
  <2> QED
    BY <1>1, <1>7, <2>1, Refusal
<1>8. CASE /\ \/ /\ Len(got) < Len(Magic)
                 /\ hs_buf' = got
                 /\ Return
                 /\ UNCHANGED ota_state
              \/ /\ Values(got) = Magic
                 /\ Transition("MAGIC_ACK")
                 /\ UNCHANGED <<pc, data_buf>>
           /\ rx' = RxRest(n)
           /\ Silent
           /\ UNCHANGED <<dev, peerVars, ota_features, authVars, updateVars,
                          timeVars, boot>>
  <2>1. /\ rx' = SubSeq(rx, m + 1, Len(rx)) /\ tx' = <<>> /\ dev' = "run" /\ boot' = boot
        /\ has_peer' = has_peer /\ peer' = peer /\ elapsed' = elapsed /\ uptime' = uptime
        /\ auth_in' = auth_in /\ proved' = proved
    BY <1>1, <1>3, <1>5, <1>8 DEF Silent, peerVars, timeVars, authVars
  <2>2. ServerAt(c, s, t + m)' /\ Spells(Held', Said(c, s)) /\ ota_state' # "IDLE"
        /\ ota_state' # "AUTH_READ"
    <3>1. CASE Len(got) < Len(Magic) /\ hs_buf' = got /\ UNCHANGED ota_state
      <4>1. ota_state' = "MAGIC_READ" /\ Held' = got
        BY <1>1, <3>1 DEF Held
      <4> QED
        BY <1>1, <1>3, <1>5, <3>1, <4>1 DEF ServerAt
    <3>2. CASE Values(got) = Magic /\ Transition("MAGIC_ACK")
      <4>1. ota_state' = "MAGIC_ACK" /\ Held' = <<>>
        BY <3>2 DEF Held, Transition
      <4>2. Len(got) = Len(Magic)
        BY <1>3, <3>2, ValuesType
      <4>3. ServerAt(c, s, t + m)'
        BY <1>1, <1>3, <1>5, <4>1, <4>2 DEF ServerAt
      <4>4. Spells(<<>>, Said(c, s))
        BY DEF Spells
      <4> QED
        BY <4>1, <4>3, <4>4
    <3> QED
      BY <1>8, <3>1, <3>2
  <2>3. TakesOn(c, s, t)
    BY <2>1, <2>2 DEF TakesOn
  <2>4. Settled(c)'
    BY <1>1, <1>6, <2>1, <2>2 DEF Serving, Settled
  <2> QED
    BY <2>1, <2>3, <2>4 DEF Moves
<1> QED
  BY <1>7, <1>8 DEF MagicRead, got, n

(* The labels that send a status when the line has been taken.             *)
LEMMA Answering ==
  ASSUME NEW c \in Client, NEW s, NEW t, Serving(c, s, t), ota_state # "IDLE",
         NEW code \in Hear(c, s), NEW n \in Nonce \cup {NoNonce}, SendNonce(code, n),
         t = SayLen(c, s), s < LastLine(c), ServerAt(c, s + 1, 0)', ota_state' # "IDLE",
         UNCHANGED <<dev, peerVars, rx, auth_in, proved, timeVars, boot>>
  PROVE  Moves(c, s, t)
<1>1. has_peer /\ peer = c
  BY ServingFacts
<1>2. /\ dev' = "run" /\ rx' = rx /\ has_peer' = has_peer /\ peer' = peer
      /\ auth_in' = auth_in /\ proved' = proved /\ elapsed' = elapsed /\ uptime' = uptime
      /\ boot' = boot
      /\ tx' = << [to |-> peer, code |-> code, nonce |-> n] >>
  BY DEF Serving, SendNonce, peerVars, timeVars
<1>3. AnswersLine(c, s, t)
  BY <1>2 DEF AnswersLine
<1>4. Settled(c)'
  <2>1. auth_in = <<>>
    <3>1. CASE ota_state = "AUTH_READ"
      <4>1. s = 4 /\ t = Len(auth_in) /\ Password
        BY <3>1 DEF Serving, Reads, ServerAt
      <4>2. ProofEnd = 4
        BY <4>1 DEF ProofEnd
      <4>3. t = AuthLen
        BY <4>1, <4>2, TableFacts
      <4>4. Len(auth_in) < AuthLen /\ AuthLen \in Nat
        BY WireAssumption DEF Serving, TypeOK
      <4> QED
        BY <4>1, <4>3, <4>4
    <3> QED
      BY <3>1 DEF Serving, Settled
  <2> QED
    BY <1>1, <1>2, <2>1 DEF Serving, Settled
<1> QED
  BY <1>2, <1>3, <1>4 DEF Moves

(* A field with what has arrived of it.                                    *)
LEMMA FieldTaken ==
  ASSUME NEW c \in Client, NEW s, NEW t, Serving(c, s, t),
         NEW b \in Seq(Byte), b = Held, Len(b) = t, NEW len \in Nat, len = SayLen(c, s)
  PROVE  /\ \E m \in 0 .. Len(rx) :
              m = Len(rx) /\ RxRest(len - Len(b)) = SubSeq(rx, m + 1, Len(rx))
         /\ b \o RxTake(len - Len(b)) \in Seq(Byte)
         /\ Len(b \o RxTake(len - Len(b))) = t + Len(rx)
         /\ RxTake(len - Len(b)) \in Seq(Byte) /\ Len(RxTake(len - Len(b))) = Len(rx)
         /\ Spells(b \o RxTake(len - Len(b)), Said(c, s))
         /\ t + Len(rx) <= len
<1> DEFINE n == len - Len(b)
<1>1. t \in Nat /\ Len(rx) \in Nat /\ t + Len(rx) <= len
  BY RxFacts DEF Serving, Reads
<1>2. n \in Nat /\ Lesser(n, Len(rx)) = Len(rx) /\ Len(rx) \in 0 .. Len(rx)
  BY <1>1 DEF Lesser
<1>3. Spells(b, Said(c, s))
  BY DEF Serving, Reads
<1> HIDE DEF n
<1>4. RxRest(n) = SubSeq(rx, Len(rx) + 1, Len(rx))
  BY <1>2, <1>3, Taken
<1>5. b \o RxTake(n) \in Seq(Byte)
  BY <1>2, <1>3, Taken
<1>6. Len(b \o RxTake(n)) = t + Len(rx)
  BY <1>2, <1>3, Taken
<1>7. Spells(b \o RxTake(n), Said(c, s))
  BY <1>2, <1>3, Taken
<1>8. RxTake(n) \in Seq(Byte) /\ Len(RxTake(n)) = Len(rx)
  BY <1>2, <1>3, Taken
<1> QED
  BY <1>1, <1>2, <1>4, <1>5, <1>6, <1>7, <1>8 DEF n

(* The answers to the magic bytes and to the features.                     *)
LEMMA AckMoves ==
  ASSUME Reliable, Protocol, NonceTypes, NEW c \in Client, NEW s, NEW t, Serving(c, s, t),
         MagicAck \/ FeatureAck
  PROVE  Moves(c, s, t)
<1>1. ota_state # "IDLE" /\ (MagicAck => ota_state = "MAGIC_ACK")
      /\ (FeatureAck => ota_state = "FEATURE_ACK")
  BY DEF MagicAck, FeatureAck, At
<1>2. has_peer /\ peer = c /\ ~SendFails
  BY <1>1, ServingFacts DEF SendFails, Reliable
<1>3. LastLine(c) \in Nat /\ 2 < LastLine(c)
  BY BlockFacts DEF LastLine
<1>4. NoNonce \in Nonce \cup {NoNonce} /\ elapsed = 0
  BY DEF Serving, Settled
<1>5. CASE MagicAck
  <2>1. s = 1 /\ t = SayLen(c, s) /\ "OK" \in Hear(c, s)
    BY <1>1, <1>5, TableFacts DEF Serving, Reads, ServerAt
  <2>2. /\ SendNonce("OK", NoNonce) /\ ota_state' = "FEATURE_READ"
        /\ UNCHANGED <<dev, peerVars, rx, auth_in, proved, timeVars, boot>>
    BY <1>2, <1>5 DEF MagicAck, SendThen, Send, Transition, authVars
  <2>3. ServerAt(c, s + 1, 0)'
    BY <2>1, <2>2 DEF ServerAt
  <2> QED
    BY <1>1, <1>3, <1>4, <2>1, <2>2, <2>3, Answering
<1>6. CASE FeatureAck
  <2>1. s = 2 /\ t = SayLen(c, s) /\ Hear(c, s) = {"HEADER_OK", "SUPPORTS_COMPRESSION"}
    BY <1>1, <1>6, TableFacts DEF Serving, Reads, ServerAt
  <2>2. PICK code \in Hear(c, s) :
          SendNonce(code, NoNonce) /\ ota_state' = AfterFeatures
    BY <1>2, <1>6, <2>1 DEF FeatureAck, SendThen, Send, Transition
  <2>3. UNCHANGED <<dev, peerVars, rx, auth_in, proved, timeVars, boot>>
    BY <1>4, <1>6 DEF FeatureAck, authVars, timeVars
  <2>4. ServerAt(c, s + 1, 0)'
    <3>1. CASE Password
      BY <2>1, <2>2, <3>1 DEF ServerAt, AfterFeatures
    <3>2. CASE ~Password
      <4>1. ota_state' = "DATA_AUTH_OK" /\ ProofEnd = 3 /\ SayLen(c, 3) = 0 /\ s + 1 = 3
        BY <2>1, <2>2, <3>2, TableFacts DEF AfterFeatures, ProofEnd
      <4> QED
        BY <4>1 DEF ServerAt
    <3> QED
      BY <3>1, <3>2
  <2>5. ota_state' # "IDLE"
    BY <2>2 DEF AfterFeatures
  <2> QED
    BY <1>1, <1>3, <1>4, <2>1, <2>2, <2>3, <2>4, <2>5, Answering
<1> QED
  BY <1>5, <1>6

(* The labels that take one byte, if it has arrived.                       *)
LEMMA ByteMoves ==
  ASSUME Reliable, Protocol, NonceTypes, NEW c \in Client, NEW s, NEW t, Serving(c, s, t),
         FeatureRead \/ DataFinalAck
  PROVE  Moves(c, s, t)
<1>1. /\ FeatureRead => ota_state = "FEATURE_READ" /\ s = 2 /\ t = 0
      /\ DataFinalAck => ota_state = "DATA_FINAL_ACK" /\ s = LastLine(c) /\ t = 0
      /\ ota_state # "IDLE" /\ ota_state # "AUTH_READ"
      /\ Held = <<>>
  BY DEF FeatureRead, DataFinalAck, At, Serving, Reads, ServerAt, Held
<1>2. has_peer /\ peer = c /\ auth_in = <<>>
  BY <1>1, ServingFacts DEF Serving, Settled
<1>3. /\ dev' = "run" /\ tx' = <<>> /\ boot' = boot /\ has_peer' = has_peer /\ peer' = peer
      /\ auth_in' = auth_in /\ proved' = proved /\ elapsed' = elapsed /\ uptime' = uptime
  BY DEF FeatureRead, DataFinalAck, Silent, Serving, heldVars, authVars, peerVars, timeVars
<1>4. CASE rx = <<>> /\ UNCHANGED <<ota_state, rx, hs_buf>>
  <2>1. ServerAt(c, s, t)' /\ Held' = <<>>
    BY <1>1, <1>4 DEF ServerAt, Held, FeatureRead, DataFinalAck
  <2>2. TakesOn(c, s, t)
    BY <1>3, <1>4, <2>1, TakesNothing
  <2>3. Settled(c)'
    BY <1>1, <1>2, <1>3, <1>4 DEF Serving, Settled
  <2> QED
    BY <1>3, <2>2, <2>3 DEF Moves
<1>5. CASE /\ rx # <<>> /\ rx' = Tail(rx)
           /\ ota_state' = IF FeatureRead THEN "FEATURE_ACK" ELSE "DATA_REBOOT"
  <2>1. Tail(rx) = SubSeq(rx, 1 + 1, Len(rx)) /\ 1 \in 0 .. Len(rx)
    BY <1>5, RxFacts
  <2>2. ServerAt(c, s, t + 1)' /\ Spells(Held', Said(c, s)) /\ ota_state' # "IDLE"
        /\ ota_state' # "AUTH_READ"
    <3>1. Held' = <<>> /\ ota_state' \in {"FEATURE_ACK", "DATA_REBOOT"}
      BY <1>5 DEF Held
    <3>2. ServerAt(c, s, t + 1)'
      <4>1. t + 1 = 1
        BY <1>1
      <4>2. CASE FeatureRead
        BY <1>1, <1>5, <4>1, <4>2 DEF ServerAt
      <4>3. CASE ~FeatureRead
        BY <1>1, <1>5, <4>1, <4>3 DEF ServerAt
      <4> QED
        BY <4>2, <4>3
    <3> QED
      BY <3>1, <3>2 DEF Spells
  <2>3. TakesOn(c, s, t)
    BY <1>3, <1>5, <2>1, <2>2 DEF TakesOn
  <2>4. Settled(c)'
    BY <1>1, <1>2, <1>3, <2>2 DEF Serving, Settled
  <2> QED
    BY <1>3, <2>3, <2>4 DEF Moves
<1>6. \/ rx = <<>> /\ UNCHANGED <<ota_state, rx, hs_buf>>
      \/ /\ rx # <<>> /\ rx' = Tail(rx)
         /\ ota_state' = IF FeatureRead THEN "FEATURE_ACK" ELSE "DATA_REBOOT"
  <2>1. CASE FeatureRead
    BY <2>1 DEF FeatureRead, Transition, shakeVars
  <2>2. CASE DataFinalAck
    <3>1. ~FeatureRead
      BY <1>1, <2>2 DEF FeatureRead, At
    <3> QED
      BY <2>2, <3>1 DEF DataFinalAck, Transition
  <2> QED
    BY <2>1, <2>2
<1> QED
  BY <1>4, <1>5, <1>6

(* The challenge is sent, or refused where the node has no SHA256.         *)
LEMMA AuthSendMoves ==
  ASSUME Reliable, NEW c \in Client, NEW s, NEW t, Serving(c, s, t), AuthSend
  PROVE  Moves(c, s, t)
<1>1. /\ ota_state = "AUTH_SEND" /\ s = 3 /\ t = 0 /\ Password /\ ProofEnd = 4
      /\ auth_in = <<>>
  BY DEF AuthSend, At, Serving, Settled, Reads, ServerAt, ProofEnd
<1>2. has_peer /\ peer = c /\ ~SendFails
  BY <1>1, ServingFacts DEF SendFails, Reliable
<1>3. t = SayLen(c, s) /\ t + Len(rx) = SayLen(c, s) /\ s < LastLine(c)
      /\ Hear(c, s) = {"REQUEST_SHA256_AUTH"}
  <2>1. t + Len(rx) <= SayLen(c, s) /\ Len(rx) \in Nat /\ SayLen(c, s) = 0
    BY <1>1, RxFacts, TableFacts DEF Serving, Reads
  <2>2. 3 < LastLine(c)
    BY BlockFacts DEF LastLine
  <2> QED
    BY <1>1, <2>1, <2>2, TableFacts
<1>4. CASE Fail("ERROR_AUTH_INVALID")
  BY <1>1, <1>3, <1>4, Refusal DEF ResponseError
<1>5. ASSUME SendNonce("REQUEST_SHA256_AUTH", auth_nonce'), Transition("AUTH_READ"),
             auth_nonce' \in Nonce \cup {NoNonce},
             UNCHANGED <<dev, peerVars, rx, ota_features, auth_in, proved,
                         updateVars, data_buf, timeVars, boot>>
      PROVE  Moves(c, s, t)
  <2>1. PICK n \in Nonce \cup {NoNonce} : n = auth_nonce'
    BY <1>5
  <2>2. ota_state' = "AUTH_READ" /\ auth_in' = auth_in
    BY <1>5 DEF Transition
  <2>3. ServerAt(c, s + 1, 0)'
    BY <1>1, <2>2 DEF ServerAt
  <2>4. SendNonce("REQUEST_SHA256_AUTH", n) /\ "REQUEST_SHA256_AUTH" \in Hear(c, s)
        /\ UNCHANGED <<dev, peerVars, rx, auth_in, proved, timeVars, boot>>
    BY <1>3, <1>5, <2>1
  <2> QED
    BY <1>1, <1>3, <2>2, <2>3, <2>4, Answering
<1>6. auth_nonce \in Nonce \cup {NoNonce}
  BY DEF Serving, TypeOK
<1> QED
  BY <1>2, <1>4, <1>5, <1>6 DEF AuthSend, Reliable

(* The answer to it is read, and compared once it is there.                *)
LEMMA AuthReadMoves ==
  ASSUME Reliable, Protocol, NonceTypes,
         NEW c \in Client, NEW s, NEW t, Serving(c, s, t), AuthRead,
         auth_nonce \in Nonce
  PROVE  Moves(c, s, t)
<1> DEFINE n == AuthLen - Len(auth_in)
           got == auth_in \o RxTake(n)
<1>1. /\ ota_state = "AUTH_READ" /\ s = 4 /\ t = Len(auth_in) /\ Password /\ ProofEnd = 4
      /\ Held = auth_in
  BY DEF AuthRead, At, Serving, Reads, ServerAt, ProofEnd, Held
<1>2. auth_in \in Seq(Byte) /\ AuthLen \in Nat /\ SayLen(c, s) = AuthLen
  BY <1>1, WireAssumption, TableFacts DEF Serving, TypeOK
<1>3. has_peer /\ peer = c
  BY <1>1, ServingFacts
<1>4. got \in Seq(Byte)
  BY <1>1, <1>2, FieldTaken
<1>5. Len(got) = t + Len(rx) /\ t + Len(rx) <= AuthLen
  BY <1>1, <1>2, FieldTaken
<1>6. Spells(got, Said(c, s))
  BY <1>1, <1>2, FieldTaken
<1>7. PICK m \in 0 .. Len(rx) : m = Len(rx) /\ RxRest(n) = SubSeq(rx, m + 1, Len(rx))
  BY <1>1, <1>2, FieldTaken
<1> HIDE DEF n, got
<1>8. CASE Fail("ERROR_AUTH_INVALID") /\ Len(got) = AuthLen
  BY <1>1, <1>2, <1>5, <1>8, Refusal DEF ResponseError
<1>9. CASE /\ \/ /\ Len(got) < AuthLen
                 /\ auth_in' = got
                 /\ UNCHANGED <<ota_state, hs_buf, auth_nonce, proved, elapsed>>
              \/ /\ Len(got) = AuthLen /\ Answers(got)
                 /\ CleanupAuth
                 /\ proved' = TRUE
                 /\ Transition("DATA_AUTH_OK")
                 /\ elapsed' = 0
           /\ rx' = RxRest(n)
           /\ Return
           /\ Silent
           /\ UNCHANGED <<dev, peerVars, ota_features, updateVars, uptime, boot>>
  <2>1. /\ rx' = SubSeq(rx, m + 1, Len(rx)) /\ tx' = <<>> /\ dev' = "run" /\ boot' = boot
        /\ has_peer' = has_peer /\ peer' = peer /\ elapsed' = 0 /\ uptime' = 0
    BY <1>7, <1>9 DEF Silent, peerVars, Serving, Settled
  <2>2. CASE Len(got) < AuthLen /\ auth_in' = got
             /\ UNCHANGED <<ota_state, hs_buf, auth_nonce, proved, elapsed>>
    <3>1. ota_state' = "AUTH_READ" /\ Held' = got /\ proved' = proved
      BY <1>1, <2>2 DEF Held
    <3>2. ServerAt(c, s, t + m)'
      BY <1>1, <1>5, <1>7, <2>2, <3>1 DEF ServerAt
    <3>3. TakesOn(c, s, t)
      BY <1>6, <2>1, <3>1, <3>2 DEF TakesOn
    <3>4. Settled(c)'
      BY <1>3, <2>1, <3>1 DEF Serving, Settled
    <3> QED
      BY <2>1, <3>3, <3>4 DEF Moves
  <2>3. CASE Len(got) = AuthLen /\ Answers(got) /\ CleanupAuth /\ proved' = TRUE
             /\ Transition("DATA_AUTH_OK")
    <3>1. ota_state' = "DATA_AUTH_OK" /\ Held' = <<>> /\ auth_in' = <<>>
      BY <2>3 DEF Held, Transition, CleanupAuth
    <3>2. Unforgeable => c \in Knows
      <4> SUFFICES ASSUME Unforgeable, c \notin Knows PROVE FALSE
        OBVIOUS
      <4>1. Said(c, s) = WrongReply /\ Said(c, s) \in Seq(Value) /\ Len(Said(c, s)) = AuthLen
        BY <1>1, ScriptTable, BlockFacts, LineTypes DEF Protocol
      <4>2. Values(got) = Said(c, s)
        BY <1>4, <1>6, <2>3, <4>1, Spelled
      <4> QED
        BY <2>3, <4>1, <4>2 DEF Answers, Unforgeable
    <3>3. ServerAt(c, s, t + m)'
      BY <1>1, <1>2, <1>5, <1>7, <2>3, <3>1 DEF ServerAt
    <3>4. Spells(Held', Said(c, s))
      BY <3>1 DEF Spells
    <3>5. TakesOn(c, s, t)
      BY <2>1, <3>3, <3>4 DEF TakesOn
    <3>6. Settled(c)'
      BY <1>3, <2>1, <3>1, <3>2 DEF Serving, Settled
    <3> QED
      BY <2>1, <3>5, <3>6 DEF Moves
  <2> QED
    BY <1>9, <2>2, <2>3
<1> QED
  BY <1>8, <1>9 DEF AuthRead, got, n

(* AUTH_OK.                                                                *)
LEMMA StatusMoves ==
  ASSUME Reliable, NEW c \in Client, NEW s, NEW t, Serving(c, s, t), DataStatus
  PROVE  Moves(c, s, t)
<1> DEFINE b == BlockCount(c)
           code == Status[ota_state].code
           next == Status[ota_state].next
<1>1. ota_state \in {"DATA_AUTH_OK", "DATA_PREPARE_OK", "DATA_MD5_OK", "DATA_RECEIVE_OK",
                     "DATA_END_OK"} /\ pc = "step"
  BY DEF DataStatus, Status, At
<1>2. has_peer /\ peer = c /\ ~SendFails /\ ota_state # "IDLE" /\ ota_state # "AUTH_READ"
  BY <1>1, ServingFacts DEF SendFails, Reliable
<1>3. /\ SendNonce(code, NoNonce) /\ ota_state' = next
      /\ UNCHANGED <<dev, peerVars, rx, auth_in, proved, timeVars, boot>>
      /\ UNCHANGED <<updateVars, data_buf>>
  BY <1>2 DEF DataStatus, SendThen, Send, Transition, heldVars, authVars
<1>4. b \in Nat /\ ProofEnd \in {3, 4} /\ LastLine(c) = ProofEnd + b + 5 /\ BlockSize \in Nat
      /\ Len(ImageOf(c)) \in Nat /\ Len(ImageOf(c)) <= b * BlockSize
      /\ NoNonce \in Nonce \cup {NoNonce}
  BY BlockFacts, LimitAssumption DEF LastLine
<1>5. data_buf = <<>>
  BY <1>1 DEF Serving, TypeOK
<1>6. ota_size' = ota_size /\ firmware_total' = firmware_total /\ md5' = md5
      /\ size_acknowledged' = size_acknowledged /\ data_buf' = <<>>
  BY <1>3, <1>5 DEF updateVars, countVars, slotVars
<1>7. ServerAt(c, s, t)
  BY DEF Serving, Reads
<1> HIDE DEF b
<1>8. /\ t = SayLen(c, s) /\ s < LastLine(c) /\ code \in Hear(c, s)
      /\ ServerAt(c, s + 1, 0)' /\ ota_state' # "IDLE"
  <2>1. CASE ota_state = "DATA_AUTH_OK"
    <3>1. s = ProofEnd /\ t = SayLen(c, s) /\ code = "AUTH_OK" /\ ota_state' = "DATA_SIZE"
      BY <1>3, <1>7, <2>1 DEF ServerAt, Status
    <3>2. ServerAt(c, s + 1, 0)'
      BY <1>6, <3>1 DEF ServerAt
    <3> QED
      BY <1>4, <3>1, <3>2, TableFacts
  <2>2. CASE ota_state = "DATA_PREPARE_OK"
    <3>1. /\ s = ProofEnd + 1 /\ t = SizeLen /\ code = "UPDATE_PREPARE_OK"
          /\ ota_state' = "DATA_MD5" /\ ota_size = Len(ImageOf(c)) /\ firmware_total = 0
          /\ size_acknowledged = 0
      BY <1>3, <1>7, <2>2 DEF ServerAt, Status
    <3>2. s + 1 = ProofEnd + 2
      BY <1>4, <3>1
    <3>3. ServerAt(c, s + 1, 0)'
      BY <1>6, <3>1, <3>2 DEF ServerAt
    <3> QED
      BY <1>4, <3>1, <3>3, TableFacts
  <2>3. CASE ota_state = "DATA_MD5_OK"
    <3>1. /\ s = ProofEnd + 2 /\ t = Md5Len /\ code = "BIN_MD5_OK" /\ md5 = Offer[c]
          /\ ota_state' = "DATA_FIRMWARE" /\ ota_size = Len(ImageOf(c)) /\ firmware_total = 0
          /\ size_acknowledged = 0
      BY <1>3, <1>7, <2>3 DEF ServerAt, Status
    <3>2. ServerAt(c, s + 1, 0)'
      <4>1. CASE b = 0
        <5>1. b * BlockSize = 0 /\ Len(ImageOf(c)) = 0 /\ s + 1 = ProofEnd + 3 + b
          BY <1>4, <3>1, <4>1
        <5> QED
          BY <1>6, <3>1, <5>1 DEF ServerAt, b
      <4>2. CASE b # 0
        <5>1. 1 \in 1 .. b /\ s + 1 = ProofEnd + 2 + 1 /\ (1 - 1) * BlockSize = 0
          BY <1>4, <3>1, <4>2
        <5>2. BlockLen(c, 1) \in 1 .. BlockSize
          BY <5>1, BlockFacts DEF b
        <5>3. 0 <= BlockLen(c, 1) /\ 0 < BlockLen(c, 1) /\ (1 - 1) * BlockSize + 0 = 0
          BY <1>4, <5>1, <5>2
        <5>4. \E k \in 1 .. b :
                /\ s + 1 = ProofEnd + 2 + k
                /\ size_acknowledged' = (k - 1) * BlockSize
                /\ firmware_total' = (k - 1) * BlockSize + 0
                /\ 0 <= BlockLen(c, k) /\ 0 < BlockLen(c, k)
          BY <1>6, <3>1, <5>1, <5>3
        <5> QED
          BY <1>6, <3>1, <5>4 DEF ServerAt, b
      <4> QED
        BY <4>1, <4>2
    <3> QED
      BY <1>4, <3>1, <3>2, TableFacts
  <2>4. CASE ota_state = "DATA_RECEIVE_OK"
    <3>1. /\ s = ProofEnd + 3 + b /\ t = 0 /\ code = "RECEIVE_OK" /\ md5 = Offer[c]
          /\ ota_state' = "DATA_END"
      BY <1>3, <1>7, <2>4 DEF ServerAt, Status, b
    <3>2. s + 1 = ProofEnd + 4 + b
      BY <1>4, <3>1
    <3>3. ServerAt(c, s + 1, 0)'
      BY <1>6, <3>1, <3>2 DEF ServerAt, b
    <3>4. SayLen(c, s) = 0 /\ Hear(c, s) = {"RECEIVE_OK"}
      BY <3>1, TableFacts DEF b
    <3> QED
      BY <1>4, <3>1, <3>3, <3>4
  <2>5. CASE ota_state = "DATA_END_OK"
    <3>1. /\ s = ProofEnd + 4 + b /\ t = 0 /\ code = "UPDATE_END_OK"
          /\ ota_state' = "DATA_FINAL_ACK"
      BY <1>3, <1>7, <2>5 DEF ServerAt, Status, b
    <3>2. s + 1 = LastLine(c)
      BY <1>4, <3>1
    <3>3. ServerAt(c, s + 1, 0)'
      BY <3>1, <3>2 DEF ServerAt
    <3>4. SayLen(c, s) = 0 /\ Hear(c, s) = {"UPDATE_END_OK"}
      BY <3>1, TableFacts DEF b
    <3> QED
      BY <1>4, <3>1, <3>3, <3>4
  <2> QED
    BY <1>1, <2>1, <2>2, <2>3, <2>4, <2>5
<1> QED
  BY <1>2, <1>3, <1>4, <1>8, Answering

(* The fields that readall_() collects: their state, its yield and their   *)
(* length.                                                                 *)
Fields == {<<"DATA_SIZE", "size", SizeLen>>, <<"DATA_MD5", "md5", Md5Len>>}

(* The server reads one of them.                                           *)
LEMMA FieldFacts ==
  ASSUME NEW c \in Client, NEW s, NEW t, Serving(c, s, t),
         NEW state, NEW yield, NEW len, <<state, yield, len>> \in Fields,
         Reading(state, yield)
  PROVE  /\ ota_state = state /\ state \in {"DATA_SIZE", "DATA_MD5"}
         /\ data_buf \in Seq(Byte) /\ data_buf = Held /\ Len(data_buf) = t
         /\ len \in Nat /\ len = SayLen(c, s)
         /\ s = (IF state = "DATA_SIZE" THEN ProofEnd + 1 ELSE ProofEnd + 2)
         /\ has_peer /\ peer = c /\ backend /\ auth_in = <<>>
         /\ ota_state # "IDLE" /\ ota_state # "AUTH_READ"
<1>1. \/ state = "DATA_SIZE" /\ yield = "size" /\ len = SizeLen
      \/ state = "DATA_MD5" /\ yield = "md5" /\ len = Md5Len
  BY DEF Fields
<1>2. ota_state # "IDLE"
  BY <1>1 DEF Reading, At, Serving, Settled
<1>3. ota_state = state
  BY <1>1, <1>2, ServingFacts DEF Reading, At
<1>4. /\ s = (IF state = "DATA_SIZE" THEN ProofEnd + 1 ELSE ProofEnd + 2)
      /\ t = Len(data_buf) /\ Held = data_buf
  BY <1>1, <1>3 DEF Serving, Reads, ServerAt, Held
<1>5. len = SayLen(c, s) /\ len \in Nat
  BY <1>1, <1>4, TableFacts, WireAssumption DEF SizeLen
<1>6. backend
  BY <1>1, <1>2, <1>3, ServingFacts DEF BackendStates, OTAState, OTAHandshake, OTAData
<1>7. data_buf \in Seq(Byte) /\ auth_in = <<>>
  BY <1>1, <1>3 DEF Serving, TypeOK, Settled
<1> QED
  BY <1>1, <1>2, <1>3, <1>4, <1>5, <1>6, <1>7, ServingFacts

(* The field is not complete: readall_() yields.                           *)
LEMMA ReadallMoves ==
  ASSUME Reliable, NEW c \in Client, NEW s, NEW t, Serving(c, s, t),
         NEW state, NEW yield, NEW len, <<state, yield, len>> \in Fields,
         ReadallTimesOut(yield) \/ ReadallYields(state, yield, len)
  PROVE  Moves(c, s, t)
<1>1. ~ReadallTimesOut(yield)
  BY TimeAssumption DEF ReadallTimesOut, TimedOut, Serving, Settled
<1> DEFINE n == len - Len(data_buf)
           got == data_buf \o RxTake(n)
<1>2. /\ Reading(state, yield) /\ Len(got) < len /\ data_buf' = got /\ rx' = RxRest(n)
      /\ pc' = yield /\ tx' = <<>> /\ dev' = dev
      /\ ota_state' = ota_state /\ auth_in' = auth_in /\ has_peer' = has_peer
      /\ peer' = peer /\ elapsed' = elapsed /\ uptime' = uptime /\ proved' = proved
      /\ boot' = boot /\ UNCHANGED updateVars
  BY <1>1 DEF ReadallYields, Silent, heldVars, peerVars, timeVars, authVars
<1>3. /\ ota_state = state /\ state \in {"DATA_SIZE", "DATA_MD5"}
      /\ data_buf \in Seq(Byte) /\ data_buf = Held /\ Len(data_buf) = t
      /\ len \in Nat /\ len = SayLen(c, s)
      /\ has_peer /\ peer = c /\ auth_in = <<>>
  BY <1>2, FieldFacts
<1>4. ota_state # "IDLE" /\ ota_state # "AUTH_READ" /\ dev = "run"
  BY <1>3 DEF Serving
<1>5. Len(got) = t + Len(rx)
  <2>1. data_buf \in Seq(Byte) /\ data_buf = Held /\ Len(data_buf) = t /\ len \in Nat
        /\ len = SayLen(c, s)
    BY <1>3
  <2> DEFINE r == RxTake(len - Len(data_buf))
  <2>2. r \in Seq(Byte) /\ Len(r) = Len(rx)
    BY <2>1, FieldTaken
  <2> HIDE DEF r
  <2>3. Len(data_buf \o r) = t + Len(rx)
    BY <2>1, <2>2
  <2> QED
    BY <2>3 DEF r
<1>6. Spells(got, Said(c, s))
  BY <1>3, FieldTaken
<1>7. PICK m \in 0 .. Len(rx) : m = Len(rx) /\ RxRest(n) = SubSeq(rx, m + 1, Len(rx))
  BY <1>3, FieldTaken
<1> HIDE DEF n, got
<1>8. Held' = got
  BY <1>2, <1>3 DEF Held
<1>9. ServerAt(c, s, t + m)'
  <2>1. ServerAt(c, s, t)
    BY DEF Serving, Reads
  <2>2. UNCHANGED <<ota_size, firmware_total, size_acknowledged>>
    BY <1>2 DEF updateVars, countVars
  <2> QED
    BY <1>2, <1>3, <1>5, <1>7, <2>1, <2>2 DEF ServerAt
<1>10. TakesOn(c, s, t)
  BY <1>2, <1>4, <1>6, <1>7, <1>8, <1>9 DEF TakesOn
<1>11. Settled(c)'
  BY <1>2, <1>3, <1>4 DEF Serving, Settled
<1> QED
  BY <1>2, <1>10, <1>11 DEF Moves

(* The whole of the field has arrived.                                     *)
LEMMA FieldWhole ==
  ASSUME Protocol, NonceTypes, NEW c \in Client, NEW s, NEW t, Serving(c, s, t),
         NEW state, NEW yield, NEW len, <<state, yield, len>> \in Fields,
         ReadallTakes(state, yield, len)
  PROVE  /\ Values(data_buf \o RxTake(len - Len(data_buf))) = Said(c, s)
         /\ data_buf \o RxTake(len - Len(data_buf)) \in Seq(Byte)
         /\ Len(data_buf \o RxTake(len - Len(data_buf))) = len
         /\ t + Len(rx) = len
         /\ \E m \in 0 .. Len(rx) : m = Len(rx) /\ rx' = SubSeq(rx, m + 1, Len(rx))
<1> DEFINE n == len - Len(data_buf)
           got == data_buf \o RxTake(n)
<1>1. Reading(state, yield) /\ Len(data_buf) + Len(rx) >= len /\ rx' = RxRest(n)
  BY DEF ReadallTakes
<1>2. /\ data_buf \in Seq(Byte) /\ data_buf = Held /\ Len(data_buf) = t
      /\ len \in Nat /\ len = SayLen(c, s)
  BY <1>1, FieldFacts
<1>3. got \in Seq(Byte)
  BY <1>2, FieldTaken
<1>4. Len(got) = t + Len(rx) /\ t + Len(rx) <= len
  <2>1. data_buf \in Seq(Byte) /\ data_buf = Held /\ Len(data_buf) = t /\ len \in Nat
        /\ len = SayLen(c, s)
    BY <1>2
  <2> DEFINE r == RxTake(len - Len(data_buf))
  <2>2. r \in Seq(Byte) /\ Len(r) = Len(rx)
    BY <2>1, FieldTaken
  <2> HIDE DEF r
  <2>3. Len(data_buf \o r) = t + Len(rx)
    BY <2>1, <2>2
  <2>4. t + Len(rx) <= len
    BY <2>1, FieldTaken
  <2> QED
    BY <2>3, <2>4 DEF r
<1>5. Spells(got, Said(c, s))
  BY <1>2, FieldTaken
<1>6. PICK m \in 0 .. Len(rx) : m = Len(rx) /\ RxRest(n) = SubSeq(rx, m + 1, Len(rx))
  BY <1>2, FieldTaken
<1> HIDE DEF n, got
<1>7. t + Len(rx) = len
  BY <1>1, <1>2, <1>4, RxFacts
<1>8. Said(c, s) \in Seq(Value) /\ Len(Said(c, s)) = len
  BY <1>2, ScriptTable DEF Serving, Reads
<1>9. Values(got) = Said(c, s)
  BY <1>3, <1>4, <1>5, <1>7, <1>8, Spelled
<1> QED
  BY <1>1, <1>3, <1>4, <1>6, <1>7, <1>9 DEF n, got

(* The size of the image.                                                  *)
LEMMA SizeMoves ==
  ASSUME Reliable, Protocol, NonceTypes, NEW c \in Client, NEW s, NEW t, Serving(c, s, t),
         DataSize
  PROVE  Moves(c, s, t)
<1>1. <<"DATA_SIZE", "size", SizeLen>> \in Fields
  BY DEF Fields
<1>2. CASE ReadallTimesOut("size") \/ ReadallYields("DATA_SIZE", "size", SizeLen)
  BY <1>1, <1>2, ReadallMoves
<1>3. CASE /\ ReadallTakes("DATA_SIZE", "size", SizeLen)
           /\ ota_size' = SizeOf(data_buf \o RxTake(SizeLen - Len(data_buf)))
           /\ Transition("DATA_BEGIN")
           /\ pc' = "step"
           /\ UNCHANGED <<heldVars, backendVars, slotVars,
                          firmware_total, size_acknowledged>>
  <2> DEFINE got == data_buf \o RxTake(SizeLen - Len(data_buf))
             len == Len(ImageOf(c))
  <2>1. Reading("DATA_SIZE", "size") /\ tx' = <<>>
    BY <1>3 DEF ReadallTakes, Silent
  <2>2. /\ ota_state = "DATA_SIZE" /\ s = ProofEnd + 1 /\ has_peer /\ peer = c
        /\ auth_in = <<>> /\ SizeLen = SayLen(c, s)
    BY <1>1, <2>1, FieldFacts
  <2>3. Values(got) = Said(c, s)
    BY <1>1, <1>3, FieldWhole
  <2>4. got \in Seq(Byte) /\ Len(got) = SizeLen /\ t + Len(rx) = SizeLen
    BY <1>1, <1>3, FieldWhole
  <2>5. PICK m \in 0 .. Len(rx) : m = Len(rx) /\ rx' = SubSeq(rx, m + 1, Len(rx))
    BY <1>1, <1>3, FieldWhole
  <2>6. ota_size' = SizeOf(got)
    BY <1>3
  <2> HIDE DEF got
  <2>7. ota_size' = len
    <3>1. Said(c, s) = <<len \div Radix, len % Radix>>
      BY <2>2, ScriptTable
    <3>2. Len(got) = 2 /\ 1 \in 1 .. Len(got) /\ 2 \in 1 .. Len(got)
      BY <2>4 DEF SizeLen
    <3>3. got[1].v = Values(got)[1] /\ got[2].v = Values(got)[2]
      BY <3>2 DEF Values
    <3>4. got[1].v = len \div Radix /\ got[2].v = len % Radix
      BY <2>3, <3>1, <3>3
    <3>5. len \in Nat /\ Radix \in Nat \ {0}
      BY BlockFacts, WireAssumption DEF Protocol
    <3> HIDE DEF len
    <3>6. (len \div Radix) * Radix + (len % Radix) = len
      BY <3>5, Division
    <3> QED
      BY <2>6, <3>4, <3>6 DEF SizeOf
  <2>8. /\ ota_state' = "DATA_BEGIN" /\ auth_in' = auth_in /\ has_peer' = has_peer
        /\ peer' = peer /\ elapsed' = elapsed /\ uptime' = uptime /\ proved' = proved
        /\ boot' = boot /\ dev' = dev
    BY <1>3 DEF Transition, heldVars, peerVars, timeVars, authVars
  <2>9. t + m = SizeLen /\ Held' = <<>>
    BY <2>4, <2>5, <2>8 DEF Held
  <2>10. ServerAt(c, s, t + m)'
    BY <2>2, <2>7, <2>8, <2>9 DEF ServerAt
  <2>11. Spells(Held', Said(c, s)) /\ dev' = "run"
    BY <2>8, <2>9 DEF Spells, Serving
  <2>12. TakesOn(c, s, t)
    BY <2>1, <2>5, <2>10, <2>11 DEF TakesOn
  <2>13. Settled(c)'
    BY <2>2, <2>8 DEF Serving, Settled
  <2> QED
    BY <2>8, <2>12, <2>13 DEF Moves
<1> QED
  BY <1>2, <1>3 DEF DataSize

(* Its digest, with which the update has begun.                            *)
LEMMA Md5Moves ==
  ASSUME Reliable, Protocol, NonceTypes, NEW c \in Client, NEW s, NEW t, Serving(c, s, t),
         DataMd5
  PROVE  Moves(c, s, t)
<1>1. <<"DATA_MD5", "md5", Md5Len>> \in Fields
  BY DEF Fields
<1>2. CASE ReadallTimesOut("md5") \/ ReadallYields("DATA_MD5", "md5", Md5Len)
  BY <1>1, <1>2, ReadallMoves
<1>3. ASSUME ReadallTakes("DATA_MD5", "md5", Md5Len),
             backend => /\ md5' = Values(data_buf \o RxTake(Md5Len - Len(data_buf)))
                        /\ Transition("DATA_MD5_OK")
                        /\ pc' = "step"
                        /\ UNCHANGED dev,
             UNCHANGED <<peerVars, ota_features, authVars, timeVars, boot,
                         backendVars, slot, flash, countVars>>
      PROVE  Moves(c, s, t)
  <2> DEFINE got == data_buf \o RxTake(Md5Len - Len(data_buf))
  <2>1. Reading("DATA_MD5", "md5") /\ tx' = <<>>
    BY <1>3 DEF ReadallTakes, Silent
  <2>2. /\ ota_state = "DATA_MD5" /\ s = ProofEnd + 2 /\ has_peer /\ peer = c
        /\ auth_in = <<>> /\ Md5Len = SayLen(c, s) /\ backend
    BY <1>1, <2>1, FieldFacts
  <2>3. Values(got) = Said(c, s)
    BY <1>1, <1>3, FieldWhole
  <2>4. t + Len(rx) = Md5Len
    BY <1>1, <1>3, FieldWhole
  <2>5. PICK m \in 0 .. Len(rx) : m = Len(rx) /\ rx' = SubSeq(rx, m + 1, Len(rx))
    BY <1>1, <1>3, FieldWhole
  <2>6. Said(c, s) = Offer[c]
    BY <2>2, ScriptTable
  <2>7. md5' = Offer[c]
    BY <1>3, <2>2, <2>3, <2>6
  <2> HIDE DEF got
  <2>8. /\ ota_state' = "DATA_MD5_OK" /\ auth_in' = auth_in /\ has_peer' = has_peer
        /\ peer' = peer /\ elapsed' = elapsed /\ uptime' = uptime /\ proved' = proved
        /\ boot' = boot /\ dev' = dev /\ ota_size' = ota_size
        /\ firmware_total' = firmware_total /\ size_acknowledged' = size_acknowledged
    BY <1>3, <2>2 DEF Transition, peerVars, timeVars, authVars, countVars
  <2>9. t + m = Md5Len /\ Held' = <<>>
    BY <2>4, <2>5, <2>8 DEF Held
  <2>10. ota_size = Len(ImageOf(c)) /\ firmware_total = 0 /\ size_acknowledged = 0
    BY <2>2 DEF Serving, Reads, ServerAt
  <2>11. ServerAt(c, s, t + m)'
    BY <2>2, <2>7, <2>8, <2>9, <2>10 DEF ServerAt
  <2>12. Spells(Held', Said(c, s)) /\ dev' = "run"
    BY <2>8, <2>9 DEF Spells, Serving
  <2>13. TakesOn(c, s, t)
    BY <2>1, <2>5, <2>11, <2>12 DEF TakesOn
  <2>14. Settled(c)'
    BY <2>2, <2>8 DEF Serving, Settled
  <2> QED
    BY <2>8, <2>13, <2>14 DEF Moves
<1>4. backend \/ ~ReadallTakes("DATA_MD5", "md5", Md5Len)
  BY <1>1, FieldFacts DEF ReadallTakes
<1> QED
  BY <1>2, <1>3, <1>4 DEF DataMd5

(* begin(): it accepts the size, or the session ends.                      *)
LEMMA BeginMoves ==
  ASSUME Reliable, NEW c \in Client, NEW s, NEW t, Serving(c, s, t), DataBegin
  PROVE  Moves(c, s, t)
<1>1. /\ ota_state = "DATA_BEGIN" /\ s = ProofEnd + 1 /\ t = SizeLen
      /\ ota_size = Len(ImageOf(c)) /\ ota_state # "IDLE" /\ auth_in = <<>>
  BY DEF DataBegin, At, Serving, Settled, Reads, ServerAt
<1>2. backend /\ has_peer /\ peer = c
  BY <1>1, ServingFacts DEF BackendStates, OTAState, OTAHandshake, OTAData
<1>3. t = SayLen(c, s) /\ t + Len(rx) = SayLen(c, s)
  <2>1. SayLen(c, s) = SizeLen /\ SizeLen = 2
    BY <1>1, TableFacts DEF SizeLen
  <2>2. t + Len(rx) <= SayLen(c, s) /\ Len(rx) \in Nat
    BY RxFacts DEF Serving, Reads
  <2> QED
    BY <1>1, <2>1, <2>2
<1>4. CASE Fail("ERROR_BACKEND")
  BY <1>1, <1>3, <1>4, Refusal DEF ResponseError
<1>5. CASE /\ update_started' = TRUE
           /\ firmware_total' = 0
           /\ size_acknowledged' = 0
           /\ Transition("DATA_PREPARE_OK")
           /\ Silent
           /\ UNCHANGED <<heldVars, pc, rx, backend, ota_size, data_buf>>
  <2>1. /\ ota_state' = "DATA_PREPARE_OK" /\ tx' = <<>> /\ dev' = dev /\ rx' = rx
        /\ has_peer' = has_peer /\ peer' = peer /\ auth_in' = auth_in /\ proved' = proved
        /\ elapsed' = elapsed /\ uptime' = uptime /\ boot' = boot /\ ota_size' = ota_size
        /\ firmware_total' = 0 /\ size_acknowledged' = 0
    BY <1>5 DEF Transition, Silent, heldVars, peerVars, authVars, timeVars
  <2>2. ServerAt(c, s, t)'
    BY <1>1, <2>1 DEF ServerAt
  <2>3. Held' = <<>> /\ dev' = "run"
    BY <2>1 DEF Held, Serving
  <2>4. TakesOn(c, s, t)
    BY <2>1, <2>2, <2>3, TakesNothing
  <2>5. Settled(c)'
    BY <1>1, <1>2, <2>1 DEF Serving, Settled
  <2> QED
    BY <2>1, <2>4, <2>5 DEF Moves
<1> QED
  BY <1>2, <1>4, <1>5 DEF DataBegin

(* end(): what was written is the image of the announced digest, or the    *)
(* session ends.                                                           *)
LEMMA EndMoves ==
  ASSUME Reliable, NEW c \in Client, NEW s, NEW t, Serving(c, s, t), DataEnd
  PROVE  Moves(c, s, t)
<1>1. /\ ota_state = "DATA_END" /\ s = ProofEnd + 4 + BlockCount(c) /\ t = 0
      /\ md5 = Offer[c] /\ ota_state # "IDLE" /\ auth_in = <<>>
  BY DEF DataEnd, At, Serving, Settled, Reads, ServerAt
<1>2. has_peer /\ peer = c /\ (Unforgeable /\ Password => c \in Knows)
  BY <1>1, ServingFacts DEF OTAData
<1>3. t + Len(rx) = SayLen(c, s)
  <2>1. SayLen(c, s) = 0
    BY <1>1, TableFacts
  <2>2. t + Len(rx) <= SayLen(c, s) /\ Len(rx) \in Nat
    BY RxFacts DEF Serving, Reads
  <2> QED
    BY <1>1, <2>1, <2>2
<1>4. CASE Fail("ERROR_BACKEND")
  BY <1>1, <1>3, <1>4, Refusal DEF ResponseError
<1>5. CASE /\ ImageAccepted
           /\ boot' = flash
           /\ Transition("DATA_END_OK")
           /\ Silent
           /\ UNCHANGED <<dev, pc, peerVars, rx, ota_features, authVars,
                          backendVars, md5, flash, countVars, data_buf, timeVars>>
  <2>1. /\ ota_state' = "DATA_END_OK" /\ tx' = <<>> /\ dev' = dev /\ rx' = rx
        /\ has_peer' = has_peer /\ peer' = peer /\ auth_in' = auth_in /\ proved' = proved
        /\ elapsed' = elapsed /\ uptime' = uptime
    BY <1>5 DEF Transition, Silent, peerVars, authVars, timeVars
  <2>2. boot' = ImageOf(c)
    BY <1>1, <1>5 DEF ImageAccepted, ImageOf
  <2>3. ServerAt(c, s, t)'
    BY <1>1, <2>1 DEF ServerAt
  <2>4. Held' = <<>> /\ dev' = "run"
    BY <2>1 DEF Held, Serving
  <2>5. TakesOn(c, s, t)
    BY <2>1, <2>3, <2>4, TakesNothing
  <2>6. Settled(c)'
    BY <1>1, <1>2, <2>1 DEF Serving, Settled
  <2> QED
    BY <1>2, <2>2, <2>5, <2>6 DEF Moves
<1> QED
  BY <1>4, <1>5 DEF DataEnd

(* The node restarts into what it has written.                             *)
LEMMA RebootMoves ==
  ASSUME Reliable, NEW c \in Client, NEW s, NEW t, Serving(c, s, t), DataReboot
  PROVE  Moves(c, s, t)
<1>1. ota_state = "DATA_REBOOT" /\ s = LastLine(c) /\ t = 1
  BY DEF DataReboot, At, Serving, Reads, ServerAt
<1>2. /\ dev' = "off" /\ rx' = <<>> /\ tx' = <<>> /\ ota_state' = "IDLE" /\ has_peer' = FALSE
      /\ auth_in' = <<>> /\ proved' = FALSE /\ elapsed' = 0 /\ uptime' = 0 /\ pc' = "main"
      /\ boot' = boot
  BY DEF DataReboot, Cleanup, ClearSession, CleanupAuth, Transition, Return, Silent, Serving,
         Settled
<1>3. GoesDown(c, s, t)
  BY <1>1, <1>2 DEF GoesDown
<1>4. Settled(c)'
  BY <1>2 DEF Settled
<1> QED
  BY <1>2, <1>3, <1>4 DEF Moves

(* Where in the image the server is while it writes it.                    *)
LEMMA WritingFacts ==
  ASSUME NEW c \in Client, NEW s, NEW t, Serving(c, s, t), ota_state = "DATA_FIRMWARE"
  PROVE  /\ ota_size = Len(ImageOf(c)) /\ md5 = Offer[c] /\ ota_size \in Nat
         /\ firmware_total \in Nat /\ size_acknowledged \in Nat
         /\ t \in Nat /\ Len(rx) \in Nat /\ t + Len(rx) <= SayLen(c, s)
         /\ has_peer /\ peer = c /\ Held = <<>> /\ auth_in = <<>>
         /\ \/ \E k \in 1 .. BlockCount(c) :
                 /\ s = ProofEnd + 2 + k
                 /\ SayLen(c, s) = BlockLen(c, k)
                 /\ size_acknowledged = (k - 1) * BlockSize
                 /\ firmware_total = (k - 1) * BlockSize + t
                 /\ t <= BlockLen(c, k) /\ (pc = "chunks" \/ t < BlockLen(c, k))
                 /\ (t < BlockLen(c, k) => firmware_total < ota_size)
            \/ /\ s = ProofEnd + 3 + BlockCount(c) /\ t = 0
               /\ size_acknowledged = BlockCount(c) * BlockSize
               /\ firmware_total = ota_size
<1>1. has_peer /\ peer = c /\ Held = <<>> /\ auth_in = <<>>
  BY ServingFacts DEF Held, Serving, Settled
<1>2. /\ ota_size \in Nat /\ firmware_total \in Nat /\ size_acknowledged \in Nat
      /\ t \in Nat /\ Len(rx) \in Nat /\ t + Len(rx) <= SayLen(c, s)
  BY RxFacts DEF Serving, TypeOK, Reads
<1>3. ServerAt(c, s, t)
  BY DEF Serving, Reads
<1>4. /\ ota_size = Len(ImageOf(c)) /\ md5 = Offer[c]
      /\ \/ \E k \in 1 .. BlockCount(c) :
              /\ s = ProofEnd + 2 + k
              /\ size_acknowledged = (k - 1) * BlockSize
              /\ firmware_total = (k - 1) * BlockSize + t
              /\ t <= BlockLen(c, k) /\ (pc = "chunks" \/ t < BlockLen(c, k))
         \/ /\ s = ProofEnd + 3 + BlockCount(c) /\ t = 0
            /\ size_acknowledged = BlockCount(c) * BlockSize
            /\ firmware_total = ota_size
  BY <1>3 DEF ServerAt
<1>5. ASSUME NEW k \in 1 .. BlockCount(c), s = ProofEnd + 2 + k,
             firmware_total = (k - 1) * BlockSize + t
      PROVE  /\ SayLen(c, s) = BlockLen(c, k)
             /\ t < BlockLen(c, k) => firmware_total < ota_size
  <2>1. SayLen(c, s) = BlockLen(c, k)
    BY <1>5, TableFacts
  <2>2. /\ (k - 1) * BlockSize \in Nat /\ k * BlockSize \in Nat /\ BlockLen(c, k) \in 1 .. BlockSize
        /\ (k - 1) * BlockSize + BlockLen(c, k) = Lesser(k * BlockSize, Len(ImageOf(c)))
    BY BlockFacts
  <2> DEFINE base == (k - 1) * BlockSize
             next == k * BlockSize
             bl == BlockLen(c, k)
  <2>3. base \in Nat /\ next \in Nat /\ bl \in Nat /\ base + bl = Lesser(next, ota_size)
        /\ firmware_total = base + t /\ BlockSize \in Nat
    BY <1>4, <1>5, <2>2, LimitAssumption
  <2> HIDE DEF base, next, bl
  <2>4. t < bl => firmware_total < ota_size
    BY <1>2, <2>3 DEF Lesser
  <2> QED
    BY <2>1, <2>4 DEF bl
<1> QED
  BY <1>1, <1>2, <1>4, <1>5

(* A piece of a block is written; the last one of the image ends the data  *)
(* phase.                                                                  *)
LEMMA FirmwareMoves ==
  ASSUME Reliable, Protocol, NEW c \in Client, NEW s, NEW t, Serving(c, s, t), DataFirmware
  PROVE  Moves(c, s, t)
<1> DEFINE n == Lesser(ota_size - firmware_total, BufSize)
<1>1. ota_state = "DATA_FIRMWARE" /\ ota_state # "IDLE" /\ pc = "step" /\ dev = "run"
  BY DEF DataFirmware, At
<1>2. /\ ota_size = Len(ImageOf(c)) /\ md5 = Offer[c] /\ ota_size \in Nat
      /\ firmware_total \in Nat /\ t \in Nat /\ Len(rx) \in Nat /\ t + Len(rx) <= SayLen(c, s)
      /\ has_peer /\ peer = c /\ Held = <<>> /\ auth_in = <<>>
  BY <1>1, WritingFacts
<1>3. \/ \E k \in 1 .. BlockCount(c) :
           /\ s = ProofEnd + 2 + k
           /\ SayLen(c, s) = BlockLen(c, k)
           /\ size_acknowledged = (k - 1) * BlockSize
           /\ firmware_total = (k - 1) * BlockSize + t
           /\ t < BlockLen(c, k) /\ t <= BlockLen(c, k)
           /\ firmware_total < ota_size
      \/ /\ s = ProofEnd + 3 + BlockCount(c) /\ t = 0
         /\ size_acknowledged = BlockCount(c) * BlockSize
         /\ firmware_total = ota_size
  BY <1>1, WritingFacts
<1>4. /\ has_peer' = has_peer /\ peer' = peer /\ auth_in' = auth_in /\ proved' = proved
      /\ elapsed' = elapsed /\ uptime' = uptime /\ boot' = boot /\ dev' = "run" /\ tx' = <<>>
      /\ ota_size' = ota_size /\ size_acknowledged' = size_acknowledged /\ md5' = md5
  BY <1>1 DEF DataFirmware, Reliable, Silent, heldVars, peerVars, authVars, timeVars,
              updateVars, countVars, slotVars
<1>5. CASE firmware_total >= ota_size /\ Transition("DATA_RECEIVE_OK") /\ rx' = rx
  <2>1. s = ProofEnd + 3 + BlockCount(c) /\ t = 0
    BY <1>2, <1>3, <1>5
  <2>2. ota_state' = "DATA_RECEIVE_OK"
    BY <1>5 DEF Transition
  <2>3. ServerAt(c, s, t)' /\ Held' = <<>>
    BY <1>2, <1>4, <2>1, <2>2 DEF ServerAt, Held
  <2>4. TakesOn(c, s, t)
    BY <1>4, <1>5, <2>3, TakesNothing
  <2>5. Settled(c)'
    BY <1>1, <1>2, <1>4, <2>2 DEF Serving, Settled
  <2> QED
    BY <1>4, <2>4, <2>5 DEF Moves
<1>6. CASE ota_state' = ota_state /\ rx' = rx /\ firmware_total' = firmware_total
  <2>1. ServerAt(c, s, t)' /\ Held' = <<>>
    BY <1>1, <1>2, <1>3, <1>4, <1>6 DEF ServerAt, Held
  <2>2. TakesOn(c, s, t)
    BY <1>4, <1>6, <2>1, TakesNothing
  <2>3. Settled(c)'
    BY <1>1, <1>2, <1>4, <1>6 DEF Serving, Settled
  <2> QED
    BY <1>4, <2>2, <2>3 DEF Moves
<1>7. CASE /\ firmware_total < ota_size
           /\ rx' = RxRest(n)
           /\ firmware_total' = firmware_total + Len(RxTake(n))
           /\ ota_state' = ota_state
           /\ pc' = IF Version = 2 THEN "chunks" ELSE "main"
  <2>1. n \in Nat
    BY <1>2, <1>7, LimitAssumption DEF Lesser
  <2>2. PICK m \in 0 .. Len(rx) : m = Lesser(n, Len(rx))
    BY <1>2, <2>1 DEF Lesser
  <2>3. rx' = SubSeq(rx, m + 1, Len(rx))
    BY <1>7, <2>2 DEF RxRest
  <2>4. Len(RxTake(n)) = m
    <3>1. <<>> \in Seq(Byte) /\ n \in Nat
      BY <2>1
    <3>2. rx \in Seq(Byte)
      BY RxFacts
    <3> HIDE DEF n
    <3> QED
      BY <3>1, <3>2, <2>2, RxSplit, <1>2 DEF RxTake
  <2>5. PICK k \in 1 .. BlockCount(c) :
          /\ s = ProofEnd + 2 + k
          /\ SayLen(c, s) = BlockLen(c, k)
          /\ size_acknowledged = (k - 1) * BlockSize
          /\ firmware_total = (k - 1) * BlockSize + t
    BY <1>2, <1>3, <1>7
  <2>6. (k - 1) * BlockSize \in Nat /\ BlockLen(c, k) \in Nat
    <3>1. BlockLen(c, k) \in 1 .. BlockSize /\ BlockSize \in Nat
      BY BlockFacts, LimitAssumption
    <3> QED
      BY <3>1, BlockFacts
  <2>7. firmware_total' = (k - 1) * BlockSize + (t + m) /\ t + m <= BlockLen(c, k)
    <3> DEFINE base == (k - 1) * BlockSize
               bl == BlockLen(c, k)
    <3>1. /\ base \in Nat /\ bl \in Nat /\ firmware_total = base + t /\ t + Len(rx) <= bl
          /\ firmware_total' = firmware_total + m
      BY <1>2, <1>7, <2>4, <2>5, <2>6
    <3> HIDE DEF base, bl
    <3>2. firmware_total' = base + (t + m) /\ t + m <= bl
      BY <1>2, <2>2, <3>1
    <3> QED
      BY <3>2 DEF base, bl
  <2>8. ServerAt(c, s, t + m)'
    <3>1. ota_state' = "DATA_FIRMWARE" /\ pc' = "chunks" /\ ota_size' = Len(ImageOf(c))
          /\ md5' = Offer[c] /\ size_acknowledged' = (k - 1) * BlockSize
      BY <1>1, <1>2, <1>4, <1>7, <2>5 DEF Protocol
    <3> QED
      BY <2>5, <2>7, <3>1 DEF ServerAt
  <2>9. Held' = <<>> /\ Spells(Held', Said(c, s))
    BY <1>1, <1>7 DEF Held, Spells
  <2>10. TakesOn(c, s, t)
    BY <1>4, <2>3, <2>8, <2>9 DEF TakesOn
  <2>11. Settled(c)'
    BY <1>1, <1>2, <1>4, <1>7 DEF Serving, Settled
  <2> QED
    BY <1>4, <2>10, <2>11 DEF Moves
<1> QED
  BY <1>5, <1>6, <1>7 DEF DataFirmware, Reliable, updateVars, countVars

(* CHUNK_OK is sent when the block is complete, and not before.            *)
LEMMA ChunkMoves ==
  ASSUME Reliable, NEW c \in Client, NEW s, NEW t, Serving(c, s, t), DataChunkOk
  PROVE  Moves(c, s, t)
<1> DEFINE b == BlockCount(c)
           len == Len(ImageOf(c))
<1>1. pc = "chunks" /\ dev = "run"
  BY DEF DataChunkOk
<1>2. ota_state = "DATA_FIRMWARE" /\ ota_state # "IDLE"
  <2>1. ota_state # "IDLE"
    BY <1>1 DEF Serving, Settled
  <2> QED
    BY <1>1, <2>1, ServingFacts
<1>3. /\ ota_size = len /\ md5 = Offer[c] /\ ota_size \in Nat
      /\ firmware_total \in Nat /\ size_acknowledged \in Nat
      /\ t \in Nat /\ Len(rx) \in Nat /\ t + Len(rx) <= SayLen(c, s)
      /\ has_peer /\ peer = c /\ Held = <<>> /\ auth_in = <<>>
  BY <1>2, WritingFacts
<1>4. /\ UNCHANGED <<dev, peerVars, rx, auth_in, proved, timeVars, boot>>
      /\ ota_state' = ota_state /\ ota_size' = ota_size /\ md5' = md5
      /\ firmware_total' = firmware_total
  BY DEF DataChunkOk, heldVars, authVars, slotVars
<1>5. b \in Nat /\ BlockSize \in Nat \ {0} /\ LastLine(c) = ProofEnd + b + 5
      /\ ProofEnd \in {3, 4} /\ len <= b * BlockSize
  BY BlockFacts, LimitAssumption DEF LastLine
<1>6. CASE /\ ChunkDue
           /\ Send("CHUNK_OK")
           /\ size_acknowledged' = size_acknowledged + BlockSize
           /\ pc' = pc
  <2>1. PICK k \in 1 .. b :
          /\ s = ProofEnd + 2 + k
          /\ SayLen(c, s) = BlockLen(c, k)
          /\ size_acknowledged = (k - 1) * BlockSize
          /\ firmware_total = (k - 1) * BlockSize + t
          /\ t <= BlockLen(c, k) /\ (t < BlockLen(c, k) => firmware_total < ota_size)
    <3>1. ~( /\ size_acknowledged = b * BlockSize
             /\ firmware_total = ota_size)
      <4>1. b * BlockSize \in Nat
        BY <1>5
      <4> HIDE DEF b
      <4> QED
        BY <1>3, <1>5, <1>6, <4>1 DEF ChunkDue
    <3> QED
      BY <1>2, <3>1, WritingFacts
  <2> DEFINE base == (k - 1) * BlockSize
             bl == BlockLen(c, k)
             next == k * BlockSize
  <2>2. /\ base \in Nat /\ next \in Nat /\ bl \in 1 .. BlockSize
        /\ next = base + BlockSize /\ base + bl = Lesser(next, len)
    BY BlockFacts
  <2>3. size_acknowledged = base /\ firmware_total = base + t /\ t <= bl
        /\ (t < bl => firmware_total < ota_size)
    BY <2>1
  <2> HIDE DEF base, bl, next
  <2>4. t = bl
    <3> SUFFICES ASSUME t < bl PROVE FALSE
      BY <1>3, <1>5, <2>2, <2>3
    <3>1. base + BlockSize <= base + t \/ base + t = ota_size
      BY <1>6, <2>3 DEF ChunkDue
    <3> QED
      BY <1>3, <1>5, <2>2, <2>3, <3>1
  <2>5. t = SayLen(c, s) /\ s < LastLine(c) /\ Hear(c, s) = {"CHUNK_OK"}
    <3>1. Hear(c, s) = {"CHUNK_OK"}
      BY <2>1, TableFacts
    <3> HIDE DEF b
    <3> QED
      BY <1>5, <2>1, <2>4, <3>1 DEF bl
  <2>6. size_acknowledged' = next
    BY <1>6, <2>2, <2>3
  <2>7. ServerAt(c, s + 1, 0)'
    <3>1. /\ ota_state' = "DATA_FIRMWARE" /\ ota_size' = len /\ md5' = Offer[c] /\ pc' = "chunks"
          /\ firmware_total' = Lesser(next, len)
      BY <1>1, <1>2, <1>3, <1>4, <1>6, <2>2, <2>3, <2>4
    <3>2. CASE k = b
      <4>1. s + 1 = ProofEnd + 3 + b
        <5> HIDE DEF b
        <5> QED
          BY <1>5, <2>1, <3>2
      <4>2. firmware_total' = ota_size' /\ size_acknowledged' = b * BlockSize
        <5>1. next = b * BlockSize /\ len <= next
          BY <1>5, <3>2 DEF next
        <5> QED
          BY <1>3, <2>2, <2>6, <3>1, <5>1 DEF Lesser
      <4> QED
        BY <3>1, <4>1, <4>2 DEF ServerAt
    <3>3. CASE k # b
      <4> DEFINE i == k + 1
      <4>1. i \in 1 .. b /\ s + 1 = ProofEnd + 2 + i /\ (i - 1) * BlockSize = next
        <5>1. i - 1 = k
          OBVIOUS
        <5>2. (i - 1) * BlockSize = next
          BY <5>1 DEF next
        <5> HIDE DEF b
        <5>3. i \in 1 .. b /\ s + 1 = ProofEnd + 2 + i
          BY <1>5, <2>1, <3>3
        <5> QED
          BY <5>2, <5>3
      <4>2. next < len /\ BlockLen(c, i) \in 1 .. BlockSize
        BY <4>1, BlockFacts
      <4> HIDE DEF i
      <4>3. firmware_total' = (i - 1) * BlockSize + 0
        BY <1>3, <2>2, <3>1, <4>1, <4>2 DEF Lesser
      <4>4. 0 <= BlockLen(c, i)
        BY <1>5, <4>2
      <4>5. size_acknowledged' = (i - 1) * BlockSize
        BY <2>6, <4>1
      <4> QED
        BY <3>1, <4>1, <4>3, <4>4, <4>5 DEF ServerAt
    <3> QED
      BY <3>2, <3>3
  <2>8. SendNonce("CHUNK_OK", NoNonce) /\ NoNonce \in Nonce \cup {NoNonce}
        /\ "CHUNK_OK" \in Hear(c, s) /\ ota_state' # "IDLE"
    BY <1>2, <1>4, <1>6, <2>5 DEF Send
  <2> QED
    BY <1>2, <1>4, <2>5, <2>7, <2>8, Answering
<1>7. CASE ~ChunkDue /\ Silent /\ pc' = "main" /\ size_acknowledged' = size_acknowledged
  <2>1. ServerAt(c, s, t)'
    <3>1. \/ \E k \in 1 .. b :
               /\ s = ProofEnd + 2 + k
               /\ size_acknowledged = (k - 1) * BlockSize
               /\ firmware_total = (k - 1) * BlockSize + t
               /\ t <= BlockLen(c, k) /\ t < BlockLen(c, k)
          \/ /\ s = ProofEnd + 3 + b /\ t = 0
             /\ size_acknowledged = b * BlockSize
             /\ firmware_total = ota_size
      <4> SUFFICES ASSUME NEW k \in 1 .. b, s = ProofEnd + 2 + k,
                          size_acknowledged = (k - 1) * BlockSize,
                          firmware_total = (k - 1) * BlockSize + t,
                          t <= BlockLen(c, k), SayLen(c, s) = BlockLen(c, k)
                   PROVE  t < BlockLen(c, k)
        BY <1>2, WritingFacts
      <4> DEFINE base == (k - 1) * BlockSize
                 bl == BlockLen(c, k)
                 next == k * BlockSize
      <4>1. /\ base \in Nat /\ next \in Nat /\ bl \in 1 .. BlockSize
            /\ next = base + BlockSize /\ base + bl = Lesser(next, len)
        BY BlockFacts
      <4>2. size_acknowledged = base /\ firmware_total = base + t /\ t <= bl
        OBVIOUS
      <4> HIDE DEF base, bl, next, b
      <4>3. t # bl
        <5> SUFFICES ASSUME t = bl PROVE FALSE
          OBVIOUS
        <5>1. firmware_total = Lesser(next, ota_size)
          BY <1>3, <4>1, <4>2
        <5>2. CASE next <= ota_size
          BY <1>5, <1>7, <4>1, <4>2, <5>1, <5>2 DEF ChunkDue, Lesser
        <5>3. CASE ~(next <= ota_size)
          <6>1. firmware_total = ota_size /\ size_acknowledged < ota_size
            BY <1>3, <1>5, <4>1, <4>2, <5>1, <5>3 DEF Lesser
          <6> QED
            BY <1>7, <6>1 DEF ChunkDue
        <5> QED
          BY <5>2, <5>3
      <4>4. t < bl
        BY <1>3, <1>5, <4>1, <4>2, <4>3
      <4> QED
        BY <4>4 DEF bl
    <3>2. /\ ota_state' = "DATA_FIRMWARE" /\ ota_size' = len /\ md5' = Offer[c]
          /\ size_acknowledged' = size_acknowledged /\ firmware_total' = firmware_total
          /\ ota_size' = ota_size
      BY <1>2, <1>3, <1>4, <1>7
    <3> QED
      BY <3>1, <3>2 DEF ServerAt
  <2>2. Held' = <<>> /\ tx' = <<>> /\ dev' = "run" /\ rx' = rx /\ boot' = boot
    BY <1>1, <1>2, <1>4, <1>7 DEF Held, Silent
  <2>3. TakesOn(c, s, t)
    BY <2>1, <2>2, TakesNothing
  <2>4. Settled(c)'
    BY <1>2, <1>3, <1>4 DEF Serving, Settled, peerVars, timeVars
  <2> QED
    BY <2>2, <2>3, <2>4 DEF Moves
<1>8. has_peer
  BY <1>3
<1> QED
  BY <1>6, <1>7, <1>8 DEF DataChunkOk, SendFails, Reliable

(* Every step of the server's state machine is one of the four moves.      *)
LEMMA ServerMoves ==
  ASSUME Reliable, Protocol, NonceTypes, NEW c \in Client, NEW s, NEW t, Serving(c, s, t),
         ota_state = "AUTH_READ" => auth_nonce \in Nonce, Device
  PROVE  Moves(c, s, t)
<1>1. ~Setup
  BY DEF Setup, Serving
<1>2. CASE StartSession \/ LoopHandshake \/ LoopData
  BY <1>2, LoopMoves
<1>3. CASE HandshakeStep
  <2>1. AuthRead => auth_nonce \in Nonce
    BY DEF AuthRead, At
  <2> QED
    BY <1>3, <2>1, MagicReadMoves, AckMoves, ByteMoves, AuthSendMoves, AuthReadMoves
       DEF HandshakeStep
<1>4. CASE DataStep
  BY <1>4, StatusMoves, SizeMoves, BeginMoves, Md5Moves, FirmwareMoves, ChunkMoves, EndMoves,
     ByteMoves, RebootMoves DEF DataStep
<1> QED
  BY <1>1, <1>2, <1>3, <1>4 DEF Device

(* Outside a session, with nothing to read, the server has nothing to do.  *)
LEMMA IdleRests ==
  ASSUME dev = "run", pc = "main", ota_state = "IDLE", rx = <<>>
  PROVE  ~Device
BY DEF Device, Setup, StartSession, LoopHandshake, LoopData, HandshakeStep, MagicRead, MagicAck,
       FeatureRead, FeatureAck, AuthSend, AuthRead, DataStep, DataStatus, DataSize, DataBegin,
       DataMd5, DataFirmware, DataChunkOk, DataEnd, DataFinalAck, DataReboot, At, Reading,
       ReadallTimesOut, ReadallYields, ReadallTakes, OTAHandshake, OTAData

(* Only a node that runs goes round its loop.                              *)
LEMMA DeviceRuns ==
  ASSUME Device, ~Setup
  PROVE  dev = "run"
BY DEF Device, StartSession, LoopHandshake, LoopData, HandshakeStep, MagicRead, MagicAck,
       FeatureRead, FeatureAck, AuthSend, AuthRead, DataStep, DataStatus, DataSize, DataBegin,
       DataMd5, DataFirmware, DataChunkOk, DataEnd, DataFinalAck, DataReboot, At, Reading,
       ReadallTimesOut, ReadallYields, ReadallTakes, AtLoop

------------------------------------------------------------------------------
(* The client and the server together.                                     *)

(* Where the only client is, and what is on the way between it and the     *)
(* server.  It is saying the line that the server reads, and what is       *)
(* unread of it is on the way:                                             *)
Saying(c, s, t) ==
  /\ step[c] = s /\ down[c] = <<>>
  /\ said[c] <= SayLen(c, s) /\ (s = LastLine(c) => said[c] = 0)
  /\ Way(rx, net, t, Said(c, s), said[c])
  /\ Spells(Held, Said(c, s))

(* or the server has gone on, up to line z, over lines that say nothing,   *)
(* and its answers are on the way;                                         *)
Answered(c, z) ==
  /\ said[c] = SayLen(c, step[c])
  /\ \A k \in step[c] + 1 .. z - 1 : SayLen(c, k) = 0
  /\ \A i \in 1 .. z - step[c] : down[c][i].code \in Hear(c, step[c] + i - 1)
Silence == rx = <<>> /\ net = <<>>
Ahead(c, s, t) ==
  /\ step[c] \in 1 .. s - 1
  /\ Len(down[c]) = s - step[c] /\ Answered(c, s)
  /\ t = 0 /\ Silence

(* or it has said its last word, and that is on the way.                   *)
Leaving(c, s, t) ==
  /\ s = LastLine(c) /\ step[c] = s + 1
  /\ Way(rx, net, t, Said(c, s), 1)

Talking(c, s, t) ==
  /\ dev = "run" /\ s \in 1 .. LastLine(c) /\ t \in Nat /\ ServerAt(c, s, t)
  /\ Saying(c, s, t) \/ Ahead(c, s, t) \/ Leaving(c, s, t)

(* Without a session nothing is on the way but, after a refusal, the       *)
(* answers up to it.                                                       *)
Quiet(c) ==
  /\ ota_state = "IDLE" /\ Silence
  /\ \/ step[c] = 0 \/ step[c] = LastLine(c) + 1
     \/ /\ dev = "run"
        /\ \E z \in 1 .. LastLine(c) :
             /\ step[c] \in 1 .. z /\ Answered(c, z)
             /\ step[c] # z => SayLen(c, z) = 0
             /\ Len(down[c]) = z - step[c] + 1
             /\ down[c][z - step[c] + 1].code \in ResponseError

(* The inductive invariant: the client and the server are at the same      *)
(* line, up to what is on the way between them, or there is no session and *)
(* nothing on the way.                                                     *)
Joint(c) ==
  /\ Quiet(c) \/ \E s \in 1 .. LastLine(c), t \in Nat : Talking(c, s, t)
  /\ Settled(c)
  /\ dev \in {"boot", "run", "off"} /\ repeats = 0
  /\ \A i \in 1 .. Len(net) : net[i].from = c
  /\ step[c] # 0 => tries[c] > 0
  /\ boot # <<>> =>
       boot = ImageOf(c) /\ tries[c] > 0 /\ (Unforgeable /\ Password => c \in Knows)

(* Every line fits into the receive buffer, and no refusal is taken for an *)
(* answer.                                                                 *)
LEMMA LineFits ==
  ASSUME Protocol, NEW c \in Client, NEW k \in 1 .. LastLine(c)
  PROVE  /\ SayLen(c, k) \in Nat /\ SayLen(c, k) <= RxRingMax
         /\ k # LastLine(c) => Hear(c, k) # {}
         /\ Hear(c, k) \cap ResponseError = {}
<1>1. RxRingMax \in Nat /\ AuthLen \in Nat /\ Md5Len \in Nat /\ Len(Magic) \in Nat
      /\ BlockSize \in Nat /\ SizeLen = 2
  BY LimitAssumption, WireAssumption, LenProperties DEF SizeLen
<1>2. /\ Len(Magic) <= RxRingMax /\ AuthLen <= RxRingMax /\ 2 <= RxRingMax
      /\ Md5Len <= RxRingMax /\ BlockSize <= RxRingMax
  BY <1>1 DEF Protocol
<1>3. CASE k \in 1 .. ProofEnd + 2
  <2>1. ProofEnd = (IF Password THEN 4 ELSE 3)
    BY DEF ProofEnd
  <2>2. \/ k = 1 \/ k = 2 \/ (k = 3 /\ Password) \/ k = ProofEnd
        \/ k = ProofEnd + 1 \/ k = ProofEnd + 2
    BY <1>3, <2>1
  <2>3. SayLen(c, k) \in {Len(Magic), 1, 0, AuthLen, 2, Md5Len}
    BY <1>1, <2>2, TableFacts
  <2>4. Hear(c, k) \in {{"OK"}, {"HEADER_OK", "SUPPORTS_COMPRESSION"}, {"REQUEST_SHA256_AUTH"},
                        {"AUTH_OK"}, {"UPDATE_PREPARE_OK"}, {"BIN_MD5_OK"}}
    BY <2>2, TableFacts
  <2>5. SayLen(c, k) \in Nat /\ SayLen(c, k) <= RxRingMax
    BY <1>1, <1>2, <2>3
  <2> QED
    BY <2>4, <2>5 DEF ResponseError
<1>4. CASE \E i \in 1 .. BlockCount(c) : k = ProofEnd + 2 + i
  <2>1. PICK i \in 1 .. BlockCount(c) : k = ProofEnd + 2 + i
    BY <1>4
  <2>2. SayLen(c, k) \in 1 .. BlockSize /\ Hear(c, k) = {"CHUNK_OK"}
    BY <2>1, TableFacts, BlockFacts
  <2>3. SayLen(c, k) \in Nat /\ SayLen(c, k) <= RxRingMax
    BY <1>1, <1>2, <2>2
  <2> QED
    BY <2>2, <2>3 DEF ResponseError
<1>5. CASE \/ k = ProofEnd + 3 + BlockCount(c)
           \/ k = ProofEnd + 4 + BlockCount(c)
           \/ k = LastLine(c)
  <2>1. SayLen(c, k) \in {0, 1} /\ (k = LastLine(c) \/ Hear(c, k) \in {{"RECEIVE_OK"}, {"UPDATE_END_OK"}})
        /\ (k = LastLine(c) => Hear(c, k) = {})
    BY <1>5, TableFacts
  <2>2. SayLen(c, k) \in Nat /\ SayLen(c, k) <= RxRingMax
    BY <1>1, <1>2, <2>1
  <2> QED
    BY <2>1, <2>2 DEF ResponseError
<1> QED
  BY <1>3, <1>4, <1>5, Places

(* Nothing is held of a line of which nothing has been taken, nor of the   *)
(* last one.                                                               *)
LEMMA NothingHeld ==
  ASSUME TypeOK, NEW c \in Client, NEW s, NEW t, ServerAt(c, s, t), t = 0 \/ s = LastLine(c)
  PROVE  Held = <<>>
<1>1. LastLine(c) \in Nat /\ ProofEnd \in {3, 4} /\ 1 < LastLine(c) /\ 4 < LastLine(c)
      /\ ProofEnd + 1 # LastLine(c) /\ ProofEnd + 2 # LastLine(c)
  BY BlockFacts DEF LastLine
<1>2. hs_buf \in Seq(Byte) /\ auth_in \in Seq(Byte) /\ data_buf \in Seq(Byte)
  BY DEF TypeOK
<1>3. CASE ota_state = "MAGIC_READ"
  <2>1. s = 1 /\ t = Len(hs_buf) /\ Held = hs_buf
    BY <1>3 DEF ServerAt, Held
  <2> QED
    BY <1>1, <1>2, <2>1, EmptySeq
<1>4. CASE ota_state = "AUTH_READ"
  <2>1. s = 4 /\ t = Len(auth_in) /\ Held = auth_in
    BY <1>4 DEF ServerAt, Held
  <2> QED
    BY <1>1, <1>2, <2>1, EmptySeq
<1>5. CASE ota_state \in {"DATA_SIZE", "DATA_MD5"}
  <2>1. s \in {ProofEnd + 1, ProofEnd + 2} /\ t = Len(data_buf) /\ Held = data_buf
    BY <1>5 DEF ServerAt, Held
  <2> QED
    BY <1>1, <1>2, <2>1, EmptySeq
<1> QED
  BY <1>3, <1>4, <1>5 DEF Held

(* The lines change with the challenge only.                               *)
LEMMA NextLine ==
  ASSUME NEW c \in Client, nonce' = nonce
  PROVE  Script(c)' = Script(c) /\ \A s : Said(c, s)' = Said(c, s)
BY DEF Script, ProofLines, ImageLines, Said, ImageOf, Blocks

(* Whenever it talks, the server is among what ServerMoves assumes.        *)
LEMMA TalkingServes ==
  ASSUME Protocol, SysInv, NEW c \in Client, Settled(c), NEW s, NEW t, Talking(c, s, t)
  PROVE  /\ Serving(c, s, t)
         /\ rx \in Seq(Byte) /\ net \in Seq(Flying) /\ Len(rx) \in Nat /\ t \in Nat
         /\ Said(c, s) \in Seq(Value) /\ Len(Said(c, s)) = SayLen(c, s)
         /\ SayLen(c, s) \in Nat /\ SayLen(c, s) <= RxRingMax /\ LastLine(c) \in Nat
         /\ s \in 1 .. LastLine(c)
         /\ step[c] \in Nat /\ said[c] \in Nat /\ down[c] \in Seq(Reply)
<1>1. /\ TypeOK /\ SessionInv /\ ClientTypes /\ NonceTypes /\ rx \in Seq(Byte)
      /\ net \in Seq(Flying)
  BY DEF SysInv, TypeOK, ClientTypes
<1>2. /\ s \in 1 .. LastLine(c) /\ t \in Nat /\ ServerAt(c, s, t) /\ dev = "run"
      /\ Saying(c, s, t) \/ Ahead(c, s, t) \/ Leaving(c, s, t)
  BY DEF Talking
<1>3. Said(c, s) \in Seq(Value) /\ Len(Said(c, s)) = SayLen(c, s)
  BY <1>1, <1>2, ScriptTable
<1>4. SayLen(c, s) \in Nat /\ SayLen(c, s) <= RxRingMax /\ LastLine(c) \in Nat
  BY <1>2, LineFits, BlockFacts
<1>5. step[c] \in Nat /\ said[c] \in Nat /\ down[c] \in Seq(Reply)
  BY <1>1 DEF ClientTypes
<1>6. Len(rx) \in Nat
  BY <1>1, LenProperties
<1>7. /\ t + Len(rx) <= SayLen(c, s) /\ Spells(Held, Said(c, s))
      /\ \A k \in 1 .. Len(rx) : rx[k].v = Said(c, s)[t + k]
  <2>1. CASE Saying(c, s, t)
    <3>1. Way(rx, net, t, Said(c, s), said[c]) /\ said[c] <= SayLen(c, s)
          /\ Spells(Held, Said(c, s))
      BY <2>1 DEF Saying
    <3>2. t + Len(rx) <= said[c]
      BY <1>1, <1>2, <3>1, WayTypes
    <3>3. \A k \in 1 .. Len(rx) : rx[k].v = Said(c, s)[t + k]
      BY <3>1 DEF Way
    <3> QED
      BY <1>2, <1>4, <1>5, <1>6, <3>1, <3>2, <3>3
  <2>2. CASE Leaving(c, s, t)
    <3>1. Way(rx, net, t, Said(c, s), 1) /\ s = LastLine(c)
      BY <2>2 DEF Leaving
    <3>2. t + Len(rx) <= 1
      BY <1>1, <1>2, <3>1, WayTypes
    <3>3. \A k \in 1 .. Len(rx) : rx[k].v = Said(c, s)[t + k]
      BY <3>1 DEF Way
    <3>4. Held = <<>> /\ SayLen(c, s) = 1
      BY <1>1, <1>2, <3>1, NothingHeld, TableFacts
    <3>5. Spells(Held, Said(c, s))
      BY <3>4 DEF Spells
    <3> QED
      BY <3>2, <3>3, <3>4, <3>5
  <2>3. CASE Ahead(c, s, t)
    <3>1. t = 0 /\ rx = <<>> /\ Held = <<>>
      BY <1>1, <1>2, <2>3, NothingHeld DEF Ahead, Silence
    <3>2. Spells(Held, Said(c, s))
      BY <3>1 DEF Spells
    <3> QED
      BY <1>4, <3>1, <3>2
  <2> QED
    BY <1>2, <2>1, <2>2, <2>3
<1>8. Serving(c, s, t)
  BY <1>1, <1>2, <1>7 DEF Serving, Reads
<1> QED
  BY <1>1, <1>2, <1>3, <1>4, <1>5, <1>6, <1>8

------------------------------------------------------------------------------
(* The steps of the node.                                                  *)

(* What the node answers reaches a client that listens.                    *)
LEMMA Routed ==
  ASSUME Route, NEW c \in Client
  PROVE  /\ tx' = <<>> \/ ~Playing(c) => down'[c] = down[c]
         /\ \A r : Playing(c) /\ tx' = <<r>> /\ r.to = c => down'[c] = Append(down[c], r)
<1>1. down'[c] = IF Reaches(c) THEN Append(down[c], Head(tx')) ELSE down[c]
  BY DEF Route
<1>2. tx' = <<>> \/ ~Playing(c) => ~Reaches(c)
  BY DEF Reaches
<1>3. \A r : Playing(c) /\ tx' = <<r>> /\ r.to = c => Reaches(c) /\ Head(tx') = r
  BY DEF Reaches
<1> QED
  BY <1>1, <1>2, <1>3

(* What is true of the node and the client when the server moves.          *)
Moving(c, s, t) ==
  /\ SysInv /\ TypeOK' /\ Settled(c) /\ Talking(c, s, t) /\ Moves(c, s, t)
  /\ Route /\ net' = net /\ step' = step /\ said' = said /\ nonce' = nonce

(* The types of what moves.                                                *)
LEMMA MovingFacts ==
  ASSUME Protocol, NEW c \in Client, NEW s, NEW t, Moving(c, s, t)
  PROVE  /\ Serving(c, s, t)
         /\ rx \in Seq(Byte) /\ net \in Seq(Flying) /\ Len(rx) \in Nat /\ t \in Nat
         /\ SayLen(c, s) \in Nat /\ LastLine(c) \in Nat /\ s \in 1 .. LastLine(c)
         /\ step[c] \in Nat /\ said[c] \in Nat /\ down[c] \in Seq(Reply)
         /\ dev = "run"
         /\ Said(c, s)' = Said(c, s)
         /\ Playing(c) <=> step[c] \in 1 .. LastLine(c)
         /\ rx' \in Seq(Byte)
<1>1. SysInv /\ Settled(c) /\ Talking(c, s, t) /\ nonce' = nonce /\ TypeOK'
  BY DEF Moving
<1>2. /\ Serving(c, s, t)
      /\ rx \in Seq(Byte) /\ net \in Seq(Flying) /\ Len(rx) \in Nat /\ t \in Nat
      /\ SayLen(c, s) \in Nat /\ LastLine(c) \in Nat /\ s \in 1 .. LastLine(c)
      /\ step[c] \in Nat /\ said[c] \in Nat /\ down[c] \in Seq(Reply)
  BY <1>1, TalkingServes
<1>3. dev = "run" /\ rx' \in Seq(Byte)
  BY <1>1, <1>2 DEF Serving, TypeOK
<1>4. Said(c, s)' = Said(c, s)
  BY <1>1, NextLine
<1>5. Len(Script(c)) = LastLine(c)
  BY <1>1, ScriptTable DEF SysInv, ClientTypes
<1>6. Playing(c) <=> step[c] \in 1 .. LastLine(c)
  BY <1>5 DEF Playing
<1> QED
  BY <1>1, <1>2, <1>3, <1>4, <1>6

(* It takes some of what is there.                                         *)
LEMMA TakesKeeps ==
  ASSUME Protocol, NEW c \in Client, NEW s, NEW t, Moving(c, s, t), TakesOn(c, s, t)
  PROVE  \E u \in Nat : Talking(c, s, u)'
<1>1. PICK m \in 0 .. Len(rx) :
        /\ ServerAt(c, s, t + m)' /\ rx' = SubSeq(rx, m + 1, Len(rx))
        /\ Spells(Held', Said(c, s))
  BY DEF TakesOn
<1>2. dev' = "run" /\ tx' = <<>> /\ down'[c] = down[c]
  BY Routed DEF TakesOn, Moving
<1>3. /\ rx \in Seq(Byte) /\ net \in Seq(Flying) /\ t \in Nat /\ s \in 1 .. LastLine(c)
      /\ Len(rx) \in Nat /\ Said(c, s)' = Said(c, s)
      /\ net' = net /\ step' = step /\ said' = said
  BY MovingFacts DEF Moving
<1>4. t + m \in Nat
  BY <1>1, <1>3
<1>5. CASE Saying(c, s, t)
  <2>1. Way(rx, net, t, Said(c, s), said[c])
    BY <1>5 DEF Saying
  <2>2. Way(SubSeq(rx, m + 1, Len(rx)), net, t + m, Said(c, s), said[c])
    BY <1>3, <2>1, WayTake
  <2>3. Way(rx', net', t + m, Said(c, s)', said'[c])
    BY <1>1, <1>3, <2>2
  <2>4. Spells(Held', Said(c, s)')
    BY <1>1, <1>3
  <2>5. Saying(c, s, t + m)'
    BY <1>2, <1>3, <1>5, <2>3, <2>4 DEF Saying, Spells, Way, Totals
  <2> QED
    BY <1>1, <1>2, <1>3, <1>4, <2>5 DEF Talking
<1>6. CASE Leaving(c, s, t)
  <2>1. Way(rx, net, t, Said(c, s), 1)
    BY <1>6 DEF Leaving
  <2>2. Way(SubSeq(rx, m + 1, Len(rx)), net, t + m, Said(c, s), 1)
    BY <1>3, <2>1, WayTake
  <2>3. Way(rx', net', t + m, Said(c, s)', 1)
    BY <1>1, <1>3, <2>2
  <2>4. Leaving(c, s, t + m)'
    BY <1>3, <1>6, <2>3 DEF Leaving, Way, Totals
  <2> QED
    BY <1>1, <1>2, <1>3, <1>4, <2>4 DEF Talking
<1>7. CASE Ahead(c, s, t)
  <2>1. t = 0 /\ rx = <<>> /\ net = <<>> /\ Len(rx) = 0
    BY <1>7, EmptySeq DEF Ahead, Silence
  <2>2. m = 0 /\ t + m = 0 /\ rx' = <<>>
    BY <1>1, <2>1
  <2>3. Ahead(c, s, t + m)'
    BY <1>2, <1>3, <1>7, <2>1, <2>2 DEF Ahead, Answered, Silence
  <2> QED
    BY <1>1, <1>2, <1>3, <1>4, <2>3 DEF Talking
<1>8. Saying(c, s, t) \/ Ahead(c, s, t) \/ Leaving(c, s, t)
  BY DEF Moving, Talking
<1> QED
  BY <1>5, <1>6, <1>7, <1>8

(* What Append makes of a sequence.                                        *)
LEMMA Appended ==
  ASSUME NEW S, NEW q \in Seq(S), NEW r \in S
  PROVE  /\ Len(Append(q, r)) = Len(q) + 1 /\ Len(q) \in Nat
         /\ \A i \in 1 .. Len(q) : Append(q, r)[i] = q[i]
         /\ Append(q, r)[Len(q) + 1] = r
BY AppendProperties, LenProperties

(* One more answer on the way to a client that has said all it will say    *)
(* before it hears it.                                                     *)
LEMMA OneMore ==
  ASSUME Protocol, NEW c \in Client, NEW s, NEW t, Moving(c, s, t),
         Playing(c), peer = c, NEW code \in Response, NEW n \in Nonce \cup {NoNonce},
         tx' = << [to |-> peer, code |-> code, nonce |-> n] >>,
         Len(down[c]) = s - step[c], step[c] \in 1 .. s, Answered(c, s)
  PROVE  /\ Len(down'[c]) = s + 1 - step[c]
         /\ down'[c][s + 1 - step[c]].code = code
         /\ said'[c] = SayLen(c, step'[c]) /\ step'[c] = step[c]
         /\ \A k \in step[c] + 1 .. s - 1 : SayLen(c, k) = 0
         /\ \A i \in 1 .. s - step[c] : down'[c][i].code \in Hear(c, step[c] + i - 1)
<1> DEFINE r == [to |-> peer, code |-> code, nonce |-> n]
           j == s - step[c]
<1>1. /\ Route /\ step' = step /\ said' = said /\ down[c] \in Seq(Reply)
      /\ s \in Nat /\ step[c] \in Nat
  BY MovingFacts DEF Moving
<1>2. r \in Reply /\ r.to = c /\ r.code = code
  BY <1>1 DEF Reply, Client
<1>3. tx' = <<r>>
  OBVIOUS
<1> HIDE DEF r
<1>4. down'[c] = Append(down[c], r)
  BY <1>1, <1>2, <1>3, Routed
<1>5. /\ Len(down'[c]) = j + 1 /\ down'[c][j + 1] = r /\ j \in Nat
      /\ \A i \in 1 .. j : down'[c][i] = down[c][i]
  BY <1>1, <1>2, <1>4, Appended
<1>6. j + 1 = s + 1 - step[c]
  BY <1>1
<1>7. \A i \in 1 .. j : down[c][i].code \in Hear(c, step[c] + i - 1)
  BY DEF Answered
<1>8. \A i \in 1 .. j : down'[c][i].code \in Hear(c, step[c] + i - 1)
  BY <1>5, <1>7
<1> QED
  BY <1>1, <1>2, <1>5, <1>6, <1>8 DEF Answered

(* Where the client has said all the server has read, it is heard out.     *)
LEMMA HeardOut ==
  ASSUME Protocol, NEW c \in Client, NEW s, NEW t, Moving(c, s, t),
         Saying(c, s, t) \/ Ahead(c, s, t), t + Len(rx) = SayLen(c, s)
  PROVE  /\ net = <<>> /\ Len(down[c]) = s - step[c] /\ step[c] \in 1 .. s /\ Answered(c, s)
         /\ Playing(c) /\ peer = c /\ (step[c] # s => SayLen(c, s) = 0)
<1>1. /\ rx \in Seq(Byte) /\ net \in Seq(Flying) /\ t \in Nat /\ s \in 1 .. LastLine(c)
      /\ Len(rx) \in Nat /\ step[c] \in Nat /\ said[c] \in Nat /\ SayLen(c, s) \in Nat
      /\ LastLine(c) \in Nat
  BY MovingFacts
<1>2. peer = c
  <2>1. Serving(c, s, t)
    BY MovingFacts
  <2>2. CASE ota_state = "IDLE"
    <3>1. s = 1 /\ t = 0
      BY <2>1, <2>2 DEF Serving, Reads, ServerAt
    <3>2. Len(rx) = Len(Magic) /\ Len(Magic) \in Nat \ {0}
      BY <1>1, <3>1, TableFacts, WireAssumption, EmptySeq
    <3>3. rx # <<>>
      BY <3>2
    <3> QED
      BY <2>1, <3>3 DEF Serving, Settled
  <2> QED
    BY <2>1, <2>2, ServingFacts
<1>3. CASE Saying(c, s, t)
  <2>1. step[c] = s /\ down[c] = <<>> /\ said[c] <= SayLen(c, s)
        /\ Way(rx, net, t, Said(c, s), said[c])
    BY <1>3 DEF Saying
  <2>2. t + Len(rx) <= said[c] /\ (net # <<>> => t + Len(rx) + Len(net[1].data) <= said[c])
    BY <1>1, <2>1, WayTypes
  <2>3. said[c] = SayLen(c, s)
    BY <1>1, <2>1, <2>2
  <2>4. net = <<>>
    <3> SUFFICES ASSUME net # <<>> PROVE FALSE
      OBVIOUS
    <3>1. Len(net) \in Nat /\ Len(net) # 0
      BY <1>1, EmptySeq, LenProperties
    <3>2. Len(net[1].data) \in Nat \ {0}
      BY <1>1, <3>1, FlyingLength
    <3> QED
      BY <1>1, <2>2, <2>3, <3>2
  <2>5. Len(down[c]) = 0 /\ s - step[c] = 0
    BY <1>1, <2>1, EmptySeq
  <2>6. Answered(c, s)
    BY <1>1, <2>1, <2>3, <2>5 DEF Answered
  <2> QED
    BY <1>1, <1>2, <2>1, <2>4, <2>5, <2>6, MovingFacts
<1>4. CASE Ahead(c, s, t)
  <2>1. step[c] \in 1 .. s - 1 /\ Len(down[c]) = s - step[c] /\ Answered(c, s) /\ net = <<>>
    BY <1>4 DEF Ahead, Silence
  <2>2. step[c] \in 1 .. s /\ step[c] \in 1 .. LastLine(c)
    BY <1>1, <2>1
  <2> QED
    <3>1. SayLen(c, s) = 0
      BY <1>4, EmptySeq DEF Ahead, Silence
    <3> QED
      BY <1>2, <2>1, <2>2, <3>1, MovingFacts
<1> QED
  BY <1>3, <1>4, <1>2 DEF Moving, Talking

(* It answers the line: the client has an answer more to hear, and the     *)
(* server is at the next line.                                             *)
LEMMA AnswerKeeps ==
  ASSUME Protocol, NEW c \in Client, NEW s, NEW t, Moving(c, s, t), AnswersLine(c, s, t)
  PROVE  Talking(c, s + 1, 0)'
<1>1. /\ dev' = "run" /\ rx' = rx /\ t = SayLen(c, s) /\ s < LastLine(c)
      /\ ServerAt(c, s + 1, 0)'
  BY DEF AnswersLine
<1>2. PICK code \in Hear(c, s), n \in Nonce \cup {NoNonce} :
        tx' = << [to |-> peer, code |-> code, nonce |-> n] >>
  BY DEF AnswersLine
<1>3. /\ rx \in Seq(Byte) /\ net \in Seq(Flying) /\ t \in Nat /\ s \in 1 .. LastLine(c)
      /\ Len(rx) \in Nat /\ step[c] \in Nat /\ SayLen(c, s) \in Nat /\ LastLine(c) \in Nat
      /\ t + Len(rx) <= SayLen(c, s)
  BY MovingFacts DEF Serving, Reads
<1>4. Saying(c, s, t) \/ Ahead(c, s, t)
  <2>1. Saying(c, s, t) \/ Ahead(c, s, t) \/ Leaving(c, s, t)
    BY DEF Moving, Talking
  <2> QED
    BY <1>1, <1>3, <2>1 DEF Leaving
<1>5. rx = <<>> /\ t + Len(rx) = SayLen(c, s)
  <2>1. Len(rx) = 0
    BY <1>1, <1>3
  <2> QED
    BY <1>1, <1>3, <2>1, EmptySeq
<1>6. /\ net = <<>> /\ Len(down[c]) = s - step[c] /\ step[c] \in 1 .. s /\ Answered(c, s)
      /\ Playing(c) /\ peer = c
  BY <1>4, <1>5, HeardOut
<1>7. code \in Response
  <2>1. Hear(c, s) \subseteq Response
    BY DEF Hear, Response
  <2> QED
    BY <2>1
<1>8. /\ Len(down'[c]) = s + 1 - step[c]
      /\ down'[c][s + 1 - step[c]].code = code
      /\ said'[c] = SayLen(c, step'[c]) /\ step'[c] = step[c]
      /\ \A k \in step[c] + 1 .. s - 1 : SayLen(c, k) = 0
      /\ \A i \in 1 .. s - step[c] : down'[c][i].code \in Hear(c, step[c] + i - 1)
  BY <1>2, <1>6, <1>7, OneMore
<1>9. \A k \in step[c] + 1 .. s + 1 - 1 : SayLen(c, k) = 0
  <2>1. step[c] < s => SayLen(c, s) = 0
    <3>1. CASE Ahead(c, s, t)
      BY <1>1, <3>1 DEF Ahead
    <3>2. CASE Saying(c, s, t)
      BY <1>3, <3>2 DEF Saying
    <3> QED
      BY <1>4, <3>1, <3>2
  <2> SUFFICES ASSUME NEW k \in step[c] + 1 .. s + 1 - 1 PROVE SayLen(c, k) = 0
    OBVIOUS
  <2>2. k \in step[c] + 1 .. s - 1 \/ k = s
    BY <1>3
  <2>3. k = s => step[c] < s
    BY <1>3
  <2> QED
    BY <1>8, <2>1, <2>2, <2>3
<1>10. \A i \in 1 .. s + 1 - step[c] : down'[c][i].code \in Hear(c, step[c] + i - 1)
  <2> SUFFICES ASSUME NEW i \in 1 .. s + 1 - step[c]
               PROVE  down'[c][i].code \in Hear(c, step[c] + i - 1)
    OBVIOUS
  <2>1. i \in 1 .. s - step[c] \/ (i = s + 1 - step[c] /\ step[c] + i - 1 = s)
    BY <1>3, <1>6
  <2> QED
    BY <1>8, <2>1
<1>11. Ahead(c, s + 1, 0)'
  <2>1. PICK z \in Nat, j \in Nat : z = s + 1 /\ j = step[c] /\ j = step'[c]
    <3>1. step'[c] = step[c] /\ s + 1 \in Nat /\ step[c] \in Nat
      BY <1>3, <1>8
    <3> QED
      BY <3>1
  <2>2. z - j = s + 1 - step[c] /\ z - 1 = s + 1 - 1
    <3>1. s \in Nat /\ step[c] \in Nat
      BY <1>3
    <3>2. z - j = s + 1 - step[c]
      BY <2>1, <3>1
    <3>3. z - 1 = s + 1 - 1
      BY <2>1, <3>1
    <3> QED
      BY <3>2, <3>3
  <2>3. /\ said'[c] = SayLen(c, step'[c])
        /\ \A k \in step'[c] + 1 .. z - 1 : SayLen(c, k) = 0
        /\ \A i \in 1 .. z - step'[c] : down'[c][i].code \in Hear(c, step'[c] + i - 1)
    <3>1. said'[c] = SayLen(c, step'[c])
      BY <1>8
    <3>2. \A k \in step'[c] + 1 .. z - 1 : SayLen(c, k) = 0
      BY <1>9, <2>1, <2>2
    <3>3. \A i \in 1 .. z - j : down'[c][i].code \in Hear(c, j + i - 1)
      BY <1>10, <2>1, <2>2
    <3> QED
      BY <2>1, <3>1, <3>2, <3>3
  <2>4. Len(down'[c]) = z - step'[c]
    <3>1. Len(down'[c]) = z - j
      BY <1>8, <2>2
    <3> QED
      BY <2>1, <3>1
  <2>5. step'[c] \in 1 .. z - 1
    BY <1>3, <1>6, <1>8, <2>1
  <2>6. Silence'
    BY <1>1, <1>5, <1>6 DEF Silence, Moving
  <2>7. Answered(c, z)'
    BY <2>3 DEF Answered
  <2>8. Ahead(c, z, 0)'
    BY <2>4, <2>5, <2>6, <2>7 DEF Ahead
  <2> QED
    BY <2>1, <2>8
<1>12. s + 1 \in 1 .. LastLine(c) /\ 0 \in Nat
  BY <1>1, <1>3
<1> QED
  BY <1>1, <1>11, <1>12 DEF Talking

(* It refuses the line: the session is over, and the refusal is the last   *)
(* answer.                                                                 *)
LEMMA RefusalQuiets ==
  ASSUME Protocol, NEW c \in Client, NEW s, NEW t, Moving(c, s, t), RefusesLine(c, s, t)
  PROVE  Quiet(c)'
<1>1. dev' = "run" /\ rx' = <<>> /\ t + Len(rx) = SayLen(c, s) /\ ota_state' = "IDLE"
  BY DEF RefusesLine
<1>2. PICK code \in ResponseError, n \in Nonce \cup {NoNonce} :
        tx' = << [to |-> peer, code |-> code, nonce |-> n] >>
  BY DEF RefusesLine
<1>3. /\ rx \in Seq(Byte) /\ net \in Seq(Flying) /\ t \in Nat /\ s \in 1 .. LastLine(c)
      /\ Len(rx) \in Nat /\ step[c] \in Nat /\ LastLine(c) \in Nat
      /\ net' = net /\ step' = step
  BY MovingFacts DEF Moving
<1>4. CASE Saying(c, s, t) \/ Ahead(c, s, t)
  <2>1. /\ net = <<>> /\ Len(down[c]) = s - step[c] /\ step[c] \in 1 .. s /\ Answered(c, s)
        /\ Playing(c) /\ peer = c /\ (step[c] # s => SayLen(c, s) = 0)
    BY <1>1, <1>4, HeardOut
  <2>2. code \in Response
    BY DEF Response
  <2>3. /\ Len(down'[c]) = s + 1 - step[c]
        /\ down'[c][s + 1 - step[c]].code = code
        /\ said'[c] = SayLen(c, step'[c]) /\ step'[c] = step[c]
        /\ \A k \in step[c] + 1 .. s - 1 : SayLen(c, k) = 0
        /\ \A i \in 1 .. s - step[c] : down'[c][i].code \in Hear(c, step[c] + i - 1)
    BY <1>2, <2>1, <2>2, OneMore
  <2>4. Answered(c, s)'
    BY <2>3 DEF Answered
  <2>5. s + 1 - step[c] = s - step[c] + 1
    BY <1>3
  <2> QED
    BY <1>1, <1>3, <2>1, <2>3, <2>4, <2>5 DEF Quiet, Silence
<1>5. CASE Leaving(c, s, t)
  <2>1. s = LastLine(c) /\ step[c] = s + 1 /\ Way(rx, net, t, Said(c, s), 1)
    BY <1>5 DEF Leaving
  <2>2. SayLen(c, s) = 1
    BY <2>1, TableFacts
  <2>3. net # <<>> => t + Len(rx) + Len(net[1].data) <= 1
    BY <1>3, <2>1, WayTypes
  <2>4. net = <<>>
    <3> SUFFICES ASSUME net # <<>> PROVE FALSE
      OBVIOUS
    <3>1. Len(net) \in Nat /\ Len(net) # 0
      BY <1>3, EmptySeq, LenProperties
    <3>2. Len(net[1].data) \in Nat \ {0}
      BY <1>3, <3>1, FlyingLength
    <3>3. t + Len(rx) = 1
      BY <1>1, <2>2
    <3>4. t + Len(rx) + Len(net[1].data) <= 1
      BY <2>3
    <3> QED
      BY <3>2, <3>3, <3>4
  <2> QED
    BY <1>1, <1>3, <2>1, <2>4 DEF Quiet, Silence
<1> QED
  BY <1>4, <1>5 DEF Moving, Talking

(* It has restarted: the client had said its last word.                    *)
LEMMA DownQuiets ==
  ASSUME Protocol, NEW c \in Client, NEW s, NEW t, Moving(c, s, t), GoesDown(c, s, t)
  PROVE  Quiet(c)' /\ step[c] # 0
<1>1. rx' = <<>> /\ ota_state' = "IDLE" /\ s = LastLine(c) /\ t = 1
  BY DEF GoesDown
<1>2. /\ rx \in Seq(Byte) /\ net \in Seq(Flying) /\ LastLine(c) \in Nat /\ Len(rx) \in Nat
      /\ net' = net /\ step' = step /\ said[c] \in Nat
  BY MovingFacts DEF Moving
<1>3. Leaving(c, s, t)
  <2>1. ~Ahead(c, s, t)
    BY <1>1 DEF Ahead
  <2>2. ~Saying(c, s, t)
    <3> SUFFICES ASSUME Saying(c, s, t) PROVE FALSE
      OBVIOUS
    <3>1. said[c] = 0 /\ Way(rx, net, t, Said(c, s), said[c]) /\ t \in Nat
      BY <1>1 DEF Saying
    <3>2. t + Len(rx) <= said[c]
      BY <1>2, <3>1, WayTypes
    <3> QED
      BY <1>1, <1>2, <3>1, <3>2
  <2> QED
    BY <2>1, <2>2 DEF Moving, Talking
<1>4. step[c] = LastLine(c) + 1 /\ Way(rx, net, t, Said(c, s), 1) /\ t \in Nat
  BY <1>1, <1>3 DEF Leaving
<1>5. net = <<>>
  BY <1>1, <1>2, <1>4, WayTypes
<1> QED
  BY <1>1, <1>2, <1>4, <1>5 DEF Quiet, Silence

(* A client that talks has begun, and the node runs.                       *)
LEMMA TalkingSteps ==
  ASSUME NEW c \in Client, NEW s \in 1 .. LastLine(c), NEW t, Talking(c, s, t)
  PROVE  step[c] # 0 /\ dev = "run"
<1>1. LastLine(c) \in Nat
  BY BlockFacts
<1>2. step[c] = s \/ step[c] \in 1 .. s - 1 \/ step[c] = s + 1
  BY DEF Talking, Saying, Ahead, Leaving
<1> QED
  BY <1>1, <1>2 DEF Talking

(* A step of the node.                                                     *)
LEMMA NodeKeeps ==
  ASSUME Reliable, Protocol, NEW c \in Client, SysInv, TypeOK',
         ota_state = "AUTH_READ" => auth_nonce \in Nonce, Joint(c), NodeStep
  PROVE  Joint(c)'
<1>1. /\ Route /\ net' = net /\ step' = step /\ said' = said /\ nonce' = nonce
      /\ tries' = tries /\ repeats' = repeats
  BY DEF NodeStep, clientVars
<1>2. (Device /\ dev # "off") \/ (Reset /\ dev = "off")
  <2>1. dev = "run" \/ Setup \/ ~Device
    BY DeviceRuns
  <2> QED
    BY <2>1 DEF NodeStep, Reliable, OnShutdown, Reset, Joint, Setup
<1>3. /\ Settled(c) /\ dev \in {"boot", "run", "off"} /\ repeats = 0
      /\ \A i \in 1 .. Len(net) : net[i].from = c
      /\ step[c] # 0 => tries[c] > 0
      /\ boot # <<>> =>
           boot = ImageOf(c) /\ tries[c] > 0 /\ (Unforgeable /\ Password => c \in Knows)
  BY DEF Joint
<1>4. CASE dev = "run"
  <2>1. Device
    BY <1>2, <1>4
  <2>2. ~Quiet(c)
    BY <1>3, <1>4, <2>1, IdleRests DEF Quiet, Silence, Settled
  <2>3. PICK s \in 1 .. LastLine(c), t \in Nat : Talking(c, s, t)
    BY <2>2 DEF Joint
  <2>4. NonceTypes
    BY DEF SysInv, ClientTypes
  <2>5. Moves(c, s, t)
    BY <1>3, <2>1, <2>3, <2>4, TalkingServes, ServerMoves
  <2>6. Moving(c, s, t)
    BY <1>1, <1>3, <2>3, <2>5 DEF Moving
  <2>7. Settled(c)'
    BY <2>5 DEF Moves
  <2>8. step[c] # 0
    BY <2>3, TalkingSteps
  <2>9. (boot # <<>> =>
           boot = ImageOf(c) /\ tries[c] > 0 /\ (Unforgeable /\ Password => c \in Knows))'
    BY <1>1, <1>3, <2>5, <2>8 DEF Moves
  <2>10. CASE TakesOn(c, s, t)
    <3>1. \E u \in Nat : Talking(c, s, u)'
      BY <2>6, <2>10, TakesKeeps
    <3>2. dev' = "run"
      BY <2>10 DEF TakesOn
    <3> QED
      BY <1>1, <1>3, <2>7, <2>9, <3>1, <3>2 DEF Joint
  <2>11. CASE AnswersLine(c, s, t)
    <3>1. Talking(c, s + 1, 0)'
      BY <2>6, <2>11, AnswerKeeps
    <3>2. dev' = "run" /\ s + 1 \in 1 .. LastLine(c) /\ 0 \in Nat
      BY <2>11, BlockFacts DEF AnswersLine
    <3> QED
      BY <1>1, <1>3, <2>7, <2>9, <3>1, <3>2 DEF Joint
  <2>12. CASE RefusesLine(c, s, t)
    <3>1. Quiet(c)' /\ dev' = "run"
      BY <2>6, <2>12, RefusalQuiets DEF RefusesLine
    <3> QED
      BY <1>1, <1>3, <2>7, <2>9, <3>1 DEF Joint
  <2>13. CASE GoesDown(c, s, t)
    <3>1. Quiet(c)' /\ dev' = "off"
      BY <2>6, <2>13, DownQuiets DEF GoesDown
    <3> QED
      BY <1>1, <1>3, <2>7, <2>9, <3>1 DEF Joint
  <2> QED
    BY <2>5, <2>10, <2>11, <2>12, <2>13 DEF Moves
<1>5. CASE dev # "run"
  <2>1. Quiet(c) /\ (step[c] = 0 \/ step[c] = LastLine(c) + 1)
    BY <1>5 DEF Joint, Talking, Quiet
  <2>2. /\ ota_state' = "IDLE" /\ rx' = <<>> /\ boot' = boot /\ dev' \in {"boot", "run"}
        /\ Settled(c)'
    <3>1. CASE Device
      <4>1. Setup
        BY <1>5, <3>1, DeviceRuns
      <4> QED
        BY <1>3, <2>1, <4>1
           DEF Setup, Reliable, sessionVars, timeVars, peerVars, authVars, Settled, Quiet, Silence
    <3>2. CASE Reset
      BY <1>5, <3>2 DEF Reset, ClearSession, CleanupAuth, Transition, Return, Settled
    <3> QED
      BY <1>2, <3>1, <3>2
  <2>3. Quiet(c)'
    BY <1>1, <2>1, <2>2 DEF Quiet, Silence
  <2> QED
    BY <1>1, <1>3, <2>2, <2>3 DEF Joint
<1> QED
  BY <1>4, <1>5

(* A datagram fits beside what waits to be read.                           *)
LEMMA DeliverKeeps ==
  ASSUME Reliable, Protocol, NEW c \in Client, SysInv, TypeOK', Joint(c), Deliver
  PROVE  Joint(c)'
<1> DEFINE f == net[1]
<1>1. /\ net # <<>> /\ HandleFrame(f.from, f.data) /\ net' = RemoveAt(net, 1)
      /\ Route /\ UNCHANGED <<step, said, nonce, tries, repeats>>
  BY DEF Deliver, DeliverAt, clientVars
<1>2. /\ net \in Seq(Flying) /\ rx \in Seq(Byte) /\ Len(net) \in Nat /\ Len(net) # 0
      /\ 1 \in 1 .. Len(net)
  <2>1. net \in Seq(Flying) /\ rx \in Seq(Byte)
    BY DEF SysInv, ClientTypes, TypeOK
  <2> QED
    BY <1>1, <2>1, EmptySeq, LenProperties
<1>3. net' = Tail(net)
  <2>1. SubSeq(net, 1, 0) = <<>> /\ Tail(net) = SubSeq(net, 2, Len(net))
    BY <1>2
  <2>2. Tail(net) \in Seq(Flying)
    BY <1>1, <1>2, HeadTailProperties
  <2>3. <<>> \o Tail(net) = Tail(net)
    BY <2>2
  <2>4. RemoveAt(net, 1) = SubSeq(net, 1, 0) \o SubSeq(net, 2, Len(net))
    BY DEF RemoveAt
  <2> QED
    BY <1>1, <2>1, <2>3, <2>4
<1>4. f.from = c /\ Settled(c) /\ dev = "run" /\ f.data \in Seq(Value) /\ Len(f.data) \in Nat \ {0}
  BY <1>1, <1>2, FlyingLength DEF Joint, HandleFrame
<1>5. PICK s \in 1 .. LastLine(c), t \in Nat : Talking(c, s, t) /\ (Saying(c, s, t) \/ Leaving(c, s, t))
  BY <1>1 DEF Joint, Quiet, Silence, Talking, Ahead
<1>6. /\ SayLen(c, s) \in Nat /\ SayLen(c, s) <= RxRingMax /\ said[c] \in Nat
      /\ Len(rx) \in Nat
  BY <1>4, <1>5, TalkingServes
<1>7. PICK end \in Nat :
        /\ Way(rx, net, t, Said(c, s), end) /\ end <= RxRingMax
        /\ Saying(c, s, t) => end = said[c]
        /\ ~Saying(c, s, t) => end = 1
  <2>1. RxRingMax \in Nat
    BY LimitAssumption
  <2>2. CASE Saying(c, s, t)
    BY <1>6, <2>1, <2>2 DEF Saying
  <2>3. CASE ~Saying(c, s, t)
    <3>1. Leaving(c, s, t) /\ s = LastLine(c)
      BY <1>5, <2>3 DEF Leaving
    <3>2. SayLen(c, s) = 1
      BY <3>1, TableFacts
    <3> QED
      BY <1>6, <2>3, <3>1, <3>2 DEF Leaving
  <2> QED
    BY <2>2, <2>3
<1>8. /\ rx \in Seq(Byte) /\ net \in Seq(Flying) /\ net # <<>>
       /\ Way(rx, net, t, Said(c, s), end)
  BY <1>1, <1>2, <1>7
<1>9. t + Len(rx) + Len(net[1].data) <= end
  BY <1>8, WayTypes
<1>10. ~RxOverflow(Len(f.data))
  <2> DEFINE n == Len(net[1].data)
  <2>1. RxRingMax \in Nat /\ n \in Nat /\ t + Len(rx) + n <= end /\ end <= RxRingMax
    BY <1>4, <1>7, <1>9, LimitAssumption
  <2> HIDE DEF n
  <2>2. ~RxOverflow(n)
    BY <1>6, <2>1 DEF RxOverflow
  <2> QED
    BY <2>2 DEF n
<1>11. /\ peer' = c /\ has_peer' = has_peer /\ rx' = rx \o Bytes(f.from, f.data) /\ tx' = <<>>
       /\ UNCHANGED <<ota_state, shakeVars, authVars, updateVars, timeVars>>
       /\ UNCHANGED <<dev, pc, data_buf, boot>>
  BY <1>1, <1>4, <1>10 DEF HandleFrame, FrameOpensSession, Settled, Silent
<1>12. Way(rx', net', t, Said(c, s), end)
  <2>1. Way(rx \o Bytes(net[1].from, net[1].data), Tail(net), t, Said(c, s), end)
    BY <1>8, WayDeliver
  <2> QED
    BY <1>3, <1>11, <2>1
<1>13. Said(c, s)' = Said(c, s) /\ down'[c] = down[c]
  BY <1>1, <1>11, NextLine, Routed
<1>14. ServerAt(c, s, t)' /\ Held' = Held
  <2>1. ServerAt(c, s, t)
    BY <1>5 DEF Talking
  <2>2. UNCHANGED <<ota_state, pc, hs_buf, auth_in, data_buf, ota_size, firmware_total,
                    size_acknowledged, md5>>
    BY <1>11 DEF shakeVars, authVars, updateVars, countVars, slotVars
  <2>3. ServerAt(c, s, t)'
    BY <2>1, <2>2 DEF ServerAt
  <2> QED
    BY <2>2, <2>3 DEF Held
<1>15. Talking(c, s, t)'
  <2>1. CASE Saying(c, s, t)
    <3>1. end = said'[c] /\ Spells(Held, Said(c, s))
      BY <1>1, <1>7, <2>1 DEF Saying
    <3>2. Way(rx', net', t, Said(c, s)', said'[c]) /\ Spells(Held', Said(c, s)')
      BY <1>12, <1>13, <1>14, <3>1
    <3>3. Saying(c, s, t)'
      BY <1>1, <1>13, <2>1, <3>2 DEF Saying, Way, Totals, Spells
    <3> QED
      BY <1>4, <1>5, <1>11, <1>14, <3>3 DEF Talking
  <2>2. CASE ~Saying(c, s, t)
    <3>1. end = 1 /\ Leaving(c, s, t)
      BY <1>5, <1>7, <2>2
    <3>2. Way(rx', net', t, Said(c, s)', 1) /\ Leaving(c, s, t)
      BY <1>12, <1>13, <3>1
    <3>3. Leaving(c, s, t)'
      BY <1>1, <3>2 DEF Leaving, Way, Totals
    <3> QED
      BY <1>4, <1>5, <1>11, <1>14, <3>3 DEF Talking
  <2> QED
    BY <2>1, <2>2
<1>16. Settled(c)'
  BY <1>4, <1>11 DEF Settled, authVars, timeVars
<1>17. \A i \in 1 .. Len(net') : net'[i].from = c
  <2>1. \A i \in 1 .. Len(Tail(net)) : Tail(net)[i] = net[i + 1] /\ i + 1 \in 1 .. Len(net)
    BY <1>1, <1>2, HeadTailProperties
  <2> QED
    BY <1>3, <2>1 DEF Joint
<1> QED
  BY <1>1, <1>4, <1>5, <1>11, <1>15, <1>16, <1>17 DEF Joint

------------------------------------------------------------------------------
(* The steps of the client.                                                *)

(* What the steps of the client leave alone.                               *)
LEMMA ServerAlone ==
  ASSUME UNCHANGED vars, NEW c \in Client
  PROVE  /\ \A s, t : ServerAt(c, s, t)' <=> ServerAt(c, s, t)
         /\ Held' = Held /\ (Settled(c)' <=> Settled(c))
         /\ ota_state' = ota_state /\ rx' = rx /\ dev' = dev /\ boot' = boot
<1>1. UNCHANGED <<dev, pc, ota_state, has_peer, peer, rx, hs_buf, auth_in, proved, data_buf,
                  ota_size, firmware_total, size_acknowledged, md5, elapsed, uptime, boot>>
  BY DEF vars, peerVars, shakeVars, authVars, updateVars, slotVars, countVars, timeVars
<1>2. \A s, t : ServerAt(c, s, t)' <=> ServerAt(c, s, t)
  BY <1>1 DEF ServerAt
<1>3. Held' = Held
  BY <1>1 DEF Held
<1>4. Settled(c)' <=> Settled(c)
  BY <1>1 DEF Settled
<1> QED
  BY <1>1, <1>2, <1>3, <1>4

(* The client begins: there is no session, and nothing left of an earlier  *)
(* one.                                                                    *)
LEMMA StartKeeps ==
  ASSUME Reliable, Protocol, NEW c \in Client, SysInv, Joint(c), UNCHANGED <<vars, repeats>>,
         ClientStart(c)
  PROVE  Joint(c)'
<1>1. /\ step[c] = 0 /\ dev = "run" /\ net' = net /\ repeats' = repeats
      /\ step'[c] = 1 /\ said'[c] = 0 /\ down'[c] = <<>> /\ tries'[c] = tries[c] + 1
      /\ tries[c] \in Nat
  BY DEF ClientStart, Reliable, SysInv, ClientTypes
<1>2. Quiet(c) /\ Settled(c)
  BY <1>1, TalkingSteps DEF Joint
<1>3. ota_state = "IDLE" /\ rx = <<>> /\ net = <<>>
  BY <1>2 DEF Quiet, Silence
<1>4. /\ ota_state' = ota_state /\ rx' = rx /\ dev' = dev /\ boot' = boot /\ Settled(c)'
  BY <1>2, ServerAlone
<1>5. LastLine(c) \in Nat /\ 1 \in 1 .. LastLine(c) /\ SayLen(c, 1) \in Nat
  <2>1. LastLine(c) \in Nat /\ 1 \in 1 .. LastLine(c)
    BY BlockFacts DEF LastLine
  <2> QED
    BY <2>1, LineFits
<1>6. Way(rx', net', 0, Said(c, 1)', said'[c])
  BY <1>1, <1>3, <1>4, WayNone
<1>7. Held' = <<>> /\ ServerAt(c, 1, 0)'
  BY <1>3, <1>4 DEF Held, ServerAt
<1>8. Spells(Held', Said(c, 1)')
  BY <1>7 DEF Spells
<1>9. Saying(c, 1, 0)'
  <2>1. Way(rx, net, 0, Said(c, 1), said[c])'
    BY <1>6 DEF Way, Totals
  <2>2. Spells(Held, Said(c, 1))'
    BY <1>8 DEF Spells
  <2> QED
    BY <1>1, <1>5, <2>1, <2>2 DEF Saying
<1>10. Talking(c, 1, 0)'
  BY <1>1, <1>4, <1>5, <1>7, <1>9 DEF Talking
<1>11. tries'[c] > 0
  BY <1>1
<1> QED
  BY <1>1, <1>4, <1>5, <1>10, <1>11 DEF Joint

(* The client speaks only while it is heard.                               *)
LEMMA SpeakingTalks ==
  ASSUME Protocol, NEW c \in Client, SysInv, Joint(c), Playing(c), said[c] < SayLen(c, step[c])
  PROVE  \E t \in Nat : Talking(c, step[c], t) /\ Saying(c, step[c], t)
<1>1. /\ step[c] \in 1 .. LastLine(c) /\ LastLine(c) \in Nat /\ step[c] \in Nat /\ said[c] \in Nat
  <2>1. Len(Script(c)) = LastLine(c)
    BY ScriptTable DEF SysInv, ClientTypes
  <2> QED
    BY <2>1, BlockFacts DEF Playing, SysInv, ClientTypes
<1>2. SayLen(c, step[c]) \in Nat
  BY <1>1, LineFits
<1>3. said[c] # SayLen(c, step[c])
  BY <1>1, <1>2
<1>4. \A z : ~Answered(c, z)
  BY <1>3 DEF Answered
<1>5. ~Quiet(c)
  BY <1>1, <1>4 DEF Quiet
<1>6. PICK s \in 1 .. LastLine(c), t \in Nat : Talking(c, s, t)
  BY <1>5 DEF Joint
<1>7. Saying(c, s, t)
  BY <1>1, <1>4, <1>6 DEF Talking, Ahead, Leaving
<1> QED
  BY <1>6, <1>7 DEF Saying

(* It says some more of its line, or its last word.                        *)
LEMMA SayKeeps ==
  ASSUME Reliable, Protocol, NEW c \in Client, SysInv, Joint(c),
         UNCHANGED <<vars, repeats>>, ClientSay(c)
  PROVE  Joint(c)'
<1>1. PICK n \in 1 .. MaxDatagram :
        /\ said[c] + n <= Len(Current(c).say)
        /\ net' = Append(net, [from |-> c,
                               data |-> SubSeq(Current(c).say, said[c] + 1, said[c] + n)])
        /\ IF said[c] + n = Len(Current(c).say) /\ Current(c).hear = {}
             THEN /\ step' = [step EXCEPT ![c] = @ + 1]
                  /\ said' = [said EXCEPT ![c] = 0]
             ELSE /\ said' = [said EXCEPT ![c] = @ + n]
                  /\ UNCHANGED step
  BY DEF ClientSay
<1>2. /\ Playing(c) /\ down' = down /\ nonce' = nonce /\ tries' = tries /\ repeats' = repeats
      /\ ClientTypes /\ NonceTypes /\ net \in Seq(Flying) /\ rx \in Seq(Byte)
      /\ said[c] \in Nat /\ step[c] \in Nat
      /\ step \in [Client -> Nat] /\ said \in [Client -> Nat]
  BY DEF ClientSay, SysInv, ClientTypes, TypeOK
<1>3. step[c] \in 1 .. LastLine(c) /\ LastLine(c) \in Nat
  BY <1>2, ScriptTable, BlockFacts DEF Playing
<1>4. PICK s \in 1 .. LastLine(c), end \in Nat : s = step[c] /\ end = said[c]
  BY <1>2, <1>3
<1> DEFINE text == Said(c, s)
           f == [from |-> c, data |-> SubSeq(text, end + 1, end + n)]
<1>5. /\ Current(c).say = text /\ Current(c).hear = Hear(c, s)
      /\ text \in Seq(Value) /\ Len(text) = SayLen(c, s) /\ SayLen(c, s) \in Nat
  BY <1>2, <1>4, ScriptTable, LineFits DEF Current, Said
<1>6. n \in Nat \ {0}
  BY ClientAssumption
<1>7. f \in Flying
  BY <1>1, <1>2, <1>4, <1>5, Cut
<1>8. end + n <= SayLen(c, s) /\ net' = Append(net, f) /\ end < SayLen(c, s)
  <2>1. end + n <= SayLen(c, s) /\ net' = Append(net, f)
    BY <1>1, <1>4, <1>5
  <2> QED
    BY <1>5, <1>6, <2>1
<1>9. PICK t \in Nat : Talking(c, s, t) /\ Saying(c, s, t)
  BY <1>2, <1>4, <1>8, SpeakingTalks
<1>10. /\ Way(rx, net, t, text, end) /\ down[c] = <<>> /\ (s = LastLine(c) => end = 0)
       /\ Spells(Held, text) /\ ServerAt(c, s, t) /\ dev = "run"
  BY <1>4, <1>9 DEF Saying, Talking
<1>11. Way(rx, Append(net, f), t, text, end + n)
  <2> HIDE DEF text
  <2>1. [from |-> c, data |-> SubSeq(text, end + 1, end + n)] \in Flying
    BY <1>7
  <2> QED
    BY <1>2, <1>5, <1>6, <1>8, <1>10, <2>1, WaySay
<1>12. /\ ota_state' = ota_state /\ rx' = rx /\ dev' = dev /\ boot' = boot /\ Settled(c)'
       /\ Held' = Held /\ ServerAt(c, s, t)'
  <2>1. UNCHANGED vars /\ Settled(c)
    BY DEF Joint
  <2> QED
    BY <1>10, <2>1, ServerAlone
<1>13. Said(c, s)' = text
  BY <1>2, NextLine
<1>14. Way(rx', net', t, Said(c, s)', end + n)
  <2> HIDE DEF text, f
  <2> QED
    BY <1>8, <1>11, <1>12, <1>13
<1>15. \A i \in 1 .. Len(net') : net'[i].from = c
  <2>1. Len(net) \in Nat /\ f.from = c
    BY <1>2, LenProperties
  <2> HIDE DEF f
  <2>2. /\ Len(Append(net, f)) = Len(net) + 1 /\ Append(net, f)[Len(net) + 1] = f
        /\ \A i \in 1 .. Len(net) : Append(net, f)[i] = net[i]
    BY <1>2, <1>7, Appended
  <2>3. \A i \in 1 .. Len(net) : net[i].from = c
    BY DEF Joint
  <2> QED
    BY <1>8, <2>1, <2>2, <2>3
<1> HIDE DEF text, f
<1>16. Talking(c, s, t)' /\ step'[c] # 0
  <2>1. CASE end + n = SayLen(c, s) /\ Hear(c, s) = {}
    <3>1. s = LastLine(c) /\ SayLen(c, s) = 1
      BY <2>1, LineFits, TableFacts
    <3>2. step'[c] = s + 1
      BY <1>1, <1>2, <1>4, <1>5, <2>1
    <3>3. Way(rx', net', t, Said(c, s)', 1)
      BY <1>14, <2>1, <3>1
    <3>4. Way(rx, net, t, Said(c, s), 1)'
      BY <3>3 DEF Way, Totals
    <3>5. Leaving(c, s, t)'
      BY <3>1, <3>2, <3>4 DEF Leaving
    <3> QED
      BY <1>3, <1>10, <1>12, <3>2, <3>5 DEF Talking
  <2>2. CASE ~(end + n = SayLen(c, s) /\ Hear(c, s) = {})
    <3>1. step'[c] = s /\ said'[c] = end + n
      BY <1>1, <1>2, <1>4, <1>5, <2>2
    <3>2. s # LastLine(c)
      <4> SUFFICES ASSUME s = LastLine(c) PROVE FALSE
        OBVIOUS
      <4>1. SayLen(c, s) = 1 /\ Hear(c, s) = {} /\ end = 0
        BY <1>10, TableFacts
      <4> QED
        BY <1>6, <1>8, <2>2, <4>1
    <3>3. Way(rx', net', t, Said(c, s)', said'[c])
      BY <1>14, <3>1
    <3>4. Way(rx, net, t, Said(c, s), said[c])'
      BY <3>3 DEF Way, Totals
    <3>5. Spells(Held, Said(c, s))'
      BY <1>10, <1>12, <1>13 DEF Spells
    <3>6. Saying(c, s, t)'
      BY <1>2, <1>8, <1>10, <3>1, <3>2, <3>4, <3>5 DEF Saying
    <3> QED
      BY <1>3, <1>10, <1>12, <3>1, <3>6 DEF Talking
  <2> QED
    BY <2>1, <2>2
<1> QED
  BY <1>2, <1>3, <1>4, <1>12, <1>15, <1>16 DEF Joint

(* An answer heard moves the client on, or sends it home.                  *)
LEMMA HearKeeps ==
  ASSUME Reliable, Protocol, NEW c \in Client, SysInv, Joint(c),
         UNCHANGED <<vars, repeats>>, ClientHear(c)
  PROVE  Joint(c)'
<1>1. /\ Playing(c) /\ down[c] # <<>> /\ down'[c] = Tail(down[c])
      /\ said'[c] = 0 /\ net' = net /\ tries' = tries /\ repeats' = repeats
      /\ ClientTypes /\ NonceTypes /\ step[c] \in Nat /\ down[c] \in Seq(Reply)
      /\ IF Head(down[c]).code \in Current(c).hear THEN step'[c] = step[c] + 1 ELSE step'[c] = 0
  BY DEF ClientHear, SysInv, ClientTypes
<1>2. LastLine(c) \in Nat /\ Len(Script(c)) = LastLine(c)
  BY <1>1, ScriptTable, BlockFacts
<1>3. PICK n \in 1 .. LastLine(c) : n = step[c]
  BY <1>1, <1>2 DEF Playing
<1>4. Current(c).hear = Hear(c, n)
  BY <1>1, <1>3, ScriptTable DEF Current
<1>5. /\ Len(down[c]) \in Nat \ {0} /\ Head(down[c]) = down[c][1]
      /\ Len(down'[c]) = Len(down[c]) - 1
      /\ \A i \in 1 .. Len(down[c]) - 1 : down'[c][i] = down[c][i + 1]
      /\ Len(down[c]) = 1 => down'[c] = <<>>
  <2>1. Len(down[c]) \in Nat /\ Len(down[c]) # 0
    BY <1>1, EmptySeq, LenProperties
  <2>2. /\ Tail(down[c]) \in Seq(Reply) /\ Len(Tail(down[c])) = Len(down[c]) - 1
        /\ Head(down[c]) = down[c][1]
        /\ \A i \in 1 .. Len(down[c]) - 1 : Tail(down[c])[i] = down[c][i + 1]
    BY <1>1, <2>1, HeadTailProperties
  <2>3. ASSUME Len(down[c]) = 1 PROVE Tail(down[c]) = <<>>
    <3>1. Tail(down[c]) \in Seq(Reply) /\ Len(Tail(down[c])) = 0
      BY <2>2, <2>3
    <3> HIDE <2>1, <2>2
    <3> QED
      BY <3>1, EmptySeq
  <2> QED
    BY <1>1, <2>1, <2>2, <2>3
<1>6. /\ ota_state' = ota_state /\ rx' = rx /\ dev' = dev /\ boot' = boot
      /\ Held' = Held /\ Settled(c)' /\ \A s, t : ServerAt(c, s, t) => ServerAt(c, s, t)'
  <2>1. UNCHANGED vars /\ Settled(c)
    BY DEF Joint
  <2> QED
    BY <2>1, ServerAlone
<1>7. SayLen(c, n) \in Nat /\ Hear(c, n) \cap ResponseError = {}
  BY LineFits
<1>8. ASSUME NEW z \in 1 .. LastLine(c), Answered(c, z), n < z, z - n <= Len(down[c]),
             n + 1 < z \/ SayLen(c, z) = 0
      PROVE  Answered(c, z)' /\ step'[c] = n + 1
  <2>1. /\ \A k \in n + 1 .. z - 1 : SayLen(c, k) = 0
        /\ \A i \in 1 .. z - n : down[c][i].code \in Hear(c, n + i - 1)
    BY <1>3, <1>8 DEF Answered
  <2>2. step'[c] = n + 1
    <3>1. 1 \in 1 .. z - n /\ n + 1 - 1 = n
      BY <1>8
    <3>2. down[c][1].code \in Hear(c, n)
      BY <2>1, <3>1
    <3> QED
      BY <1>1, <1>3, <1>4, <1>5, <3>2
  <2>3. SayLen(c, n + 1) = 0
    <3>1. n + 1 \in n + 1 .. z - 1 \/ n + 1 = z
      BY <1>8
    <3> QED
      BY <1>8, <2>1, <3>1
  <2>4. \A k \in n + 1 + 1 .. z - 1 : SayLen(c, k) = 0
    BY <2>1
  <2>5. ASSUME NEW i \in 1 .. z - (n + 1)
        PROVE  down'[c][i].code \in Hear(c, n + 1 + i - 1)
    <3>1. i \in 1 .. Len(down[c]) - 1 /\ i + 1 \in 1 .. z - n /\ n + 1 + i - 1 = n + (i + 1) - 1
      BY <1>5, <1>8
    <3>2. down'[c][i] = down[c][i + 1]
      BY <1>5, <3>1
    <3> QED
      BY <2>1, <3>1, <3>2
  <2>6. PICK j \in Nat : j = n + 1
    OBVIOUS
  <2>7. /\ step'[c] = j /\ said'[c] = SayLen(c, j)
        /\ \A k \in j + 1 .. z - 1 : SayLen(c, k) = 0
        /\ \A i \in 1 .. z - j : down'[c][i].code \in Hear(c, j + i - 1)
    BY <1>1, <2>2, <2>3, <2>4, <2>5, <2>6
  <2>8. Answered(c, z)'
    BY <2>7 DEF Answered
  <2> QED
    BY <2>2, <2>8
<1>9. step'[c] # 0 => tries'[c] > 0
  BY <1>1, <1>3 DEF Joint
<1>10. Quiet(c)' \/ \E s \in 1 .. LastLine(c), t \in Nat : Talking(c, s, t)'
  <2>1. CASE Quiet(c)
    <3>1. PICK z \in 1 .. LastLine(c) :
            /\ n \in 1 .. z /\ Answered(c, z) /\ (n # z => SayLen(c, z) = 0)
            /\ Len(down[c]) = z - n + 1
            /\ down[c][z - n + 1].code \in ResponseError
      BY <1>2, <1>3, <2>1 DEF Quiet
    <3>2. ota_state' = "IDLE" /\ Silence' /\ dev = "run"
      BY <1>1, <1>2, <1>3, <1>6, <2>1 DEF Quiet, Silence
    <3>3. CASE n = z
      <4>1. z - n + 1 = 1
        BY <3>3
      <4>2. step'[c] = 0
        BY <1>1, <1>4, <1>5, <1>7, <3>1, <4>1
      <4> QED
        BY <3>2, <4>2 DEF Quiet
    <3>4. CASE n # z
      <4>1. n < z /\ z - n <= Len(down[c])
        BY <3>1, <3>4
      <4>2. Answered(c, z)' /\ step'[c] = n + 1
        BY <1>8, <3>1, <3>4, <4>1
      <4>3. PICK j \in Nat : j = n + 1 /\ j \in 1 .. z /\ z - n = z - j + 1
        BY <4>1
      <4>4. Len(down'[c]) = z - j + 1
        BY <1>5, <3>1, <4>3
      <4>5. down'[c][z - j + 1].code \in ResponseError
        <5>1. z - n \in 1 .. Len(down[c]) - 1 /\ z - n + 1 = (z - n) + 1
          BY <3>1, <4>1
        <5>2. down'[c][z - n] = down[c][z - n + 1]
          BY <1>5, <5>1
        <5> QED
          BY <3>1, <4>3, <5>2
      <4>6. j # z => SayLen(c, z) = 0
        BY <3>1, <3>4
      <4>7. step'[c] = j
        BY <4>2, <4>3
      <4> QED
        BY <1>6, <3>2, <4>2, <4>3, <4>4, <4>5, <4>6, <4>7 DEF Quiet
    <3> QED
      BY <3>3, <3>4
  <2>2. CASE ~Quiet(c)
    <3>1. PICK s \in 1 .. LastLine(c), t \in Nat : Talking(c, s, t)
      BY <2>2 DEF Joint
    <3>2. Ahead(c, s, t)
      BY <1>1, <1>2, <1>3, <3>1 DEF Talking, Saying, Leaving
    <3>3. /\ n \in 1 .. s - 1 /\ Len(down[c]) = s - n /\ Answered(c, s)
          /\ t = 0 /\ Silence /\ ServerAt(c, s, 0) /\ dev = "run"
      BY <1>3, <3>1, <3>2 DEF Ahead, Talking
    <3>4. Silence' /\ ServerAt(c, s, 0)' /\ dev' = "run"
      BY <1>1, <1>6, <3>3 DEF Silence
    <3>5. CASE n + 1 < s
      <4>1. n < s /\ s - n <= Len(down[c])
        BY <3>3, <3>5
      <4>2. Answered(c, s)' /\ step'[c] = n + 1
        BY <1>8, <3>3, <3>5, <4>1
      <4>3. PICK j \in Nat : j = n + 1 /\ j \in 1 .. s - 1 /\ s - n - 1 = s - j
        BY <3>5
      <4>4. Len(down'[c]) = s - j
        BY <1>5, <3>3, <4>3
      <4>5. Ahead(c, s, 0)'
        BY <3>4, <4>2, <4>3, <4>4 DEF Ahead
      <4> QED
        BY <3>4, <4>5 DEF Talking
    <3>6. CASE ~(n + 1 < s)
      <4>1. n + 1 = s /\ Len(down[c]) = 1
        BY <3>3, <3>6
      <4>2. step'[c] = s
        <5>1. 1 \in 1 .. s - n /\ n + 1 - 1 = n
          BY <4>1
        <5>2. down[c][1].code \in Hear(c, n)
          BY <1>3, <3>3, <5>1 DEF Answered
        <5> QED
          BY <1>1, <1>3, <1>4, <1>5, <4>1, <5>2
      <4>3. down'[c] = <<>> /\ said'[c] = 0 /\ SayLen(c, s) \in Nat
        BY <1>1, <1>5, <4>1, LineFits
      <4>4. rx' = <<>> /\ net' = <<>>
        BY <3>4 DEF Silence
      <4>5. Held' = <<>>
        <5>1. TypeOK /\ ServerAt(c, s, 0)
          BY <3>3 DEF SysInv
        <5>2. Held = <<>>
          BY <5>1, NothingHeld
        <5> QED
          BY <1>6, <5>2
      <4>6. Way(rx', net', 0, Said(c, s)', said'[c]) /\ Spells(Held', Said(c, s)')
        BY <4>3, <4>4, <4>5, WayNone DEF Spells
      <4>7. Way(rx, net, 0, Said(c, s), said[c])'
        BY <4>6 DEF Way, Totals
      <4>8. Spells(Held, Said(c, s))'
        BY <4>6 DEF Spells
      <4>9. Saying(c, s, 0)'
        BY <4>2, <4>3, <4>7, <4>8 DEF Saying
      <4> QED
        BY <3>4, <4>9 DEF Talking
    <3> QED
      BY <3>5, <3>6
  <2> QED
    BY <2>1, <2>2
<1> QED
  BY <1>1, <1>6, <1>9, <1>10 DEF Joint

------------------------------------------------------------------------------
(* The system.                                                             *)

(* Nothing has begun.                                                      *)
LEMMA JointInit ==
  ASSUME Reliable, NEW c \in Client, SysInit
  PROVE  Joint(c)
<1>1. /\ dev = "boot" /\ pc = "main" /\ ota_state = "IDLE" /\ ~has_peer /\ rx = <<>>
      /\ auth_in = <<>> /\ ~proved /\ elapsed = 0 /\ uptime = 0 /\ boot = <<>>
      /\ net = <<>> /\ step[c] = 0 /\ repeats = 0
  BY DEF SysInit, Init
<1>2. Quiet(c)
  BY <1>1 DEF Quiet, Silence
<1>3. Settled(c)
  BY <1>1 DEF Settled
<1>4. \A i \in 1 .. Len(net) : net[i].from = c
  <2>1. Len(net) = 0
    BY <1>1, EmptySeq
  <2> QED
    BY <2>1
<1> QED
  BY <1>1, <1>2, <1>3, <1>4 DEF Joint

(* Nothing on the way is lost: what is, is there while the node runs.      *)
LEMMA NothingLost ==
  ASSUME Reliable, NEW c \in Client, Joint(c)
  PROVE  ~LoseFrame
<1> SUFFICES ASSUME net # <<>>, dev # "run" PROVE FALSE
  BY DEF LoseFrame, Reliable
<1>1. CASE Quiet(c)
  BY <1>1 DEF Quiet, Silence
<1>2. CASE \E s \in 1 .. LastLine(c), t \in Nat : Talking(c, s, t)
  BY <1>2 DEF Talking
<1> QED
  BY <1>1, <1>2 DEF Joint

(* Nothing happens.                                                        *)
LEMMA JointStays ==
  ASSUME NEW c \in Client, Joint(c), UNCHANGED sysVars
  PROVE  Joint(c)'
<1>1. /\ UNCHANGED vars /\ net' = net /\ down' = down /\ step' = step /\ said' = said
      /\ nonce' = nonce /\ tries' = tries /\ repeats' = repeats
  BY DEF sysVars, clientVars
<1>2. /\ \A s, t : ServerAt(c, s, t)' <=> ServerAt(c, s, t)
      /\ Held' = Held /\ (Settled(c)' <=> Settled(c))
      /\ ota_state' = ota_state /\ rx' = rx /\ dev' = dev /\ boot' = boot
  BY <1>1, ServerAlone
<1>3. \A s : Said(c, s)' = Said(c, s)
  BY <1>1, NextLine
<1>4. ASSUME NEW s \in 1 .. LastLine(c), NEW t \in Nat, Talking(c, s, t)
      PROVE  Talking(c, s, t)'
  <2>1. /\ dev' = "run" /\ ServerAt(c, s, t)'
    BY <1>2, <1>4 DEF Talking
  <2>2. \A e : Way(rx, net, t, Said(c, s), e) => Way(rx', net', t, Said(c, s)', e)
    BY <1>1, <1>2, <1>3
  <2>3. ASSUME Saying(c, s, t) PROVE Saying(c, s, t)'
    <3>1. Way(rx', net', t, Said(c, s)', said'[c])
      BY <1>1, <2>2, <2>3 DEF Saying
    <3>2. Way(rx, net, t, Said(c, s), said[c])'
      BY <3>1 DEF Way, Totals
    <3>3. Spells(Held', Said(c, s)')
      BY <1>2, <1>3, <2>3 DEF Saying
    <3>4. Spells(Held, Said(c, s))'
      BY <3>3 DEF Spells
    <3> QED
      BY <1>1, <2>3, <3>2, <3>4 DEF Saying
  <2>4. ASSUME Ahead(c, s, t) PROVE Ahead(c, s, t)'
    BY <1>1, <1>2, <2>4 DEF Ahead, Answered, Silence
  <2>5. ASSUME Leaving(c, s, t) PROVE Leaving(c, s, t)'
    <3>1. Way(rx', net', t, Said(c, s)', 1)
      BY <2>2, <2>5 DEF Leaving
    <3>2. Way(rx, net, t, Said(c, s), 1)'
      BY <3>1 DEF Way, Totals
    <3> QED
      BY <1>1, <2>5, <3>2 DEF Leaving
  <2> QED
    BY <1>4, <2>1, <2>3, <2>4, <2>5 DEF Talking
<1>5. Quiet(c) => Quiet(c)'
  BY <1>1, <1>2 DEF Quiet, Silence, Answered
<1>6. (Quiet(c) \/ \E s \in 1 .. LastLine(c), t \in Nat : Talking(c, s, t))'
  BY <1>4, <1>5 DEF Joint
<1> QED
  BY <1>1, <1>2, <1>6 DEF Joint

(* Whatever happens.                                                       *)
LEMMA JointStep ==
  ASSUME Reliable, Protocol, NEW c \in Client, Client = {c}, SysInv, SysInv', SecretInv,
         Joint(c), [SysNext]_sysVars
  PROVE  Joint(c)'
<1>1. TypeOK' /\ (ota_state = "AUTH_READ" => auth_nonce \in Nonce)
  BY DEF SysInv, SecretInv
<1>2. CASE NodeStep
  BY <1>1, <1>2, NodeKeeps
<1>3. CASE Deliver
  BY <1>1, <1>3, DeliverKeeps
<1>4. ~Overtake /\ ~RepeatFrame /\ ~LoseFrame
  <2>1. repeats = 0
    BY DEF Joint
  <2> QED
    BY <2>1, NothingLost DEF Overtake, RepeatFrame, Reliable
<1>5. CASE ClientStep(c) \/ LoseStatus(c)
  <2>1. ClientPlays(c)
    BY <1>5 DEF ClientStep, ClientGiveUp, LoseStatus, Reliable
  <2>2. UNCHANGED <<vars, repeats>>
    BY <2>1 DEF ClientPlays
  <2>3. CASE ClientStart(c)
    BY <2>2, <2>3, StartKeeps
  <2>4. CASE ClientSay(c)
    BY <2>2, <2>4, SayKeeps
  <2>5. CASE ClientHear(c)
    BY <2>2, <2>5, HearKeeps
  <2> QED
    BY <2>1, <2>3, <2>4, <2>5 DEF ClientPlays
<1>6. CASE UNCHANGED sysVars
  BY <1>6, JointStays
<1>7. CASE SysNext
  <2>1. \/ \E d \in Client : d = c /\ (ClientStep(d) \/ LoseStatus(d))
        \/ NodeStep \/ Deliver \/ Overtake \/ LoseFrame \/ RepeatFrame
    BY <1>7 DEF SysNext
  <2> QED
    BY <1>2, <1>3, <1>4, <1>5, <2>1
<1> QED
  BY <1>6, <1>7

(* (What is needed of the challenge: see OnlyAfterKnowingCorrect.)         *)
LEMMA SecretInvCorrect == SysSpec => []SecretInv
<1>1. SysInit => SecretInv
  BY EmptySeq DEF SysInit, Init, SecretInv
<1>2. SysInv /\ SecretInv /\ [SysNext]_sysVars => SecretInv'
  BY SecretStep
<1> QED
  BY <1>1, <1>2, SysInvCorrect, PTL DEF SysSpec

(* The only client and the server are always at the same line.             *)
LEMMA JointCorrect ==
  ASSUME Reliable, Protocol, NEW c \in Client, Client = {c}
  PROVE  SysSpec => []Joint(c)
<1>1. SysInit => Joint(c)
  BY JointInit
<1>2. SysInv /\ SysInv' /\ SecretInv /\ Joint(c) /\ [SysNext]_sysVars => Joint(c)'
  BY JointStep
<1> QED
  BY <1>1, <1>2, SysInvCorrect, SecretInvCorrect, PTL DEF SysSpec

(* Without datagrams nothing is in flight.                                 *)
LEMMA NothingFlies == ASSUME NEW c, net = <<>> PROVE InFlight(c) = 0
<1>1. {k \in DOMAIN net : net[k].from = c} = {}
  <2>1. DOMAIN net = {}
    OBVIOUS
  <2> QED
    BY <2>1
<1>2. BytesOf(net, c) = {}
  BY <1>1 DEF BytesOf
<1> QED
  BY <1>2, FS_EmptySet DEF InFlight

(* What is unread of a line, or all of it, fits into the receive buffer.   *)
LEMMA WindowHolds ==
  ASSUME Protocol, NEW c \in Client, SysInv, Joint(c)
  PROVE  ReceiveWindow
<1> SUFFICES ASSUME has_peer PROVE Len(rx) + InFlight(peer) <= RxRingMax
  BY DEF ReceiveWindow
<1>1. peer = c
  BY DEF Joint, Settled
<1>2. RxRingMax \in Nat
  BY LimitAssumption
<1>3. CASE Silence
  <2>1. Len(rx) = 0 /\ InFlight(peer) = 0
    BY <1>3, NothingFlies, EmptySeq DEF Silence
  <2> QED
    BY <1>2, <2>1
<1>4. ASSUME NEW s \in 1 .. LastLine(c), NEW t \in Nat, Talking(c, s, t), ~Silence
      PROVE  Len(rx) + InFlight(peer) <= RxRingMax
  <2>1. rx \in Seq(Byte) /\ net \in Seq(Flying) /\ Len(rx) \in Nat
        /\ SayLen(c, s) \in Nat /\ SayLen(c, s) <= RxRingMax
    BY <1>4, TalkingServes DEF Joint
  <2>2. PICK e \in 0 .. SayLen(c, s) : Way(rx, net, t, Said(c, s), e)
    <3>1. CASE Saying(c, s, t)
      <4>1. said[c] \in Nat /\ said[c] <= SayLen(c, s)
        BY <3>1 DEF Saying, SysInv, ClientTypes
      <4> QED
        BY <2>1, <3>1, <4>1 DEF Saying
    <3>2. CASE Leaving(c, s, t)
      <4>1. SayLen(c, s) = 1
        BY <3>2, TableFacts DEF Leaving
      <4> QED
        BY <3>2, <4>1 DEF Leaving
    <3> QED
      BY <1>4, <3>1, <3>2 DEF Talking, Ahead
  <2>3. \A i \in 1 .. Len(net) : net[i].from = c
    BY DEF Joint
  <2>4. t + Len(rx) + InFlight(c) = e /\ InFlight(c) \in Nat
    BY <2>1, <2>2, <2>3, WayInFlight DEF InFlight
  <2> QED
    BY <1>1, <1>2, <2>1, <2>2, <2>4
<1> QED
  BY <1>3, <1>4 DEF Joint, Quiet

(* The receive buffer never overflows (ReceiveWindow): the client goes on  *)
(* to a block only when it has been told CHUNK_OK, and the server says so  *)
(* when it has taken all of the block before.                              *)
THEOREM ReceiveWindowCorrect ==
  ASSUME \E c \in Node : Node = {c}, Reliable, Protocol
  PROVE  SysSpec => []ReceiveWindow
<1>1. PICK c \in Client : Client = {c}
  BY DEF Client
<1>2. SysInv /\ Joint(c) => ReceiveWindow
  BY WindowHolds
<1> QED
  BY <1>1, <1>2, JointCorrect, SysInvCorrect, PTL

(* Nothing that the client does brings the node down (NoCrash): handlers   *)
(* call through a null backend_ only after the session was torn down while *)
(* readall_() yields, which takes a datagram that overflows the buffer.    *)
THEOREM NoCrashCorrect ==
  ASSUME \E c \in Node : Node = {c}, Reliable, Protocol
  PROVE  SysSpec => []NoCrash
<1>1. PICK c \in Client : Client = {c}
  BY DEF Client
<1>2. Joint(c) => NoCrash
  BY DEF Joint, NoCrash
<1>3. SysSpec => []Joint(c)
  BY <1>1, JointCorrect
<1> QED
  BY <1>2, <1>3, PTL

(* With a password the node boots what a client offered that knows it, and *)
(* that has begun an update (OnlyKnowing), provided that the answer of one *)
(* who does not is wrong.                                                  *)
THEOREM OnlyKnowingCorrect ==
  ASSUME \E c \in Node : Node = {c}, Reliable, Protocol, Unforgeable
  PROVE  SysSpec => []OnlyKnowing
<1>1. PICK c \in Client : Client = {c}
  BY DEF Client
<1>2. Joint(c) => OnlyKnowing
  BY DEF Joint, OnlyKnowing
<1>3. SysSpec => []Joint(c)
  BY <1>1, JointCorrect
<1> QED
  BY <1>2, <1>3, PTL
==============================================================================
