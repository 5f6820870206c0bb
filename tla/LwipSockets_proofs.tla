------------------------- MODULE LwipSockets_proofs -------------------------
(***************************************************************************)
(* Proofs about LwipSockets, for every value of its constants.             *)
(***************************************************************************)
EXTENDS LwipSockets, SequenceTheorems, TLAPS

------------------------------------------------------------------------------
(* Facts about the helpers.                                                *)

LEMMA FunctionIsSeq ==
  ASSUME NEW S, NEW n \in Nat, NEW f \in [1 .. n -> S]
  PROVE  f \in Seq(S) /\ Len(f) = n
<1>1. f \in Seq(S)
  BY SeqDef
<1>2. 1 .. Len(f) = 1 .. n
  BY <1>1, LenProperties
<1> QED
  BY <1>1, <1>2, LenProperties

LEMMA FreshType ==
  ASSUME NEW c \in Conn, sent[c] \in Nat, NEW n \in Nat
  PROVE  /\ Fresh(c, n) \in Seq(Nat) /\ Len(Fresh(c, n)) = n
         /\ \A i \in 1 .. n : Fresh(c, n)[i] = sent[c] + i
<1>1. Fresh(c, n) \in [1 .. n -> Nat]
  BY DEF Fresh
<1> QED
  BY <1>1, FunctionIsSeq DEF Fresh

LEMMA DropType ==
  ASSUME NEW S, NEW s \in Seq(S), NEW n \in 0 .. Len(s)
  PROVE  /\ Drop(s, n) \in Seq(S)
         /\ Len(Drop(s, n)) = Len(s) - n
         /\ \A i \in 1 .. Len(s) - n : Drop(s, n)[i] = s[n + i]
<1>1. Len(s) \in Nat
  BY LenProperties
<1>2. \A i \in n + 1 .. Len(s) : s[i] \in S
  BY <1>1, ElementOfSeq
<1>3. /\ SubSeq(s, n + 1, Len(s)) \in Seq(S)
      /\ Len(SubSeq(s, n + 1, Len(s))) =
           IF n + 1 <= Len(s) THEN Len(s) - (n + 1) + 1 ELSE 0
      /\ \A i \in 1 .. Len(s) - (n + 1) + 1 :
           SubSeq(s, n + 1, Len(s))[i] = s[n + 1 + i - 1]
  BY <1>1, <1>2, SubSeqProperties
<1> QED
  BY <1>1, <1>3 DEF Drop

LEMMA FrontType ==
  ASSUME NEW S, NEW s \in Seq(S), NEW n \in 0 .. Len(s)
  PROVE  /\ SubSeq(s, 1, n) \in Seq(S)
         /\ Len(SubSeq(s, 1, n)) = n
         /\ \A i \in 1 .. n : SubSeq(s, 1, n)[i] = s[i]
<1>1. Len(s) \in Nat
  BY LenProperties
<1>2. \A i \in 1 .. n : s[i] \in S
  BY <1>1, ElementOfSeq
<1> QED
  BY <1>1, <1>2, SubSeqProperties

------------------------------------------------------------------------------
(* Type correctness.  The bounds on arg are left to Match below: accept()  *)
(* subtracts from them.                                                    *)
WeakTypes ==
  /\ listener \in {"bound", "listening", "refused", "gone"}
  /\ accepted_pcbs \in Seq(Slot) /\ Len(accepted_pcbs) <= MaxAccepted
  /\ link \in [Conn -> {"new", "live", "gone"}]
  /\ callback \in [Conn -> {"none", "queued", "socket"}]
  /\ arg \in [Conn -> Int]
  /\ object \in [Conn -> {"none", "live", "dying", "gone"}]
  /\ pcb \in [Conn -> BOOLEAN]
  /\ rx_buf \in [Conn -> Seq(Nat)]
  /\ rx_closed \in [Conn -> BOOLEAN]
  /\ pc \in {"idle", "check", "delay", "locked", "base"}
  /\ user \in Conn \cup {NoConn}
  /\ want \in 0 .. Window
  /\ wake \in BOOLEAN
  /\ unacked \in [Conn -> Int]
  /\ pbufs \in [Conn -> Int]
  /\ sent \in [Conn -> Nat]
  /\ got \in [Conn -> Seq(Nat)]
  /\ out \in [Conn -> Seq(Nat)]
  /\ told \in [Conn -> Nat]
  /\ broken \in [Conn -> BOOLEAN]

(* Who holds what.  Each queued pcb points to its slot and each slot that  *)
(* has a pcb is pointed to; a socket in the middle of its destruction is   *)
(* the one the main loop is at work on.                                    *)
Match ==
  /\ \A c \in Conn : link[c] = "live" <=> callback[c] # "none"
  /\ \A c \in Conn :
       callback[c] = "queued" =>
         arg[c] \in Slots /\ accepted_pcbs[arg[c]].pcb = c
  /\ \A c \in Conn : callback[c] # "queued" => arg[c] = 0
  /\ \A i \in Slots :
       ~Dead(i) =>
         /\ callback[accepted_pcbs[i].pcb] = "queued"
         /\ arg[accepted_pcbs[i].pcb] = i
  /\ \A c \in Conn : callback[c] = "socket" <=> pcb[c]
  /\ \A c \in Conn : callback[c] = "socket" => object[c] \in {"live", "dying"}
  /\ \A c \in Conn : object[c] = "dying" <=> pc = "base" /\ user = c
  /\ pc # "idle" => user \in Conn
  /\ pc \in {"check", "delay", "locked"} => object[user] = "live"

Held == WeakTypes /\ Match

(* What some slots hold of a connection is a length, and so what is left   *)
(* when they are freed a number.                                           *)
LEMMA SlotBytesType ==
  ASSUME Held, NEW c \in Conn, NEW is \in SUBSET Slots
  PROVE  SlotBytes(c, is) \in Nat
<1> DEFINE mine == {i \in is : accepted_pcbs[i].from = c}
           i == CHOOSE i \in mine : TRUE
<1>1. CASE mine = {}
  BY <1>1 DEF SlotBytes
<1>2. CASE mine # {}
  <2>1. i \in Slots
    BY <1>2
  <2> HIDE DEF i
  <2>2. accepted_pcbs[i] \in Slot
    BY <2>1, ElementOfSeq DEF Held, WeakTypes, Slots
  <2>3. Len(accepted_pcbs[i].rx_buf) \in Nat
    BY <2>2, LenProperties DEF Slot
  <2> QED
    BY <1>2, <2>3 DEF SlotBytes, i
<1> QED
  BY <1>1, <1>2

LEMMA DiscardedType ==
  ASSUME Held, NEW is \in SUBSET Slots
  PROVE  Discarded(is) \in [Conn -> Int]
<1>1. \A c \in Conn : pbufs[c] - SlotBytes(c, is) \in Int
  <2> TAKE c \in Conn
  <2>1. pbufs[c] \in Int
    BY DEF Held, WeakTypes
  <2>2. SlotBytes(c, is) \in Nat
    BY SlotBytesType
  <2> QED
    BY <2>1, <2>2
<1> QED
  BY <1>1 DEF Discarded

LEMMA HeldInit ==
  ASSUME Init
  PROVE  Held
<1>1. Window \in Nat /\ MaxAccepted \in Nat
  BY LimitAssumption
<1>2. <<>> \in Seq(Slot) /\ <<>> \in Seq(Nat) /\ Len(<<>>) = 0
  BY EmptySeq
<1>3. Len(accepted_pcbs) <= MaxAccepted /\ want \in 0 .. Window
  BY <1>1, <1>2 DEF Init
<1>4. /\ rx_buf \in [Conn -> Seq(Nat)]
      /\ got \in [Conn -> Seq(Nat)] /\ out \in [Conn -> Seq(Nat)]
  BY <1>2, Zenon DEF Init
<1>5. WeakTypes
  <2>1. /\ listener \in {"bound", "listening", "refused", "gone"}
        /\ link \in [Conn -> {"new", "live", "gone"}]
        /\ callback \in [Conn -> {"none", "queued", "socket"}]
        /\ object \in [Conn -> {"none", "live", "dying", "gone"}]
        /\ pc \in {"idle", "check", "delay", "locked", "base"}
    BY DEF Init
  <2>2. /\ arg \in [Conn -> Int] /\ unacked \in [Conn -> Int]
        /\ sent \in [Conn -> Nat] /\ told \in [Conn -> Nat]
        /\ pbufs \in [Conn -> Int]
    BY DEF Init
  <2>3. /\ pcb \in [Conn -> BOOLEAN] /\ rx_closed \in [Conn -> BOOLEAN]
        /\ broken \in [Conn -> BOOLEAN] /\ wake \in BOOLEAN
        /\ user \in Conn \cup {NoConn}
    BY DEF Init
  <2>4. accepted_pcbs \in Seq(Slot)
    BY <1>2 DEF Init
  <2> QED
    BY <1>3, <1>4, <2>1, <2>2, <2>3, <2>4 DEF WeakTypes
<1>6. Match
  BY <1>2, ConnAssumption DEF Init, Match, Slots
<1> QED
  BY <1>5, <1>6 DEF Held

(* The steps that touch neither the queue nor a pcb.                       *)
LEMMA HeldQuiet ==
  ASSUME Held,
         \/ Listen \/ LoopWoken \/ Check \/ Woken \/ WaitOver
         \/ \E c \in Conn, len \in 1 .. Window : Read(c, len)
  PROVE  Held'
<1>1. CASE Listen
  BY <1>1 DEF Held, WeakTypes, Match, Slots, Dead, Listen, pcbVars, objectVars,
     mainVars, streamVars, writeVars
<1>2. CASE LoopWoken
  BY <1>2 DEF Held, WeakTypes, Match, Slots, Dead, LoopWoken, queueVars,
     pcbVars, objectVars, mainVars, streamVars, writeVars
<1>3. CASE Check
  BY <1>3 DEF Held, WeakTypes, Match, Slots, Dead, Check, queueVars, pcbVars,
     objectVars, streamVars, writeVars
<1>4. CASE Woken
  BY <1>4 DEF Held, WeakTypes, Match, Slots, Dead, Woken, queueVars, pcbVars,
     objectVars, streamVars, writeVars
<1>5. CASE WaitOver
  BY <1>5 DEF Held, WeakTypes, Match, Slots, Dead, WaitOver, queueVars,
     pcbVars, objectVars, streamVars, writeVars
<1>6. CASE \E c \in Conn, len \in 1 .. Window : Read(c, len)
  <2>1. PICK c \in Conn, len \in 1 .. Window : Read(c, len)
    BY <1>6
  <2>2. len \in 0 .. Window
    BY LimitAssumption
  <2>3. c # NoConn
    BY ConnAssumption
  <2>4. /\ pc = "idle" /\ object[c] = "live"
        /\ user' = c /\ want' = len /\ pc' \in {"check", "locked"}
        /\ UNCHANGED <<queueVars, pcbVars, objectVars, wake, pbufs,
                       streamVars, writeVars>>
    BY <2>1 DEF Read, CanUse
  <2>5. WeakTypes'
    BY <2>2, <2>4 DEF Held, WeakTypes, queueVars, pcbVars, objectVars,
       streamVars, writeVars
  <2>6. Match'
    BY <2>3, <2>4 DEF Held, Match, Slots, Dead, queueVars, pcbVars, objectVars
  <2> QED
    BY <2>5, <2>6 DEF Held
<1> QED
  BY <1>1, <1>2, <1>3, <1>4, <1>5, <1>6

LEMMA HeldReadLocked ==
  ASSUME Held, ReadLocked
  PROVE  Held'
<1> DEFINE n == Lesser(want, Len(rx_buf[user]))
<1>1. user \in Conn /\ rx_buf[user] \in Seq(Nat) /\ got[user] \in Seq(Nat)
  BY DEF Held, WeakTypes, Match, ReadLocked
<1>2. n \in 0 .. Len(rx_buf[user])
  BY <1>1, LenProperties DEF Held, WeakTypes, Lesser
<1>3. /\ SubSeq(rx_buf[user], 1, n) \in Seq(Nat)
      /\ Drop(rx_buf[user], n) \in Seq(Nat)
  BY <1>1, <1>2, FrontType, DropType
<1>4. got[user] \o SubSeq(rx_buf[user], 1, n) \in Seq(Nat)
  BY <1>1, <1>3, ConcatProperties
<1>5. unacked[user] - n \in Int
  BY <1>1, <1>2, LenProperties DEF Held, WeakTypes
<1>6. /\ got' \in [Conn -> Seq(Nat)]
      /\ rx_buf' \in [Conn -> Seq(Nat)]
      /\ unacked' \in [Conn -> Int]
      /\ pbufs' \in [Conn -> Int]
  <2>1. CASE UNCHANGED <<rx_buf, got, unacked, pbufs>>
    BY <2>1 DEF Held, WeakTypes
  <2>2. CASE /\ got' = [got EXCEPT ![user] = @ \o SubSeq(rx_buf[user], 1, n)]
             /\ rx_buf' = [rx_buf EXCEPT ![user] = Drop(@, n)]
             /\ unacked' = [unacked EXCEPT ![user] = unacked[user] - n]
             /\ pbufs' = [pbufs EXCEPT ![user] = @ - n]
    <3> HIDE DEF n
    <3>1. got' \in [Conn -> Seq(Nat)]
      BY <1>4, <2>2 DEF Held, WeakTypes
    <3>2. rx_buf' \in [Conn -> Seq(Nat)]
      BY <1>3, <2>2 DEF Held, WeakTypes
    <3>3. unacked' \in [Conn -> Int]
      BY <1>5, <2>2 DEF Held, WeakTypes
    <3>4. pbufs' \in [Conn -> Int]
      <4>1. pbufs[user] - n \in Int
        BY <1>1, <1>2, LenProperties DEF Held, WeakTypes
      <4> QED
        BY <2>2, <4>1 DEF Held, WeakTypes
    <3> QED
      BY <3>1, <3>2, <3>3, <3>4
  <2> QED
    BY <2>1, <2>2 DEF ReadLocked, Recved
<1>7. Window >= 0
  BY LimitAssumption
<1>8. WeakTypes'
  <2>1. /\ pc' = "idle" /\ user' = NoConn /\ want' = 0
        /\ UNCHANGED <<queueVars, pcbVars, object, pcb, rx_closed, wake, sent,
                       writeVars>>
    BY DEF ReadLocked
  <2>2. want' \in 0 .. Window
    BY <1>7, <2>1
  <2> QED
    BY <1>6, <2>1, <2>2 DEF Held, WeakTypes, queueVars, pcbVars, writeVars
<1>9. Match'
  BY ConnAssumption DEF ReadLocked, Held, WeakTypes, Match, Slots, Dead,
     queueVars, pcbVars
<1> QED
  BY <1>8, <1>9 DEF Held

LEMMA HeldWrite ==
  ASSUME Held, NEW c \in Conn, NEW len \in 1 .. Tx[c], Write(c, len)
  PROVE  Held'
<1>1. \A n \in 1 .. len :
        LET s == SubSeq(Offer(c, len), 1, n) IN
        /\ out[c] \o s \in Seq(Nat)
        /\ Len(out[c] \o s) - Len(out[c]) \in Nat
  <2> SUFFICES ASSUME NEW n \in 1 .. len
               PROVE  LET s == SubSeq(Offer(c, len), 1, n) IN
                      /\ out[c] \o s \in Seq(Nat)
                      /\ Len(out[c] \o s) - Len(out[c]) \in Nat
    OBVIOUS
  <2>1. len \in Nat /\ n \in 0 .. len
    BY LimitAssumption
  <2>2. Offer(c, len) \in Seq(Nat) /\ Len(Offer(c, len)) = len
    <3>1. told[c] \in Nat
      BY DEF Held, WeakTypes
    <3>2. \A i \in 1 .. len : told[c] + i \in Nat
      BY <2>1, <3>1
    <3>3. Offer(c, len) \in [1 .. len -> Nat]
      BY <3>2 DEF Offer
    <3> QED
      BY <2>1, <3>3, FunctionIsSeq
  <2>3. SubSeq(Offer(c, len), 1, n) \in Seq(Nat)
    BY <2>1, <2>2, FrontType
  <2>4. out[c] \in Seq(Nat)
    BY DEF Held, WeakTypes
  <2> DEFINE s == SubSeq(Offer(c, len), 1, n)
  <2> HIDE DEF s
  <2>5. s \in Seq(Nat)
    BY <2>3 DEF s
  <2>6. out[c] \o s \in Seq(Nat) /\ Len(out[c] \o s) = Len(out[c]) + Len(s)
    BY <2>4, <2>5, ConcatProperties
  <2>7. Len(s) \in Nat /\ Len(out[c]) \in Nat
    BY <2>4, <2>5, LenProperties
  <2>8. Len(out[c] \o s) - Len(out[c]) \in Nat
    BY <2>6, <2>7
  <2> QED
    BY <2>6, <2>8 DEF s
<1>2. /\ out' \in [Conn -> Seq(Nat)]
      /\ told' \in [Conn -> Nat]
      /\ broken' \in [Conn -> BOOLEAN]
  <2>1. CASE UNCHANGED <<out, told>>
    BY <2>1 DEF Write, OutputFails, Held, WeakTypes
  <2>2. CASE \E n \in 1 .. len :
               out' = [out EXCEPT ![c] = @ \o SubSeq(Offer(c, len), 1, n)]
    <3>1. PICK n \in 1 .. len :
                 out' = [out EXCEPT ![c] = @ \o SubSeq(Offer(c, len), 1, n)]
      BY <2>2
    <3> DEFINE s == SubSeq(Offer(c, len), 1, n)
    <3>2. /\ out[c] \o s \in Seq(Nat) /\ Len(out[c] \o s) - Len(out[c]) \in Nat
      BY <1>1
    <3> HIDE DEF s
    <3>3. out' = [out EXCEPT ![c] = out[c] \o s]
      BY <3>1 DEF s
    <3>4. out' \in [Conn -> Seq(Nat)] /\ out'[c] = out[c] \o s
      BY <3>2, <3>3 DEF Held, WeakTypes
    <3>5. Len(out'[c]) \in Nat /\ Len(out[c]) \in Nat /\ told[c] \in Nat
      <4> out'[c] \in Seq(Nat) /\ out[c] \in Seq(Nat) /\ told[c] \in Nat
        BY <3>4 DEF Held, WeakTypes
      <4> QED
        BY LenProperties
    <3> DEFINE d == told[c] + Len(out'[c]) - Len(out[c])
    <3>6. d \in Nat
      <4> DEFINE a == Len(out'[c])  b == Len(out[c])
      <4>1. a - b \in Nat
        BY <3>2, <3>4
      <4> HIDE DEF a, b
      <4>2. a \in Nat /\ b \in Nat
        BY <3>5 DEF a, b
      <4>3. told[c] + a - b \in Nat
        BY <3>5, <4>1, <4>2
      <4> QED
        BY <4>3 DEF a, b
    <3>7. /\ \/ told' = [told EXCEPT ![c] = d]
             \/ told' = told
          /\ broken' = broken \/ broken' = [broken EXCEPT ![c] = TRUE]
      BY DEF Write, OutputFails
    <3> HIDE DEF d
    <3>8. told' \in [Conn -> Nat]
      BY <3>6, <3>7 DEF Held, WeakTypes
    <3>9. broken' \in [Conn -> BOOLEAN]
      BY <3>7 DEF Held, WeakTypes
    <3> QED
      BY <3>4, <3>8, <3>9
  <2> QED
    BY <2>1, <2>2 DEF Write
<1>3. WeakTypes'
  BY <1>2 DEF Write, Held, WeakTypes, queueVars, pcbVars, objectVars,
     mainVars, streamVars
<1>4. Match'
  BY DEF Write, Held, Match, Slots, Dead, queueVars, pcbVars, objectVars,
     mainVars
<1> QED
  BY <1>3, <1>4 DEF Held

(* A slot replaced by one of the same pcb, or of a dead one.               *)
LEMMA SlotReplaced ==
  ASSUME Held, NEW i \in Slots, NEW e \in Slot,
         accepted_pcbs' = [accepted_pcbs EXCEPT ![i] = e]
  PROVE  /\ accepted_pcbs' \in Seq(Slot)
         /\ Len(accepted_pcbs') = Len(accepted_pcbs)
         /\ \A j \in Slots :
              accepted_pcbs'[j] = IF j = i THEN e ELSE accepted_pcbs[j]
BY ExceptSeq DEF Held, WeakTypes, Slots

LEMMA SlotType ==
  ASSUME Held, NEW i \in Slots
  PROVE  accepted_pcbs[i] \in Slot
BY ElementOfSeq DEF Held, WeakTypes, Slots

LEMMA DetachType ==
  ASSUME Held, NEW cs, Detach(cs)
  PROVE  /\ link' \in [Conn -> {"new", "live", "gone"}]
         /\ callback' \in [Conn -> {"none", "queued", "socket"}]
         /\ arg' \in [Conn -> Int]
BY DEF Held, WeakTypes, Detach

LEMMA SegmentType ==
  ASSUME Held, NEW c \in Conn, NEW n \in Nat, Segment(c, n)
  PROVE  /\ sent' \in [Conn -> Nat] /\ unacked' \in [Conn -> Int]
         /\ pbufs' \in [Conn -> Int]
<1>1. sent[c] + n \in Nat /\ unacked[c] + n \in Int /\ pbufs[c] + n \in Int
  <2>1. sent[c] \in Nat /\ unacked[c] \in Int /\ pbufs[c] \in Int
    BY DEF Held, WeakTypes
  <2> QED
    BY <2>1
<1>2. sent' \in [Conn -> Nat]
  BY <1>1 DEF Segment, Held, WeakTypes
<1>3. unacked' \in [Conn -> Int]
  BY <1>1 DEF Segment, Held, WeakTypes
<1>4. pbufs' \in [Conn -> Int]
  BY <1>1 DEF Segment, Held, WeakTypes
<1> QED
  BY <1>2, <1>3, <1>4

LEMMA HeldQueuedRecv ==
  ASSUME Held, NEW c \in Conn, NEW n \in 1 .. Window, QueuedRecv(c, n)
  PROVE  Held'
<1> DEFINE k == arg[c]
           e == [accepted_pcbs[k] EXCEPT !.rx_buf = @ \o Fresh(c, n)]
<1>1. k \in Slots /\ accepted_pcbs[k].pcb = c
  BY DEF Held, Match, QueuedRecv
<1>2. accepted_pcbs[k] \in Slot
  BY <1>1, SlotType
<1>3. n \in Nat /\ sent[c] \in Nat
  BY LimitAssumption DEF Held, WeakTypes
<1>4. accepted_pcbs[k].rx_buf \o Fresh(c, n) \in Seq(Nat)
  <2>1. Fresh(c, n) \in Seq(Nat)
    BY <1>3, FreshType
  <2>2. accepted_pcbs[k].rx_buf \in Seq(Nat)
    BY <1>2 DEF Slot
  <2> QED
    BY <2>1, <2>2, ConcatProperties
<1>5. e \in Slot /\ e.pcb = c
  BY <1>1, <1>2, <1>4 DEF Slot
<1>6. accepted_pcbs' = [accepted_pcbs EXCEPT ![k] = e]
  BY DEF QueuedRecv
<1> HIDE DEF e
<1>7. /\ accepted_pcbs' \in Seq(Slot)
      /\ Len(accepted_pcbs') = Len(accepted_pcbs)
      /\ \A j \in Slots :
           accepted_pcbs'[j] = IF j = k THEN e ELSE accepted_pcbs[j]
  BY <1>1, <1>5, <1>6, SlotReplaced
<1>8. WeakTypes'
  <2>1. /\ sent' \in [Conn -> Nat] /\ unacked' \in [Conn -> Int]
        /\ pbufs' \in [Conn -> Int]
    BY <1>3, SegmentType DEF QueuedRecv
  <2> QED
    BY <1>7, <2>1 DEF QueuedRecv, Held, WeakTypes, pcbVars, objectVars,
       mainVars, writeVars
<1>9. Match'
  <2>1. \A j \in Slots : accepted_pcbs'[j].pcb = accepted_pcbs[j].pcb
    BY <1>1, <1>5, <1>7
  <2>2. Slots' = Slots
    BY <1>7 DEF Slots
  <2> QED
    BY <2>1, <2>2 DEF QueuedRecv, Held, Match, Dead, pcbVars, objectVars,
       mainVars
<1> QED
  BY <1>8, <1>9 DEF Held

LEMMA HeldQueuedFin ==
  ASSUME Held, NEW c \in Conn, QueuedFin(c)
  PROVE  Held'
<1> DEFINE k == arg[c]
           e == [accepted_pcbs[k] EXCEPT !.rx_closed = TRUE]
<1>1. k \in Slots /\ accepted_pcbs[k].pcb = c
  BY DEF Held, Match, QueuedFin
<1>2. accepted_pcbs[k] \in Slot
  BY <1>1, SlotType
<1>3. e \in Slot /\ e.pcb = c
  BY <1>1, <1>2 DEF Slot
<1>4. accepted_pcbs' = [accepted_pcbs EXCEPT ![k] = e]
  BY DEF QueuedFin
<1> HIDE DEF e
<1>5. /\ accepted_pcbs' \in Seq(Slot)
      /\ Len(accepted_pcbs') = Len(accepted_pcbs)
      /\ \A j \in Slots :
           accepted_pcbs'[j] = IF j = k THEN e ELSE accepted_pcbs[j]
  BY <1>1, <1>3, <1>4, SlotReplaced
<1>6. WeakTypes'
  BY <1>5 DEF QueuedFin, Held, WeakTypes, pcbVars, objectVars, mainVars,
     streamVars, writeVars
<1>7. Match'
  <2>1. \A j \in Slots : accepted_pcbs'[j].pcb = accepted_pcbs[j].pcb
    BY <1>1, <1>3, <1>5
  <2>2. Slots' = Slots
    BY <1>5 DEF Slots
  <2> QED
    BY <2>1, <2>2 DEF QueuedFin, Held, Match, Dead, pcbVars, objectVars,
       mainVars
<1> QED
  BY <1>6, <1>7 DEF Held

LEMMA HeldQueuedErr ==
  ASSUME Held, NEW c \in Conn, QueuedErr(c)
  PROVE  Held'
<1> DEFINE k == arg[c]
           e == [accepted_pcbs[k] EXCEPT !.pcb = NoConn]
<1>1. k \in Slots /\ accepted_pcbs[k].pcb = c
  BY DEF Held, Match, QueuedErr
<1>2. accepted_pcbs[k] \in Slot
  BY <1>1, SlotType
<1>3. e \in Slot /\ e.pcb = NoConn
  BY <1>2 DEF Slot
<1>4. accepted_pcbs' = [accepted_pcbs EXCEPT ![k] = e]
  BY DEF QueuedErr
<1> HIDE DEF e
<1>5. /\ accepted_pcbs' \in Seq(Slot)
      /\ Len(accepted_pcbs') = Len(accepted_pcbs)
      /\ \A j \in Slots :
           accepted_pcbs'[j] = IF j = k THEN e ELSE accepted_pcbs[j]
  BY <1>1, <1>3, <1>4, SlotReplaced
<1>6. WeakTypes'
  BY <1>5, DetachType DEF QueuedErr, Held, WeakTypes, objectVars, mainVars,
     streamVars, writeVars
<1>7. Match'
  <2>1. \A j \in Slots :
          accepted_pcbs'[j].pcb = IF j = k THEN NoConn ELSE accepted_pcbs[j].pcb
    BY <1>3, <1>5
  <2>2. Slots' = Slots
    BY <1>5 DEF Slots
  <2>3. \A j \in Slots : ~Dead(j) => accepted_pcbs[j].pcb \in Conn
    BY SlotType DEF Slot, Dead
  <2>4. /\ \A d \in Conn : d # c =>
             link'[d] = link[d] /\ callback'[d] = callback[d] /\ arg'[d] = arg[d]
        /\ link'[c] = "gone" /\ callback'[c] = "none" /\ arg'[c] = 0
    BY DEF QueuedErr, Detach
  <2>5. callback[c] = "queued"
    BY DEF QueuedErr
  <2>6. UNCHANGED <<object, pcb, pc, user>>
    BY DEF QueuedErr, objectVars, mainVars
  <2> QED
    BY <1>1, <2>1, <2>2, <2>3, <2>4, <2>5, <2>6, ConnAssumption
       DEF Held, Match, Dead
<1> QED
  BY <1>6, <1>7 DEF Held

LEMMA HeldRecvFn ==
  ASSUME Held, NEW c \in Conn, NEW n \in 1 .. Window, RecvFn(c, n)
  PROVE  Held'
<1>1. n \in Nat /\ sent[c] \in Nat /\ rx_buf[c] \in Seq(Nat)
  BY LimitAssumption DEF Held, WeakTypes
<1>2. rx_buf[c] \o Fresh(c, n) \in Seq(Nat)
  BY <1>1, FreshType, ConcatProperties
<1>3. /\ sent' \in [Conn -> Nat] /\ unacked' \in [Conn -> Int]
      /\ pbufs' \in [Conn -> Int]
      /\ rx_buf' \in [Conn -> Seq(Nat)]
  <2>1. /\ sent' \in [Conn -> Nat] /\ unacked' \in [Conn -> Int]
        /\ pbufs' \in [Conn -> Int]
    BY <1>1, SegmentType DEF RecvFn
  <2>2. rx_buf' \in [Conn -> Seq(Nat)]
    BY <1>2 DEF RecvFn, Held, WeakTypes
  <2> QED
    BY <2>1, <2>2
<1>4. WeakTypes'
  BY <1>3 DEF RecvFn, RecvWakes, Held, WeakTypes, queueVars, pcbVars,
     mainVars, writeVars
<1>5. Match'
  BY DEF RecvFn, Held, Match, Dead, Slots, queueVars, pcbVars, mainVars
<1> QED
  BY <1>4, <1>5 DEF Held

LEMMA HeldFin ==
  ASSUME Held, NEW c \in Conn, Fin(c)
  PROVE  Held'
<1>1. WeakTypes'
  BY DEF Fin, Held, WeakTypes, queueVars, pcbVars, mainVars, streamVars,
     writeVars
<1>2. Match'
  BY DEF Fin, Held, Match, Dead, Slots, queueVars, pcbVars, mainVars
<1> QED
  BY <1>1, <1>2 DEF Held

LEMMA HeldAcceptFn ==
  ASSUME Held, NEW c \in Conn, AcceptFn(c)
  PROVE  Held'
<1>1. callback[c] = "none"
  BY DEF AcceptFn, Held, WeakTypes, Match
<1>2. CASE QueueFull /\ Detach({c}) /\ UNCHANGED <<accepted_pcbs, wake>>
  <2>1. WeakTypes'
    BY <1>2, DetachType DEF AcceptFn, Held, WeakTypes, objectVars, mainVars,
       streamVars, writeVars
  <2>2. /\ \A d \in Conn : d # c =>
             link'[d] = link[d] /\ callback'[d] = callback[d] /\ arg'[d] = arg[d]
        /\ link'[c] = "gone" /\ callback'[c] = "none" /\ arg'[c] = 0
    BY <1>2 DEF Detach
  <2>3. \A j \in Slots : ~Dead(j) => accepted_pcbs[j].pcb \in Conn \ {c}
    BY <1>1, SlotType DEF Slot, Dead, Held, Match
  <2>4. UNCHANGED <<accepted_pcbs, object, pcb, pc, user>>
    BY <1>2 DEF AcceptFn, objectVars, mainVars
  <2>5. Match'
    BY <1>1, <2>2, <2>3, <2>4 DEF Held, Match, Dead, Slots
  <2> QED
    BY <2>1, <2>5 DEF Held
<1>3. CASE ~QueueFull /\ ~(QueueFull /\ Detach({c}))
  <2> DEFINE e == [pcb |-> c, from |-> c, rx_buf |-> <<>>, rx_closed |-> FALSE]
             n == Len(accepted_pcbs)
  <2>1. e \in Slot
    BY EmptySeq DEF Slot
  <2>2. accepted_pcbs' = Append(accepted_pcbs, e)
    BY <1>3 DEF AcceptFn
  <2> HIDE DEF e
  <2>3. n \in Nat /\ MaxAccepted \in Nat /\ n < MaxAccepted
    BY <1>3, LenProperties, LimitAssumption DEF QueueFull, Held, WeakTypes
  <2>4. /\ accepted_pcbs' \in Seq(Slot)
        /\ Len(accepted_pcbs') = n + 1
        /\ \A i \in 1 .. n : accepted_pcbs'[i] = accepted_pcbs[i]
        /\ accepted_pcbs'[n + 1] = e
    BY <2>1, <2>2, AppendProperties DEF Held, WeakTypes
  <2>5. /\ link' = [link EXCEPT ![c] = "live"]
        /\ callback' = [callback EXCEPT ![c] = "queued"]
        /\ arg' = [arg EXCEPT ![c] = n + 1]
        /\ wake' = TRUE
    BY <1>3 DEF AcceptFn
  <2>6. WeakTypes'
    <3>1. /\ link' \in [Conn -> {"new", "live", "gone"}]
          /\ callback' \in [Conn -> {"none", "queued", "socket"}]
          /\ arg' \in [Conn -> Int]
      <4>1. link' \in [Conn -> {"new", "live", "gone"}]
        BY <2>5 DEF Held, WeakTypes
      <4>2. callback' \in [Conn -> {"none", "queued", "socket"}]
        BY <2>5 DEF Held, WeakTypes
      <4>3. n + 1 \in Int
        BY <2>3
      <4> HIDE DEF n
      <4>4. arg' \in [Conn -> Int]
        BY <2>5, <4>3 DEF Held, WeakTypes
      <4> QED
        BY <4>1, <4>2, <4>4
    <3>2. Len(accepted_pcbs') <= MaxAccepted
      BY <2>3, <2>4
    <3> QED
      BY <2>4, <2>5, <3>1, <3>2 DEF AcceptFn, Held, WeakTypes, objectVars,
         mainVars, streamVars, writeVars
  <2>7. Match'
    <3>1. /\ \A d \in Conn : d # c =>
               /\ link'[d] = link[d] /\ callback'[d] = callback[d]
               /\ arg'[d] = arg[d]
          /\ link'[c] = "live" /\ callback'[c] = "queued" /\ arg'[c] = n + 1
      BY <2>5 DEF Held, WeakTypes
    <3>2. \A j \in Slots : ~Dead(j) => accepted_pcbs[j].pcb \in Conn \ {c}
      BY <1>1, SlotType DEF Slot, Dead, Held, Match
    <3>3. UNCHANGED <<object, pcb, pc, user>>
      BY DEF AcceptFn, objectVars, mainVars
    <3>4. /\ Slots = 1 .. n /\ Slots' = 1 .. n + 1 /\ e.pcb = c
          /\ \A i \in 1 .. n : Dead(i)' <=> Dead(i)
      BY <2>4 DEF Slots, Dead, e
    <3>5. \A i \in Slots' : i \in Slots \/ i = n + 1
      BY <2>3, <3>4
    <3>6. \A i \in Slots' : ~Dead(i)' =>
            /\ callback'[accepted_pcbs'[i].pcb] = "queued"
            /\ arg'[accepted_pcbs'[i].pcb] = i
      BY <2>4, <3>1, <3>2, <3>4, <3>5 DEF Held, Match
    <3>7. \A d \in Conn : callback'[d] = "queued" =>
            arg'[d] \in Slots' /\ accepted_pcbs'[arg'[d]].pcb = d
      BY <2>3, <2>4, <3>1, <3>4 DEF Held, Match
    <3>8. /\ \A d \in Conn : link'[d] = "live" <=> callback'[d] # "none"
          /\ \A d \in Conn : callback'[d] # "queued" => arg'[d] = 0
          /\ \A d \in Conn : callback'[d] = "socket" <=> pcb'[d]
          /\ \A d \in Conn :
               callback'[d] = "socket" => object'[d] \in {"live", "dying"}
      BY <1>1, <3>1, <3>3 DEF Held, Match
    <3> QED
      BY <3>3, <3>6, <3>7, <3>8 DEF Held, Match
  <2> QED
    BY <2>6, <2>7 DEF Held
<1> QED
  BY <1>2, <1>3 DEF AcceptFn

(* The socket of a connected pcb loses it: close(), a reset, the           *)
(* destructor.                                                             *)
LEMMA SocketDetached ==
  ASSUME Held, NEW c \in Conn, callback[c] = "socket", Detach({c}),
         pcb' = [pcb EXCEPT ![c] = FALSE],
         UNCHANGED <<accepted_pcbs, object, pc, user>>
  PROVE  Match'
<1>1. /\ \A d \in Conn : d # c =>
           link'[d] = link[d] /\ callback'[d] = callback[d] /\ arg'[d] = arg[d]
      /\ link'[c] = "gone" /\ callback'[c] = "none" /\ arg'[c] = 0
  BY DEF Detach
<1>2. ~pcb'[c] /\ \A d \in Conn : d # c => pcb'[d] = pcb[d]
  BY DEF Held, WeakTypes
<1>3. \A j \in Slots : ~Dead(j) => accepted_pcbs[j].pcb \in Conn \ {c}
  BY SlotType DEF Slot, Dead, Held, Match
<1>4. Slots' = Slots /\ \A i \in Slots : Dead(i)' <=> Dead(i)
  BY DEF Slots, Dead
<1> QED
  BY <1>1, <1>2, <1>3, <1>4 DEF Held, Match

LEMMA HeldErrFn ==
  ASSUME Held, NEW c \in Conn, ErrFn(c)
  PROVE  Held'
<1>1. pcb' \in [Conn -> BOOLEAN]
  BY DEF ErrFn, Held, WeakTypes
<1>2. WeakTypes'
  BY <1>1, DetachType DEF ErrFn, Held, WeakTypes, queueVars, mainVars,
     streamVars, writeVars
<1>3. Match'
  BY SocketDetached DEF ErrFn, queueVars, mainVars
<1> QED
  BY <1>2, <1>3 DEF Held

LEMMA HeldClose ==
  ASSUME Held, NEW c \in Conn, Close(c)
  PROVE  Held'
<1>1. pcb' \in [Conn -> BOOLEAN]
  BY DEF Close, Held, WeakTypes
<1>2. WeakTypes'
  BY <1>1, DetachType DEF Close, Held, WeakTypes, queueVars, mainVars,
     streamVars, writeVars
<1>3. callback[c] = "socket"
  BY DEF Close, Held, Match
<1>4. Match'
  BY <1>3, SocketDetached DEF Close, queueVars, mainVars
<1> QED
  BY <1>2, <1>4 DEF Held

LEMMA HeldDestroyDerived ==
  ASSUME Held, NEW c \in Conn, DestroyDerived(c)
  PROVE  Held'
<1>1. rx_buf' \in [Conn -> Seq(Nat)]
  BY EmptySeq DEF DestroyDerived, Held, WeakTypes
<1>2. /\ object' \in [Conn -> {"none", "live", "dying", "gone"}]
      /\ object'[c] = "dying" /\ \A d \in Conn : d # c => object'[d] = object[d]
  BY DEF DestroyDerived, Held, WeakTypes
<1>3. WeakTypes'
  <2>1. rx_buf[c] \in Seq(Nat)
    BY DEF Held, WeakTypes
  <2>2. pbufs[c] - Len(rx_buf[c]) \in Int
    BY <2>1, LenProperties DEF Held, WeakTypes
  <2>3. pbufs' \in [Conn -> Int]
    BY <2>2 DEF DestroyDerived, Held, WeakTypes
  <2> QED
    BY <1>1, <1>2, <2>3 DEF DestroyDerived, Held, WeakTypes, queueVars,
       pcbVars, streamVars, writeVars
<1>4. Match'
  BY <1>2, ConnAssumption DEF DestroyDerived, CanUse, Held, Match, Dead, Slots,
     queueVars, pcbVars
<1> QED
  BY <1>3, <1>4 DEF Held

LEMMA HeldDestroyBase ==
  ASSUME Held, DestroyBase
  PROVE  Held'
<1>1. user \in Conn /\ object[user] = "dying"
  BY DEF DestroyBase, Held, Match
<1>2. /\ object' \in [Conn -> {"none", "live", "dying", "gone"}]
      /\ object'[user] = "gone"
      /\ \A d \in Conn : d # user => object'[d] = object[d]
  BY <1>1 DEF DestroyBase, Held, WeakTypes
<1>3. /\ pcb' \in [Conn -> BOOLEAN]
      /\ ~pcb'[user] /\ \A d \in Conn : d # user => pcb'[d] = pcb[d]
  BY <1>1 DEF DestroyBase, BaseAborts, Held, WeakTypes
<1>4. /\ \A d \in Conn : d # user =>
           link'[d] = link[d] /\ callback'[d] = callback[d] /\ arg'[d] = arg[d]
      /\ callback'[user] # "socket"
      /\ link'[user] = "live" <=> callback'[user] # "none"
      /\ callback'[user] = "queued" =>
           callback[user] = "queued" /\ arg'[user] = arg[user]
      /\ callback'[user] # "queued" => arg'[user] = 0
      /\ callback[user] = "queued" => callback'[user] = "queued"
  BY <1>1 DEF DestroyBase, BaseAborts, Detach, pcbVars, Held, Match
<1>5. /\ link' \in [Conn -> {"new", "live", "gone"}]
      /\ callback' \in [Conn -> {"none", "queued", "socket"}]
      /\ arg' \in [Conn -> Int]
  BY DetachType DEF DestroyBase, BaseAborts, pcbVars, Held, WeakTypes
<1>6. WeakTypes'
  BY <1>2, <1>3, <1>5 DEF DestroyBase, Held, WeakTypes, queueVars, streamVars,
     writeVars
<1>7. Match'
  <2>1. pc' = "idle" /\ pc = "base" /\ accepted_pcbs' = accepted_pcbs
    BY DEF DestroyBase, queueVars
  <2>2. Slots' = Slots /\ \A i \in Slots : Dead(i)' <=> Dead(i)
    BY <2>1 DEF Slots, Dead
  <2>3. \A j \in Slots : ~Dead(j) => accepted_pcbs[j].pcb \in Conn
    BY SlotType DEF Slot, Dead
  <2> QED
    BY <1>1, <1>2, <1>3, <1>4, <2>1, <2>2, <2>3 DEF Held, Match
<1> QED
  BY <1>6, <1>7 DEF Held

LEMMA HeldAcceptNone ==
  ASSUME Held, AcceptNone
  PROVE  Held'
<1>1. accepted_pcbs' \in Seq(Slot) /\ Len(accepted_pcbs') = 0
  BY EmptySeq DEF AcceptNone
<1>2. WeakTypes'
  <2>1. Len(accepted_pcbs') <= MaxAccepted
    BY <1>1, LimitAssumption
  <2>2. pbufs' \in [Conn -> Int]
    BY DiscardedType DEF AcceptNone
  <2> QED
    BY <1>1, <2>1, <2>2 DEF AcceptNone, Held, WeakTypes, pcbVars, objectVars,
       mainVars, streamVars, writeVars
<1>3. \A c \in Conn : callback[c] # "queued"
  BY ConnAssumption DEF AcceptNone, Dead, Held, Match
<1>4. Slots' = {}
  BY <1>1 DEF Slots
<1>5. Match'
  BY <1>3, <1>4 DEF AcceptNone, Held, Match, pcbVars, objectVars, mainVars
<1> QED
  BY <1>2, <1>5 DEF Held

LEMMA HeldDestroyListener ==
  ASSUME Held, DestroyListener
  PROVE  Held'
<1>1. accepted_pcbs' \in Seq(Slot) /\ Len(accepted_pcbs') = 0
  BY EmptySeq DEF DestroyListener
<1>2. WeakTypes'
  <2>1. Len(accepted_pcbs') <= MaxAccepted
    BY <1>1, LimitAssumption
  <2>2. /\ link' \in [Conn -> {"new", "live", "gone"}]
        /\ callback' \in [Conn -> {"none", "queued", "socket"}]
        /\ arg' \in [Conn -> Int]
    BY DetachType DEF DestroyListener, Held, WeakTypes
  <2>3. pbufs' \in [Conn -> Int]
    BY DiscardedType DEF DestroyListener
  <2> QED
    BY <1>1, <2>1, <2>2, <2>3 DEF DestroyListener, Held, WeakTypes, objectVars,
       mainVars, streamVars, writeVars
<1>3. \A c \in Conn :
        IF callback[c] = "queued"
          THEN link'[c] = "gone" /\ callback'[c] = "none" /\ arg'[c] = 0
          ELSE /\ link'[c] = link[c] /\ callback'[c] = callback[c]
               /\ arg'[c] = arg[c]
  <2> TAKE c \in Conn
  <2>1. callback[c] = "queued" <=> \E i \in Slots : accepted_pcbs[i].pcb = c
    BY ConnAssumption DEF Held, Match, Dead
  <2> QED
    BY <2>1 DEF DestroyListener, Detach
<1>4. Slots' = {}
  BY <1>1 DEF Slots
<1>5. UNCHANGED <<object, pcb, pc, user>>
  BY DEF DestroyListener, objectVars, mainVars
<1>6. Match'
  BY <1>3, <1>4, <1>5 DEF Held, Match
<1> QED
  BY <1>2, <1>6 DEF Held

LEMMA ExceptType ==
  ASSUME NEW S, NEW T, NEW f \in [S -> T], NEW x, NEW y \in T
  PROVE  [f EXCEPT ![x] = y] \in [S -> T]
OBVIOUS

LEMMA HeldAccept ==
  ASSUME Held, Accept
  PROVE  Held'
<1>1. PICK k \in Slots : AcceptAt(k)
  BY DEF Accept
<1> DEFINE n == Len(accepted_pcbs)
           c == accepted_pcbs[k].pcb
<1>2. n \in Nat /\ k \in 1 .. n /\ n <= MaxAccepted /\ MaxAccepted \in Nat
  BY LenProperties, LimitAssumption DEF Slots, Held, WeakTypes
<1>3. /\ accepted_pcbs[k] \in Slot /\ c \in Conn
      /\ accepted_pcbs[k].rx_buf \in Seq(Nat)
      /\ accepted_pcbs[k].rx_closed \in BOOLEAN
  BY <1>1, SlotType DEF AcceptAt, Dead, Slot
<1>4. callback[c] = "queued" /\ arg[c] = k /\ link[c] = "live"
  BY <1>1, <1>3 DEF AcceptAt, Held, Match
<1>5. /\ accepted_pcbs' \in Seq(Slot) /\ Len(accepted_pcbs') = n - k
      /\ \A i \in 1 .. n - k : accepted_pcbs'[i] = accepted_pcbs[k + i]
  <2>1. accepted_pcbs \in Seq(Slot) /\ k \in 0 .. n
    BY <1>2 DEF Held, WeakTypes
  <2> QED
    BY <1>1, <2>1, DropType DEF AcceptAt
<1>6. /\ object' = [object EXCEPT ![c] = "live"]
      /\ pcb' = [pcb EXCEPT ![c] = TRUE]
      /\ rx_buf' = [rx_buf EXCEPT ![c] = accepted_pcbs[k].rx_buf]
      /\ rx_closed' = [rx_closed EXCEPT ![c] = accepted_pcbs[k].rx_closed]
      /\ callback' = [callback EXCEPT ![c] = "socket"]
      /\ arg' = [Shifted(k) EXCEPT ![c] = 0]
  BY <1>1 DEF AcceptAt, InitialRx
<1> HIDE DEF c, n
<1>7. \A d \in Conn :
        arg'[d] = IF d = c THEN 0
                  ELSE IF callback[d] = "queued" THEN arg[d] - k ELSE arg[d]
  BY <1>6 DEF Shifted
<1>8. arg' \in [Conn -> Int]
  <2>1. k \in Int /\ arg \in [Conn -> Int]
    BY <1>2 DEF Held, WeakTypes
  <2>2. \A d \in Conn : arg[d] \in Int /\ arg[d] - k \in Int
    BY <2>1
  <2> DEFINE s == Shifted(k)
  <2>3. s \in [Conn -> Int]
    BY <2>2 DEF Shifted
  <2>4. arg' = [s EXCEPT ![c] = 0]
    BY <1>6
  <2> HIDE DEF s
  <2>5. [s EXCEPT ![c] = 0] \in [Conn -> Int]
    BY <2>3, ExceptType
  <2> QED
    BY <2>4, <2>5
<1>9. WeakTypes'
  <2>1. /\ object' \in [Conn -> {"none", "live", "dying", "gone"}]
        /\ callback' \in [Conn -> {"none", "queued", "socket"}]
    BY <1>6 DEF Held, WeakTypes
  <2>2. pcb' \in [Conn -> BOOLEAN]
    BY <1>6 DEF Held, WeakTypes
  <2>3. rx_closed' \in [Conn -> BOOLEAN]
    BY <1>3, <1>6 DEF Held, WeakTypes
  <2>4. rx_buf' \in [Conn -> Seq(Nat)]
    BY <1>3, <1>6 DEF Held, WeakTypes
  <2>5. accepted_pcbs' \in Seq(Slot) /\ Len(accepted_pcbs') <= MaxAccepted
    BY <1>2, <1>5
  <2>6. pbufs' \in [Conn -> Int]
    <3>1. 1 .. k - 1 \in SUBSET Slots
      BY <1>2 DEF Slots, n
    <3> QED
      BY <1>1, <3>1, DiscardedType DEF AcceptAt
  <2> QED
    BY <1>8, <2>1, <2>2, <2>3, <2>4, <2>5, <2>6 DEF Accept, Held, WeakTypes,
       mainVars, streamVars, writeVars
<1>10. Match'
  <2>1. /\ \A d \in Conn : d # c => callback'[d] = callback[d]
        /\ callback'[c] = "socket"
        /\ \A d \in Conn : d # c => object'[d] = object[d]
        /\ object'[c] = "live"
        /\ \A d \in Conn : d # c => pcb'[d] = pcb[d]
        /\ pcb'[c]
    BY <1>3, <1>6 DEF Held, WeakTypes
  <2>2. link' = link /\ pc = "idle" /\ pc' = pc /\ user' = user
    BY DEF Accept, mainVars
  <2>3. Slots = 1 .. n /\ Slots' = 1 .. n - k
    BY <1>5 DEF Slots, n
  <2>4. \A d \in Conn : callback'[d] = "queued" =>
          arg'[d] \in Slots' /\ accepted_pcbs'[arg'[d]].pcb = d
    <3> TAKE d \in Conn
    <3> HAVE callback'[d] = "queued"
    <3>1. d # c /\ callback[d] = "queued"
      BY <2>1
    <3>2. arg[d] \in 1 .. n /\ accepted_pcbs[arg[d]].pcb = d
      BY <2>3, <3>1 DEF Held, Match
    <3>3. ~(arg[d] < k)
      BY <1>1, <1>2, <3>2, ConnAssumption DEF AcceptAt, Dead
    <3>4. arg[d] # k
      BY <3>1, <3>2 DEF c
    <3>5. arg'[d] = arg[d] - k
      BY <1>7, <3>1
    <3>6. arg'[d] \in 1 .. n - k /\ k + arg'[d] = arg[d]
      BY <1>2, <3>2, <3>3, <3>4, <3>5
    <3> QED
      BY <1>5, <2>3, <3>2, <3>6
  <2>5. \A i \in Slots' : ~Dead(i)' =>
          /\ callback'[accepted_pcbs'[i].pcb] = "queued"
          /\ arg'[accepted_pcbs'[i].pcb] = i
    <3> TAKE i \in Slots'
    <3> HAVE ~Dead(i)'
    <3>1. i \in 1 .. n - k /\ k + i \in Slots
      BY <1>2, <2>3
    <3>2. accepted_pcbs'[i] = accepted_pcbs[k + i]
      BY <1>5, <3>1
    <3> DEFINE d == accepted_pcbs[k + i].pcb
    <3>3. ~Dead(k + i) /\ d \in Conn
      BY <3>1, <3>2, SlotType DEF Dead, Slot
    <3>4. callback[d] = "queued" /\ arg[d] = k + i
      BY <3>1, <3>3 DEF Held, Match
    <3>5. d # c
      BY <1>2, <1>4, <3>1, <3>4
    <3>6. d \in Conn
      BY <3>3
    <3>7. accepted_pcbs'[i].pcb = d
      BY <3>2
    <3> HIDE DEF d
    <3>8. callback'[d] = "queued"
      BY <2>1, <3>4, <3>5, <3>6
    <3>9. arg'[d] = arg[d] - k
      BY <1>7, <3>4, <3>5, <3>6
    <3>10. arg'[d] = i
      BY <1>2, <3>1, <3>4, <3>9
    <3> QED
      BY <3>7, <3>8, <3>10
  <2>6. /\ \A d \in Conn : link'[d] = "live" <=> callback'[d] # "none"
        /\ \A d \in Conn : callback'[d] # "queued" => arg'[d] = 0
        /\ \A d \in Conn : callback'[d] = "socket" <=> pcb'[d]
        /\ \A d \in Conn :
             callback'[d] = "socket" => object'[d] \in {"live", "dying"}
    BY <1>4, <1>7, <2>1, <2>2 DEF Held, Match
  <2>7. /\ \A d \in Conn : object'[d] = "dying" <=> pc' = "base" /\ user' = d
        /\ pc' # "idle" => user' \in Conn
        /\ pc' \in {"check", "delay", "locked"} => object'[user'] = "live"
    BY <2>1, <2>2 DEF Held, Match
  <2> QED
    BY <2>4, <2>5, <2>6, <2>7 DEF Match
<1> QED
  BY <1>9, <1>10 DEF Held

LEMMA HeldStep ==
  ASSUME Held, [Next]_vars
  PROVE  Held'
<1>1. CASE Main
  <2>1. CASE Listen \/ LoopWoken \/ Check \/ Woken \/ WaitOver
    BY <2>1, HeldQuiet
  <2>2. CASE Accept \/ AcceptNone \/ DestroyListener
    BY <2>2, HeldAccept, HeldAcceptNone, HeldDestroyListener
  <2>3. CASE ReadLocked \/ DestroyBase
    BY <2>3, HeldReadLocked, HeldDestroyBase
  <2>4. CASE \E c \in Conn : Call(c)
    <3>1. PICK c \in Conn : Call(c)
      BY <2>4
    <3>2. CASE Close(c) \/ DestroyDerived(c)
      BY <3>2, HeldClose, HeldDestroyDerived
    <3>3. CASE \E len \in 1 .. Window : Read(c, len)
      BY <3>3, HeldQuiet
    <3>4. CASE \E len \in 1 .. Tx[c] : Write(c, len)
      BY <3>4, HeldWrite
    <3> QED
      BY <3>1, <3>2, <3>3, <3>4 DEF Call
  <2> QED
    BY <1>1, <2>1, <2>2, <2>3, <2>4 DEF Main
<1>2. CASE \E c \in Conn : Callback(c)
  <2>1. PICK c \in Conn : Callback(c)
    BY <1>2
  <2>2. CASE AcceptFn(c)
    BY <2>2, HeldAcceptFn
  <2>3. CASE QueuedFin(c) \/ QueuedErr(c)
    BY <2>3, HeldQueuedFin, HeldQueuedErr
  <2>4. CASE Fin(c) \/ ErrFn(c)
    BY <2>4, HeldFin, HeldErrFn
  <2>5. CASE \E n \in 1 .. Window : QueuedRecv(c, n) \/ RecvFn(c, n)
    BY <2>5, HeldQueuedRecv, HeldRecvFn
  <2> QED
    BY <2>1, <2>2, <2>3, <2>4, <2>5 DEF Callback
<1>3. CASE UNCHANGED vars
  BY <1>3 DEF Held, WeakTypes, Match, Slots, Dead, vars, queueVars, pcbVars,
     objectVars, mainVars, streamVars, writeVars
<1> QED
  BY <1>1, <1>2, <1>3 DEF Next

THEOREM AlwaysHeld == Spec => []Held
<1>1. Init => Held
  BY HeldInit
<1>2. Held /\ [Next]_vars => Held'
  BY HeldStep
<1> QED
  BY <1>1, <1>2, PTL DEF Spec

(* Every variable has its type in every reachable state, and the accept    *)
(* queue fits its array.                                                   *)
THEOREM TypeCorrect == Spec => []TypeOK
<1>1. Held => TypeOK
  <2> SUFFICES ASSUME Held
               PROVE  TypeOK
    OBVIOUS
  <2>1. arg \in [Conn -> 0 .. MaxAccepted]
    <3>1. \A c \in Conn : arg[c] \in 0 .. MaxAccepted
      <4> TAKE c \in Conn
      <4>1. CASE callback[c] = "queued"
        <5>1. /\ Len(accepted_pcbs) \in Nat
              /\ Len(accepted_pcbs) <= MaxAccepted /\ MaxAccepted \in Nat
          BY LenProperties, LimitAssumption DEF Held, WeakTypes
        <5>2. arg[c] \in 1 .. Len(accepted_pcbs)
          BY <4>1 DEF Held, Match, Slots
        <5> QED
          BY <5>1, <5>2
      <4>2. CASE callback[c] # "queued"
        BY <4>2, LimitAssumption DEF Held, Match
      <4> QED
        BY <4>1, <4>2
    <3> QED
      BY <3>1 DEF Held, WeakTypes
  <2> QED
    BY <2>1 DEF Held, WeakTypes, TypeOK
<1> QED
  BY <1>1, AlwaysHeld, PTL

(* lwIP never calls back into a slot that is another connection's or into  *)
(* a destroyed socket, and no live connection is without an owner.         *)
THEOREM CallbacksCorrect == Spec => []CallbacksMatch
<1>1. Held => CallbacksMatch
  BY DEF Held, Match, CallbacksMatch
<1> QED
  BY <1>1, AlwaysHeld, PTL

(* A socket whose derived part is destroyed has no pbuf buffered.          *)
Freed == \A c \in Conn : object[c] \in {"dying", "gone"} => rx_buf[c] = <<>>

LEMMA FreedStep ==
  ASSUME ~Preempt, Held, Freed, [Next]_vars
  PROVE  Freed'
<1>1. CASE UNCHANGED <<object, rx_buf>>
  BY <1>1 DEF Freed
<1>2. CASE ReadLocked
  <2>1. user \in Conn /\ object[user] = "live" /\ object' = object
    BY <1>2 DEF ReadLocked, Held, Match
  <2>2. \A c \in Conn : c # user => rx_buf'[c] = rx_buf[c]
    BY <1>2 DEF ReadLocked, Held, WeakTypes
  <2> QED
    BY <2>1, <2>2 DEF Freed
<1>3. CASE DestroyBase
  <2>1. user \in Conn /\ object[user] = "dying" /\ rx_buf' = rx_buf
    BY <1>3 DEF DestroyBase, Held, Match
  <2>2. \A c \in Conn : c # user => object'[c] = object[c]
    BY <1>3 DEF DestroyBase, Held, WeakTypes
  <2> QED
    BY <2>1, <2>2 DEF Freed
<1>4. CASE Accept
  <2>1. PICK k \in Slots : AcceptAt(k)
    BY <1>4 DEF Accept
  <2> DEFINE d == accepted_pcbs[k].pcb
  <2>2. /\ object' = [object EXCEPT ![d] = "live"]
        /\ rx_buf' = [rx_buf EXCEPT ![d] = InitialRx(accepted_pcbs[k])]
    BY <2>1 DEF AcceptAt
  <2> HIDE DEF d
  <2>3. \A c \in Conn : c # d => object'[c] = object[c] /\ rx_buf'[c] = rx_buf[c]
    BY <2>2 DEF Held, WeakTypes
  <2>4. d \in Conn => object'[d] = "live"
    BY <2>2 DEF Held, WeakTypes
  <2> QED
    BY <2>3, <2>4 DEF Freed
<1>5. CASE \E c \in Conn : DestroyDerived(c)
  <2>1. PICK d \in Conn : DestroyDerived(d)
    BY <1>5
  <2>2. \A c \in Conn : c # d => object'[c] = object[c] /\ rx_buf'[c] = rx_buf[c]
    BY <2>1 DEF DestroyDerived, Held, WeakTypes
  <2>3. rx_buf'[d] = <<>>
    BY <2>1 DEF DestroyDerived, Held, WeakTypes
  <2> QED
    BY <2>2, <2>3 DEF Freed
<1>6. CASE \E c \in Conn, n \in 1 .. Window : RecvFn(c, n)
  <2>1. PICK d \in Conn, n \in 1 .. Window : RecvFn(d, n)
    BY <1>6
  <2>2. callback[d] = "socket" /\ pc \in {"idle", "delay"} /\ object' = object
    BY <2>1 DEF RecvFn, Segment, Interrupt
  <2>3. object[d] = "live"
    BY <2>2 DEF Held, Match
  <2>4. \A c \in Conn : c # d => rx_buf'[c] = rx_buf[c]
    BY <2>1 DEF RecvFn, Held, WeakTypes
  <2> QED
    BY <2>2, <2>3, <2>4 DEF Freed
<1>7. CASE \/ Listen \/ AcceptNone \/ DestroyListener \/ LoopWoken
           \/ Check \/ Woken \/ WaitOver
  BY <1>1, <1>7 DEF Listen, AcceptNone, DestroyListener, LoopWoken, Check,
     Woken, WaitOver, objectVars
<1>8. ASSUME NEW c \in Conn,
             \/ Close(c) \/ AcceptFn(c) \/ QueuedFin(c) \/ QueuedErr(c)
             \/ Fin(c) \/ ErrFn(c)
             \/ \E len \in 1 .. Window : Read(c, len)
             \/ \E len \in 1 .. Tx[c] : Write(c, len)
             \/ \E n \in 1 .. Window : QueuedRecv(c, n)
      PROVE  UNCHANGED <<object, rx_buf>>
  BY <1>8 DEF Close, AcceptFn, QueuedFin, QueuedErr, Fin, ErrFn, Read, Write,
     QueuedRecv, objectVars
<1>9. CASE UNCHANGED vars
  BY <1>1, <1>9 DEF vars, objectVars
<1>10. CASE Main
  <2>1. CASE \E c \in Conn : Call(c)
    BY <1>1, <1>5, <1>8, <2>1 DEF Call
  <2> QED
    BY <1>2, <1>3, <1>4, <1>7, <1>10, <2>1 DEF Main
<1>11. CASE \E c \in Conn : Callback(c)
  BY <1>1, <1>6, <1>8, <1>11 DEF Callback
<1> QED
  BY <1>9, <1>10, <1>11 DEF Next

(* Where no callback preempts the main loop (ESP8266), nothing comes in    *)
(* between the two destructors, and a destroyed socket keeps no pbuf: the  *)
(* leak that TLC finds needs the preemption of the RP2040.                 *)
THEOREM FreedWithoutPreemption == ASSUME ~Preempt PROVE Spec => []ReceivedFreed
<1>1. Init => Freed
  BY DEF Init, Freed
<1>2. Held /\ Freed /\ [Next]_vars => Freed'
  BY FreedStep
<1>3. Freed => ReceivedFreed
  BY DEF Freed, ReceivedFreed
<1> QED
  BY <1>1, <1>2, <1>3, AlwaysHeld, PTL DEF Spec
------------------------------------------------------------------------------
(* The data: the byte streams of a connection are intact in both           *)
(* directions, its receive window tells the truth and a read() that waits  *)
(* is woken.                                                               *)

(* g has been read and b is buffered of the s bytes that a peer has sent.  *)
Flow(g, b, s) ==
  /\ Len(g) + Len(b) = s
  /\ \A i \in 1 .. Len(g) : g[i] = i
  /\ \A i \in 1 .. Len(b) : b[i] = Len(g) + i

LEMMA FlowWhole ==
  ASSUME NEW g \in Seq(Nat), NEW b \in Seq(Nat), NEW s \in Nat, Flow(g, b, s)
  PROVE  g \o b = [i \in 1 .. s |-> i]
<1> DEFINE w == g \o b  v == [i \in 1 .. s |-> i]
<1>1. Len(g) \in Nat /\ Len(b) \in Nat
  BY LenProperties
<1>2. /\ w \in Seq(Nat) /\ Len(w) = Len(g) + Len(b)
      /\ \A i \in 1 .. Len(g) + Len(b) :
           w[i] = IF i <= Len(g) THEN g[i] ELSE b[i - Len(g)]
  BY ConcatProperties
<1>3. v \in [1 .. s -> Nat]
  OBVIOUS
<1>4. v \in Seq(Nat) /\ Len(v) = s
  BY <1>3, FunctionIsSeq
<1>5. \A i \in 1 .. s : w[i] = i
  <2> TAKE i \in 1 .. s
  <2>1. CASE i <= Len(g)
    BY <1>1, <1>2, <2>1 DEF Flow
  <2>2. CASE ~(i <= Len(g))
    <3> DEFINE j == i - Len(g)
    <3>1. j \in 1 .. Len(b) /\ Len(g) + j = i
      BY <1>1, <2>2 DEF Flow
    <3>2. w[i] = b[j]
      BY <1>1, <1>2, <2>2 DEF Flow
    <3> QED
      BY <3>1, <3>2 DEF Flow
  <2> QED
    BY <2>1, <2>2
<1>6. \A i \in 1 .. s : v[i] = i
  OBVIOUS
<1>7. Len(w) = Len(v)
  BY <1>2, <1>4 DEF Flow
<1> HIDE DEF w, v
<1>8. w = v
  BY <1>2, <1>4, <1>5, <1>6, <1>7, SeqEqual
<1> QED
  BY <1>8 DEF w, v

LEMMA FlowArrives ==
  ASSUME NEW g \in Seq(Nat), NEW b \in Seq(Nat), NEW s \in Nat,
         NEW n \in Nat, NEW f \in Seq(Nat), Len(f) = n,
         \A i \in 1 .. n : f[i] = s + i,
         Flow(g, b, s)
  PROVE  Flow(g, b \o f, s + n) /\ Len(b \o f) = Len(b) + n
<1> DEFINE w == b \o f  p == Len(g)  q == Len(b)
<1>1. p \in Nat /\ q \in Nat
  BY LenProperties
<1>2. /\ Len(w) = q + n
      /\ \A i \in 1 .. q + n : w[i] = IF i <= q THEN b[i] ELSE f[i - q]
  BY ConcatProperties
<1>3. p + q = s
  BY DEF Flow
<1>4. \A i \in 1 .. q : b[i] = p + i
  BY DEF Flow
<1> HIDE DEF w, p, q
<1>5. \A i \in 1 .. q + n : w[i] = p + i
  <2> TAKE i \in 1 .. q + n
  <2>1. CASE i <= q
    <3>1. i \in 1 .. q
      BY <1>1, <2>1
    <3>2. w[i] = b[i]
      BY <1>2, <2>1
    <3> QED
      BY <1>4, <3>1, <3>2
  <2>2. CASE ~(i <= q)
    <3> DEFINE j == i - q
    <3>1. j \in 1 .. n /\ s + j = p + i
      BY <1>1, <1>3, <2>2
    <3>2. w[i] = f[j]
      BY <1>1, <1>2, <2>2
    <3> QED
      BY <3>1, <3>2
  <2> QED
    BY <2>1, <2>2
<1>6. p + Len(w) = s + n
  BY <1>1, <1>2, <1>3
<1>7. Flow(g, w, s + n)
  BY <1>2, <1>5, <1>6 DEF Flow, p
<1> QED
  BY <1>2, <1>7 DEF w, q

LEMMA FlowTaken ==
  ASSUME NEW g \in Seq(Nat), NEW b \in Seq(Nat), NEW s \in Nat,
         NEW n \in 0 .. Len(b), Flow(g, b, s)
  PROVE  /\ Flow(g \o SubSeq(b, 1, n), Drop(b, n), s)
         /\ Len(Drop(b, n)) = Len(b) - n
<1> DEFINE f == SubSeq(b, 1, n)  h == g \o f  r == Drop(b, n)
           p == Len(g)  q == Len(b)
<1>1. p \in Nat /\ q \in Nat /\ n \in 0 .. q
  BY LenProperties
<1>2. f \in Seq(Nat) /\ Len(f) = n /\ \A i \in 1 .. n : f[i] = b[i]
  BY FrontType
<1>3. Len(r) = q - n /\ \A i \in 1 .. q - n : r[i] = b[n + i]
  BY DropType
<1>4. /\ p + q = s
      /\ \A i \in 1 .. p : g[i] = i
      /\ \A i \in 1 .. q : b[i] = p + i
  BY DEF Flow
<1> HIDE DEF f, r
<1>5. /\ Len(h) = p + n
      /\ \A i \in 1 .. p + n : h[i] = IF i <= p THEN g[i] ELSE f[i - p]
  BY <1>2, ConcatProperties
<1> HIDE DEF h, p, q
<1>6. \A i \in 1 .. p + n : h[i] = i
  <2> TAKE i \in 1 .. p + n
  <2>1. CASE i <= p
    BY <1>1, <1>4, <1>5, <2>1
  <2>2. CASE ~(i <= p)
    <3> DEFINE j == i - p
    <3>1. j \in 1 .. n /\ j \in 1 .. q /\ p + j = i
      BY <1>1, <2>2
    <3>2. h[i] = f[j] /\ f[j] = b[j]
      BY <1>2, <1>5, <2>2, <3>1
    <3> QED
      BY <1>4, <3>1, <3>2
  <2> QED
    BY <2>1, <2>2
<1>7. \A i \in 1 .. q - n : r[i] = (p + n) + i
  <2> TAKE i \in 1 .. q - n
  <2>1. n + i \in 1 .. q /\ p + (n + i) = (p + n) + i
    BY <1>1
  <2> QED
    BY <1>3, <1>4, <2>1
<1>8. (p + n) + (q - n) = s
  BY <1>1, <1>4
<1>9. Flow(h, r, s)
  BY <1>3, <1>5, <1>6, <1>7, <1>8 DEF Flow
<1> QED
  BY <1>3, <1>9 DEF f, h, r, q

------------------------------------------------------------------------------
(* The invariant of one connection.  Its data counts while it is queued or *)
(* has a live socket; before that nothing has happened on it.              *)
Carried(c) == callback[c] = "queued" \/ object[c] = "live"
Open(c) == callback[c] = "queued" \/ (object[c] = "live" /\ pcb[c])

Data(c) ==
  /\ Carried(c) => Flow(got[c], Buffered(c), sent[c])
  /\ Open(c) => unacked[c] = Len(Buffered(c))
  /\ link[c] = "new" \/ callback[c] = "queued" => object[c] = "none"
  /\ link[c] = "new" => sent[c] = 0 /\ got[c] = <<>> /\ unacked[c] = 0

Intact == \A c \in Conn : Data(c)

LEMMA BufferedType ==
  ASSUME Held, NEW c \in Conn
  PROVE  Buffered(c) \in Seq(Nat)
<1>1. CASE callback[c] = "queued"
  <2>1. arg[c] \in Slots
    BY <1>1 DEF Held, Match
  <2>2. accepted_pcbs[arg[c]] \in Slot
    BY <2>1, SlotType
  <2> QED
    BY <1>1, <2>2 DEF Buffered, Slot
<1>2. CASE callback[c] # "queued"
  BY <1>2 DEF Buffered, Held, WeakTypes
<1> QED
  BY <1>1, <1>2

(* A connection whose data stays what and where it is, or ends.            *)
LEMMA Kept ==
  ASSUME NEW c \in Conn, Data(c),
         got'[c] = got[c], sent'[c] = sent[c], unacked'[c] = unacked[c],
         Carried(c)' => Carried(c) /\ Buffered(c)' = Buffered(c),
         Open(c)' => Open(c),
         link'[c] = "new" => link[c] = "new",
         callback'[c] = "queued" => callback[c] = "queued",
         object[c] = "none" => object'[c] = "none"
  PROVE  Data(c)'
<1>1. Open(c)' => Carried(c)'
  BY DEF Open, Carried
<1>2. Carried(c)' => Flow(got[c], Buffered(c), sent[c])'
  <2>1. Flow(got[c], Buffered(c), sent[c])' =
          Flow(got'[c], Buffered(c)', sent'[c])
    BY DEF Flow
  <2> QED
    BY <2>1 DEF Data
<1> QED
  BY <1>1, <1>2 DEF Data

LEMMA IntactInit ==
  ASSUME Init
  PROVE  Intact
BY DEF Init, Intact, Data, Carried, Open

(* The steps that move no data and change no owner.                        *)
LEMMA IntactQuiet ==
  ASSUME Held, Intact,
         UNCHANGED <<accepted_pcbs, link, callback, arg, object, pcb, rx_buf,
                     unacked, sent, got>>
  PROVE  Intact'
BY DEF Intact, Data, Carried, Open, Buffered, Flow

LEMMA IntactAcceptNone ==
  ASSUME Held, Intact, AcceptNone
  PROVE  Intact'
<1>1. \A c \in Conn : callback[c] # "queued"
  BY ConnAssumption DEF AcceptNone, Dead, Held, Match
<1>2. UNCHANGED <<link, callback, arg, object, pcb, rx_buf, unacked, sent, got>>
  BY DEF AcceptNone, pcbVars, objectVars, streamVars
<1>3. \A c \in Conn : Buffered(c)' = Buffered(c)
  BY <1>1, <1>2 DEF Buffered
<1> QED
  BY <1>2, <1>3, Kept DEF Intact, Carried, Open

LEMMA IntactDestroyListener ==
  ASSUME Held, Intact, DestroyListener
  PROVE  Intact'
<1>1. UNCHANGED <<object, pcb, rx_buf, unacked, sent, got>>
  BY DEF DestroyListener, objectVars, streamVars
<1> SUFFICES ASSUME NEW c \in Conn
             PROVE  Data(c)'
  BY DEF Intact
<1>2. CASE callback[c] = "queued"
  <2>1. \E i \in Slots : accepted_pcbs[i].pcb = c
    BY <1>2 DEF Held, Match
  <2>2. link'[c] = "gone" /\ callback'[c] = "none"
    BY <2>1 DEF DestroyListener, Detach
  <2>3. object[c] = "none"
    BY <1>2 DEF Intact, Data
  <2> QED
    BY <1>1, <2>2, <2>3 DEF Data, Carried, Open
<1>3. CASE callback[c] # "queued"
  <2>1. callback'[c] # "queued" /\ (link'[c] = "new" => link[c] = "new")
    BY <1>3 DEF DestroyListener, Detach
  <2>2. Buffered(c)' = Buffered(c)
    BY <1>1, <1>3, <2>1 DEF Buffered
  <2> QED
    BY <1>1, <2>1, <2>2, Kept DEF Intact, Carried, Open
<1> QED
  BY <1>2, <1>3

LEMMA IntactClose ==
  ASSUME Held, Intact, NEW d \in Conn, Close(d) \/ ErrFn(d)
  PROVE  Intact'
<1>1. UNCHANGED <<accepted_pcbs, object, rx_buf, unacked, sent, got>>
  BY DEF Close, ErrFn, queueVars, streamVars
<1>2. callback[d] = "socket"
  BY DEF Close, ErrFn, Held, Match
<1>3. Detach({d}) /\ pcb' = [pcb EXCEPT ![d] = FALSE]
  BY DEF Close, ErrFn
<1> SUFFICES ASSUME NEW c \in Conn
             PROVE  Data(c)'
  BY DEF Intact
<1>4. CASE c = d
  <2>1. link'[c] = "gone" /\ callback'[c] = "none" /\ ~pcb'[c]
    BY <1>3, <1>4 DEF Detach, Held, WeakTypes
  <2>2. Buffered(c)' = Buffered(c)
    BY <1>1, <1>2, <1>4, <2>1 DEF Buffered
  <2> QED
    BY <1>1, <2>1, <2>2, Kept DEF Intact, Carried, Open
<1>5. CASE c # d
  <2>1. /\ link'[c] = link[c] /\ callback'[c] = callback[c]
        /\ arg'[c] = arg[c] /\ pcb'[c] = pcb[c]
    BY <1>3, <1>5 DEF Detach, Held, WeakTypes
  <2>2. Buffered(c)' = Buffered(c)
    BY <1>1, <2>1 DEF Buffered
  <2> QED
    BY <1>1, <2>1, <2>2, Kept DEF Intact, Carried, Open
<1> QED
  BY <1>4, <1>5

LEMMA IntactDestroyDerived ==
  ASSUME Held, Intact, NEW d \in Conn, DestroyDerived(d)
  PROVE  Intact'
<1>1. UNCHANGED <<accepted_pcbs, link, callback, arg, pcb, unacked, sent, got>>
  BY DEF DestroyDerived, queueVars, pcbVars, streamVars
<1>2. object[d] = "live" /\ object'[d] = "dying"
  BY DEF DestroyDerived, CanUse, Held, WeakTypes
<1>3. \A c \in Conn \ {d} : object'[c] = object[c] /\ rx_buf'[c] = rx_buf[c]
  BY DEF DestroyDerived, Held, WeakTypes
<1> SUFFICES ASSUME NEW c \in Conn
             PROVE  Data(c)'
  BY DEF Intact
<1>4. CASE c = d
  <2>1. link[c] # "new" /\ callback[c] # "queued"
    BY <1>2, <1>4 DEF Intact, Data
  <2> QED
    BY <1>1, <1>2, <1>4, <2>1 DEF Data, Carried, Open
<1>5. CASE c # d
  <2>1. object'[c] = object[c] /\ Buffered(c)' = Buffered(c)
    BY <1>1, <1>3, <1>5 DEF Buffered
  <2> QED
    BY <1>1, <2>1, Kept DEF Intact, Carried, Open
<1> QED
  BY <1>4, <1>5

LEMMA IntactDestroyBase ==
  ASSUME Held, Intact, DestroyBase
  PROVE  Intact'
<1>1. UNCHANGED <<accepted_pcbs, rx_buf, unacked, sent, got>>
  BY DEF DestroyBase, queueVars, streamVars
<1>2. user \in Conn /\ object[user] = "dying" /\ object'[user] = "gone"
  BY DEF DestroyBase, Held, Match, WeakTypes
<1> SUFFICES ASSUME NEW c \in Conn
             PROVE  Data(c)'
  BY DEF Intact
<1>3. CASE c = user
  <2>1. link[c] # "new" /\ callback[c] # "queued"
    BY <1>2, <1>3 DEF Intact, Data
  <2>2. link'[c] # "new" /\ callback'[c] # "queued"
    BY <1>3, <2>1 DEF DestroyBase, BaseAborts, Detach, pcbVars
  <2> QED
    BY <1>2, <1>3, <2>2 DEF Data, Carried, Open
<1>4. CASE c # user
  <2>1. /\ link'[c] = link[c] /\ callback'[c] = callback[c]
        /\ arg'[c] = arg[c] /\ pcb'[c] = pcb[c] /\ object'[c] = object[c]
    BY <1>4 DEF DestroyBase, BaseAborts, Detach, pcbVars, Held, WeakTypes
  <2>2. Buffered(c)' = Buffered(c)
    BY <1>1, <2>1 DEF Buffered
  <2> QED
    BY <1>1, <2>1, <2>2, Kept DEF Intact, Carried, Open
<1> QED
  BY <1>3, <1>4

LEMMA IntactQueuedFin ==
  ASSUME Held, Intact, NEW d \in Conn, QueuedFin(d)
  PROVE  Intact'
<1> DEFINE k == arg[d]  e == [accepted_pcbs[k] EXCEPT !.rx_closed = TRUE]
<1>1. k \in Slots
  BY DEF QueuedFin, Held, Match
<1>2. accepted_pcbs[k] \in Slot
  BY <1>1, SlotType
<1>3. e \in Slot /\ e.rx_buf = accepted_pcbs[k].rx_buf
  BY <1>2 DEF Slot
<1>4. accepted_pcbs' = [accepted_pcbs EXCEPT ![k] = e]
  BY DEF QueuedFin
<1> HIDE DEF e, k
<1>5. \A j \in Slots : accepted_pcbs'[j].rx_buf = accepted_pcbs[j].rx_buf
  BY <1>1, <1>3, <1>4, SlotReplaced
<1>6. UNCHANGED <<link, callback, arg, object, pcb, rx_buf, unacked, sent, got>>
  BY DEF QueuedFin, pcbVars, objectVars, streamVars
<1>7. \A c \in Conn : Buffered(c)' = Buffered(c)
  BY <1>5, <1>6 DEF Buffered, Held, Match
<1> QED
  BY <1>6, <1>7, Kept DEF Intact, Carried, Open

LEMMA IntactQueuedErr ==
  ASSUME Held, Intact, NEW d \in Conn, QueuedErr(d)
  PROVE  Intact'
<1> DEFINE k == arg[d]  e == [accepted_pcbs[k] EXCEPT !.pcb = NoConn]
<1>1. k \in Slots /\ callback[d] = "queued"
  BY DEF QueuedErr, Held, Match
<1>2. accepted_pcbs[k] \in Slot
  BY <1>1, SlotType
<1>3. e \in Slot /\ e.rx_buf = accepted_pcbs[k].rx_buf
  BY <1>2 DEF Slot
<1>4. accepted_pcbs' = [accepted_pcbs EXCEPT ![k] = e]
  BY DEF QueuedErr
<1> HIDE DEF e, k
<1>5. \A j \in Slots : accepted_pcbs'[j].rx_buf = accepted_pcbs[j].rx_buf
  BY <1>1, <1>3, <1>4, SlotReplaced
<1>6. UNCHANGED <<object, pcb, rx_buf, unacked, sent, got>> /\ Detach({d})
  BY DEF QueuedErr, objectVars, streamVars
<1> SUFFICES ASSUME NEW c \in Conn
             PROVE  Data(c)'
  BY DEF Intact
<1>7. CASE c = d
  <2>1. object[c] = "none"
    BY <1>1, <1>7 DEF Intact, Data
  <2>2. link'[c] = "gone" /\ callback'[c] = "none"
    BY <1>6, <1>7 DEF Detach
  <2> QED
    BY <1>6, <2>1, <2>2 DEF Data, Carried, Open
<1>8. CASE c # d
  <2>1. /\ link'[c] = link[c] /\ callback'[c] = callback[c] /\ arg'[c] = arg[c]
    BY <1>6, <1>8 DEF Detach
  <2>2. Buffered(c)' = Buffered(c)
    BY <1>5, <1>6, <2>1 DEF Buffered, Held, Match
  <2> QED
    BY <1>6, <2>1, <2>2, Kept DEF Intact, Carried, Open
<1> QED
  BY <1>7, <1>8

LEMMA IntactAcceptFn ==
  ASSUME Held, Intact, NEW d \in Conn, AcceptFn(d)
  PROVE  Intact'
<1>1. UNCHANGED <<object, pcb, rx_buf, unacked, sent, got>>
  BY DEF AcceptFn, objectVars, streamVars
<1>2. /\ link[d] = "new" /\ callback[d] = "none" /\ object[d] = "none"
      /\ sent[d] = 0 /\ got[d] = <<>> /\ unacked[d] = 0
  BY DEF AcceptFn, Held, Match, Intact, Data
<1>3. CASE QueueFull
  <2>0. Detach({d}) /\ accepted_pcbs' = accepted_pcbs
    BY <1>3 DEF AcceptFn
  <2>1. \A c \in Conn \ {d} :
          /\ link'[c] = link[c] /\ callback'[c] = callback[c]
          /\ arg'[c] = arg[c]
    BY <2>0 DEF Detach
  <2>2. link'[d] = "gone" /\ callback'[d] = "none"
    BY <2>0 DEF Detach
  <2>3. \A c \in Conn : Buffered(c)' = Buffered(c)
    BY <1>1, <1>2, <2>0, <2>1, <2>2 DEF Buffered
  <2>4. \A c \in Conn : callback'[c] = callback[c]
    BY <1>2, <2>1, <2>2
  <2>5. \A c \in Conn : link'[c] = "new" => link[c] = "new"
    BY <2>1, <2>2
  <2> QED
    BY <1>1, <2>3, <2>4, <2>5, Kept DEF Intact, Carried, Open
<1>4. CASE ~QueueFull
  <2> DEFINE e == [pcb |-> d, from |-> d, rx_buf |-> <<>>, rx_closed |-> FALSE]
             n == Len(accepted_pcbs)
  <2>1. /\ accepted_pcbs' = Append(accepted_pcbs, e)
        /\ link' = [link EXCEPT ![d] = "live"]
        /\ callback' = [callback EXCEPT ![d] = "queued"]
        /\ arg' = [arg EXCEPT ![d] = n + 1]
    BY <1>4 DEF AcceptFn
  <2>2. accepted_pcbs \in Seq(Slot) /\ n \in Nat
    BY LenProperties DEF Held, WeakTypes
  <2>3. e \in Slot /\ e.rx_buf = <<>>
    BY EmptySeq DEF Slot
  <2> HIDE DEF e
  <2>4. /\ \A j \in 1 .. n : accepted_pcbs'[j] = accepted_pcbs[j]
        /\ accepted_pcbs'[n + 1] = e
    BY <2>1, <2>2, <2>3, AppendProperties
  <2>5. /\ \A c \in Conn \ {d} :
             /\ link'[c] = link[c] /\ callback'[c] = callback[c]
             /\ arg'[c] = arg[c]
        /\ link'[d] = "live" /\ callback'[d] = "queued" /\ arg'[d] = n + 1
    BY <2>1 DEF Held, WeakTypes
  <2> SUFFICES ASSUME NEW c \in Conn
               PROVE  Data(c)'
    BY DEF Intact
  <2>6. CASE c = d
    <3>1. Buffered(c)' = <<>>
      BY <2>3, <2>4, <2>5, <2>6 DEF Buffered
    <3>2. Flow(got'[c], Buffered(c)', sent'[c])
      BY <1>1, <1>2, <2>6, <3>1, EmptySeq DEF Flow
    <3>3. Flow(got[c], Buffered(c), sent[c])' =
            Flow(got'[c], Buffered(c)', sent'[c])
      BY DEF Flow
    <3>4. unacked'[c] = Len(Buffered(c)')
      BY <1>1, <1>2, <2>6, <3>1, EmptySeq
    <3> QED
      BY <1>1, <1>2, <2>5, <2>6, <3>2, <3>3, <3>4 DEF Data
  <2>7. CASE c # d
    <3>1. Buffered(c)' = Buffered(c)
      BY <1>1, <2>4, <2>5, <2>7 DEF Buffered, Held, Match, Slots
    <3> QED
      BY <1>1, <2>5, <2>7, <3>1, Kept DEF Intact, Carried, Open
  <2> QED
    BY <2>6, <2>7
<1> QED
  BY <1>3, <1>4

(* A segment lengthens what is buffered and shortens the window alike.     *)
LEMMA Arrived ==
  ASSUME Held, NEW d \in Conn, Data(d), NEW n \in 1 .. Window, Segment(d, n),
         UNCHANGED <<link, callback, arg, object, pcb, got>>,
         Carried(d) => Buffered(d)' = Buffered(d) \o Fresh(d, n)
  PROVE  Data(d)'
<1>1. n \in Nat /\ sent[d] \in Nat
  BY LimitAssumption DEF Held, WeakTypes
<1>2. /\ Fresh(d, n) \in Seq(Nat) /\ Len(Fresh(d, n)) = n
      /\ \A i \in 1 .. n : Fresh(d, n)[i] = sent[d] + i
  BY <1>1, FreshType
<1>3. sent'[d] = sent[d] + n /\ unacked'[d] = unacked[d] + n
  BY DEF Segment, Held, WeakTypes
<1>4. Carried(d)' = Carried(d) /\ Open(d)' = Open(d) /\ (Open(d) => Carried(d))
  BY DEF Carried, Open
<1>5. Carried(d) => /\ Flow(got[d], Buffered(d) \o Fresh(d, n), sent[d] + n)
                    /\ Len(Buffered(d) \o Fresh(d, n)) = Len(Buffered(d)) + n
  <2> HAVE Carried(d)
  <2>1. Buffered(d) \in Seq(Nat) /\ got[d] \in Seq(Nat)
    BY BufferedType DEF Held, WeakTypes
  <2>2. Flow(got[d], Buffered(d), sent[d])
    BY DEF Data
  <2> QED
    BY <1>1, <1>2, <2>1, <2>2, FlowArrives
<1>6. Flow(got[d], Buffered(d), sent[d])' =
        Flow(got'[d], Buffered(d)', sent'[d])
  BY DEF Flow
<1>7. Carried(d) => Flow(got[d], Buffered(d), sent[d])'
  BY <1>3, <1>5, <1>6
<1>8. Open(d) => unacked'[d] = Len(Buffered(d)')
  BY <1>3, <1>4, <1>5 DEF Data
<1>9. link[d] # "new"
  BY DEF Segment
<1> QED
  BY <1>4, <1>7, <1>8, <1>9 DEF Data

LEMMA IntactQueuedRecv ==
  ASSUME Held, Intact, NEW d \in Conn, NEW n \in 1 .. Window, QueuedRecv(d, n)
  PROVE  Intact'
<1> DEFINE k == arg[d]
           e == [accepted_pcbs[k] EXCEPT !.rx_buf = @ \o Fresh(d, n)]
<1>1. k \in Slots /\ accepted_pcbs[k].pcb = d /\ callback[d] = "queued"
  BY DEF Held, Match, QueuedRecv
<1>2. accepted_pcbs[k] \in Slot
  BY <1>1, SlotType
<1>3. n \in Nat /\ sent[d] \in Nat
  BY LimitAssumption DEF Held, WeakTypes
<1>4. e \in Slot /\ e.rx_buf = accepted_pcbs[k].rx_buf \o Fresh(d, n)
  <2>1. accepted_pcbs[k].rx_buf \o Fresh(d, n) \in Seq(Nat)
    BY <1>2, <1>3, FreshType, ConcatProperties DEF Slot
  <2> QED
    BY <1>2, <2>1 DEF Slot
<1>5. accepted_pcbs' = [accepted_pcbs EXCEPT ![k] = e]
  BY DEF QueuedRecv
<1> HIDE DEF e
<1>6. \A j \in Slots :
        accepted_pcbs'[j] = IF j = k THEN e ELSE accepted_pcbs[j]
  BY <1>1, <1>4, <1>5, SlotReplaced
<1>7. UNCHANGED <<link, callback, arg, object, pcb, rx_buf, got>>
  BY DEF QueuedRecv, pcbVars, objectVars
<1> SUFFICES ASSUME NEW c \in Conn
             PROVE  Data(c)'
  BY DEF Intact
<1>8. CASE c = d
  <2>1. Buffered(c)' = Buffered(c) \o Fresh(c, n)
    BY <1>1, <1>4, <1>6, <1>7, <1>8 DEF Buffered
  <2> QED
    BY <1>7, <1>8, <2>1, Arrived DEF Intact, QueuedRecv
<1>9. CASE c # d
  <2>1. callback[c] = "queued" => arg[c] \in Slots /\ arg[c] # k
    BY <1>1, <1>9 DEF Held, Match
  <2>2. Buffered(c)' = Buffered(c)
    BY <1>6, <1>7, <2>1 DEF Buffered
  <2>3. sent'[c] = sent[c] /\ unacked'[c] = unacked[c]
    BY <1>9 DEF QueuedRecv, Segment, Held, WeakTypes
  <2> QED
    BY <1>7, <2>2, <2>3, Kept DEF Intact, Carried, Open
<1> QED
  BY <1>8, <1>9

LEMMA IntactRecvFn ==
  ASSUME Held, Intact, NEW d \in Conn, NEW n \in 1 .. Window, RecvFn(d, n)
  PROVE  Intact'
<1>1. UNCHANGED <<accepted_pcbs, link, callback, arg, object, pcb, got>>
  BY DEF RecvFn, queueVars, pcbVars
<1>2. callback[d] = "socket" /\ rx_buf'[d] = rx_buf[d] \o Fresh(d, n)
  BY DEF RecvFn, Held, WeakTypes
<1> SUFFICES ASSUME NEW c \in Conn
             PROVE  Data(c)'
  BY DEF Intact
<1>3. CASE c = d
  <2>1. Buffered(c)' = Buffered(c) \o Fresh(c, n)
    BY <1>1, <1>2, <1>3 DEF Buffered
  <2> QED
    BY <1>1, <1>3, <2>1, Arrived DEF Intact, RecvFn
<1>4. CASE c # d
  <2>1. /\ rx_buf'[c] = rx_buf[c]
        /\ sent'[c] = sent[c] /\ unacked'[c] = unacked[c]
    BY <1>4 DEF RecvFn, Segment, Held, WeakTypes
  <2>2. Buffered(c)' = Buffered(c)
    BY <1>1, <2>1 DEF Buffered
  <2> QED
    BY <1>1, <2>1, <2>2, Kept DEF Intact, Carried, Open
<1> QED
  BY <1>3, <1>4

LEMMA IntactReadLocked ==
  ASSUME Held, Intact, ReadLocked
  PROVE  Intact'
<1> DEFINE n == Lesser(want, Len(rx_buf[user]))
<1>1. UNCHANGED <<accepted_pcbs, link, callback, arg, object, pcb, sent>>
  BY DEF ReadLocked, queueVars, pcbVars
<1>2. user \in Conn /\ object[user] = "live"
  BY DEF ReadLocked, Held, Match
<1>3. rx_buf[user] \in Seq(Nat) /\ got[user] \in Seq(Nat)
  BY <1>2 DEF Held, WeakTypes
<1>4. n \in 0 .. Len(rx_buf[user])
  BY <1>3, LenProperties DEF Held, WeakTypes, Lesser
<1>5. callback[user] # "queued"
  BY <1>2 DEF Intact, Data
<1>6. CASE UNCHANGED <<rx_buf, got, unacked>>
  BY <1>1, <1>6, IntactQuiet
<1>7. CASE /\ got' = [got EXCEPT ![user] = @ \o SubSeq(rx_buf[user], 1, n)]
           /\ rx_buf' = [rx_buf EXCEPT ![user] = Drop(@, n)]
           /\ unacked' = [unacked EXCEPT ![user] = unacked[user] - n]
  <2> HIDE DEF n
  <2>1. /\ got'[user] = got[user] \o SubSeq(rx_buf[user], 1, n)
        /\ rx_buf'[user] = Drop(rx_buf[user], n)
        /\ unacked'[user] = unacked[user] - n
    BY <1>2, <1>7 DEF Held, WeakTypes
  <2> SUFFICES ASSUME NEW c \in Conn
               PROVE  Data(c)'
    BY DEF Intact
  <2>2. CASE c = user
    <3>1. Buffered(c) = rx_buf[user] /\ Buffered(c)' = rx_buf'[user]
      BY <1>1, <1>5, <2>2 DEF Buffered
    <3>2. Flow(got[c], Buffered(c), sent[c]) /\ sent[c] \in Nat
      BY <1>2, <2>2 DEF Intact, Data, Carried, Held, WeakTypes
    <3>3. /\ Flow(got'[c], Buffered(c)', sent'[c])
          /\ Len(Buffered(c)') = Len(Buffered(c)) - n
      <4> DEFINE g == got[user]  b == rx_buf[user]  m == sent[user]
      <4>1. g \in Seq(Nat) /\ b \in Seq(Nat) /\ m \in Nat /\ n \in 0 .. Len(b)
        BY <1>3, <1>4, <2>2, <3>2
      <4>2. Flow(g, b, m)
        BY <2>2, <3>1, <3>2
      <4> HIDE DEF g, b, m
      <4>3. /\ Flow(g \o SubSeq(b, 1, n), Drop(b, n), m)
            /\ Len(Drop(b, n)) = Len(b) - n
        BY <4>1, <4>2, FlowTaken
      <4>4. /\ got'[c] = g \o SubSeq(b, 1, n) /\ Buffered(c)' = Drop(b, n)
            /\ Buffered(c) = b /\ sent'[c] = m
        BY <1>1, <2>1, <2>2, <3>1 DEF g, b, m
      <4> QED
        BY <4>3, <4>4
    <3>4. Flow(got[c], Buffered(c), sent[c])' =
            Flow(got'[c], Buffered(c)', sent'[c])
      BY DEF Flow
    <3>5. Open(c)' => unacked'[c] = Len(Buffered(c)')
      BY <1>1, <2>1, <2>2, <3>3 DEF Open, Intact, Data
    <3>6. link[c] # "new"
      BY <1>2, <2>2 DEF Intact, Data
    <3> QED
      BY <1>1, <1>5, <2>2, <3>3, <3>4, <3>5, <3>6 DEF Data
  <2>3. CASE c # user
    <3>1. /\ got'[c] = got[c] /\ rx_buf'[c] = rx_buf[c]
          /\ unacked'[c] = unacked[c]
      BY <1>7, <2>3 DEF Held, WeakTypes
    <3>2. Buffered(c)' = Buffered(c)
      BY <1>1, <3>1 DEF Buffered
    <3> QED
      BY <1>1, <3>1, <3>2, Kept DEF Intact, Carried, Open
  <2> QED
    BY <2>2, <2>3
<1> QED
  BY <1>6, <1>7 DEF ReadLocked, Recved

(* accept() moves the data of one slot to the socket and every later slot  *)
(* to the front, with its pcb.                                             *)
LEMMA IntactAccept ==
  ASSUME Held, Intact, Accept
  PROVE  Intact'
<1>1. PICK k \in Slots : AcceptAt(k)
  BY DEF Accept
<1> DEFINE n == Len(accepted_pcbs)
           d == accepted_pcbs[k].pcb
<1>2. n \in Nat /\ k \in 1 .. n
  BY LenProperties DEF Slots, Held, WeakTypes
<1>3. accepted_pcbs[k] \in Slot /\ d \in Conn
  BY <1>1, SlotType DEF AcceptAt, Dead, Slot
<1>4. callback[d] = "queued" /\ arg[d] = k
  BY <1>1, <1>3 DEF AcceptAt, Held, Match
<1>5. \A i \in 1 .. n - k : accepted_pcbs'[i] = accepted_pcbs[k + i]
  <2>1. accepted_pcbs \in Seq(Slot) /\ k \in 0 .. n
    BY <1>2 DEF Held, WeakTypes
  <2> QED
    BY <1>1, <2>1, DropType DEF AcceptAt
<1>6. /\ object' = [object EXCEPT ![d] = "live"]
      /\ pcb' = [pcb EXCEPT ![d] = TRUE]
      /\ rx_buf' = [rx_buf EXCEPT ![d] = accepted_pcbs[k].rx_buf]
      /\ callback' = [callback EXCEPT ![d] = "socket"]
      /\ arg' = [Shifted(k) EXCEPT ![d] = 0]
  BY <1>1 DEF AcceptAt, InitialRx
<1>7. UNCHANGED <<link, unacked, sent, got>>
  BY DEF Accept, streamVars
<1>8. Buffered(d) = accepted_pcbs[k].rx_buf
  BY <1>4 DEF Buffered
<1> HIDE DEF d, n
<1> SUFFICES ASSUME NEW c \in Conn
             PROVE  Data(c)'
  BY DEF Intact
<1>9. CASE c = d
  <2>1. object'[c] = "live" /\ callback'[c] = "socket"
    BY <1>6, <1>9 DEF Held, WeakTypes
  <2>2. rx_buf'[c] = Buffered(c)
    BY <1>6, <1>8, <1>9 DEF Held, WeakTypes
  <2>3. Buffered(c)' = Buffered(c)
    BY <2>1, <2>2 DEF Buffered
  <2>4. Flow(got[c], Buffered(c), sent[c]) /\ unacked[c] = Len(Buffered(c))
    BY <1>4, <1>9 DEF Intact, Data, Carried, Open
  <2>5. Flow(got[c], Buffered(c), sent[c])' =
          Flow(got'[c], Buffered(c)', sent'[c])
    BY DEF Flow
  <2>6. link[c] # "new"
    BY <1>4, <1>9 DEF Held, Match
  <2> QED
    BY <1>7, <2>1, <2>3, <2>4, <2>5, <2>6 DEF Data
<1>10. CASE c # d
  <2>1. /\ object'[c] = object[c] /\ callback'[c] = callback[c]
        /\ rx_buf'[c] = rx_buf[c] /\ pcb'[c] = pcb[c]
    BY <1>6, <1>10 DEF Held, WeakTypes
  <2>2. callback[c] = "queued" =>
          accepted_pcbs'[arg'[c]] = accepted_pcbs[arg[c]]
    <3> HAVE callback[c] = "queued"
    <3>1. arg[c] \in 1 .. n /\ accepted_pcbs[arg[c]].pcb = c
      BY DEF Held, Match, Slots, n
    <3>2. ~(arg[c] < k)
      BY <1>1, <1>2, <3>1, ConnAssumption DEF AcceptAt, Dead
    <3>3. arg[c] # k
      BY <1>10, <3>1 DEF d
    <3>4. arg'[c] = arg[c] - k
      BY <1>6, <1>10 DEF Shifted
    <3>5. arg'[c] \in 1 .. n - k /\ k + arg'[c] = arg[c]
      BY <1>2, <3>1, <3>2, <3>3, <3>4
    <3> QED
      BY <1>5, <3>5
  <2>3. Buffered(c)' = Buffered(c)
    BY <2>1, <2>2 DEF Buffered
  <2> QED
    BY <1>7, <2>1, <2>3, Kept DEF Intact, Carried, Open
<1> QED
  BY <1>9, <1>10

------------------------------------------------------------------------------
LEMMA IntactStep ==
  ASSUME Held, Intact, [Next]_vars
  PROVE  Intact'
<1>1. CASE Main
  <2>1. CASE Listen \/ LoopWoken \/ Check \/ Woken \/ WaitOver
    BY <2>1, IntactQuiet DEF Listen, LoopWoken, Check, Woken, WaitOver,
       queueVars, pcbVars, objectVars, streamVars
  <2>2. CASE Accept \/ AcceptNone \/ DestroyListener
    BY <2>2, IntactAccept, IntactAcceptNone, IntactDestroyListener
  <2>3. CASE ReadLocked \/ DestroyBase
    BY <2>3, IntactReadLocked, IntactDestroyBase
  <2>4. CASE \E c \in Conn : Call(c)
    <3>1. PICK c \in Conn : Call(c)
      BY <2>4
    <3>2. CASE Close(c) \/ DestroyDerived(c)
      BY <3>2, IntactClose, IntactDestroyDerived
    <3>3. CASE \/ \E len \in 1 .. Window : Read(c, len)
               \/ \E len \in 1 .. Tx[c] : Write(c, len)
      BY <3>3, IntactQuiet DEF Read, Write, queueVars, pcbVars, objectVars,
         streamVars
    <3> QED
      BY <3>1, <3>2, <3>3 DEF Call
  <2> QED
    BY <1>1, <2>1, <2>2, <2>3, <2>4 DEF Main
<1>2. CASE \E c \in Conn : Callback(c)
  <2>1. PICK c \in Conn : Callback(c)
    BY <1>2
  <2>2. CASE AcceptFn(c) \/ QueuedFin(c) \/ QueuedErr(c) \/ ErrFn(c)
    BY <2>2, IntactAcceptFn, IntactQueuedFin, IntactQueuedErr, IntactClose
  <2>3. CASE Fin(c)
    BY <2>3, IntactQuiet DEF Fin, queueVars, pcbVars, streamVars
  <2>4. CASE \E n \in 1 .. Window : QueuedRecv(c, n) \/ RecvFn(c, n)
    BY <2>4, IntactQueuedRecv, IntactRecvFn
  <2> QED
    BY <2>1, <2>2, <2>3, <2>4 DEF Callback
<1>3. CASE UNCHANGED vars
  BY <1>3, IntactQuiet DEF vars, queueVars, pcbVars, objectVars, streamVars
<1> QED
  BY <1>1, <1>2, <1>3 DEF Next

THEOREM AlwaysIntact == Spec => []Intact
<1>1. Init => Intact
  BY IntactInit
<1>2. Held /\ Intact /\ [Next]_vars => Intact'
  BY IntactStep
<1> QED
  BY <1>1, <1>2, AlwaysHeld, PTL DEF Spec

(* What the program has read and what is buffered for it is what the peer  *)
(* sent, each byte once and in order, through the accept queue, its shift  *)
(* and the hand-over to the socket.                                        *)
THEOREM StreamCorrect == Spec => []StreamIntact
<1>1. Held /\ Intact => StreamIntact
  <2> SUFFICES ASSUME Held, Intact, NEW c \in Conn, Carried(c)
               PROVE  got[c] \o Buffered(c) = [i \in 1 .. sent[c] |-> i]
    BY DEF StreamIntact, Carried
  <2>1. Buffered(c) \in Seq(Nat) /\ got[c] \in Seq(Nat) /\ sent[c] \in Nat
    BY BufferedType DEF Held, WeakTypes
  <2>2. Flow(got[c], Buffered(c), sent[c])
    BY DEF Intact, Data
  <2> QED
    BY <2>1, <2>2, FlowWhole
<1> QED
  BY <1>1, AlwaysHeld, AlwaysIntact, PTL

(* The receive window lwIP keeps closed is exactly what is buffered: the   *)
(* tcp_recved calls of read() never give back more or less than was read.  *)
THEOREM WindowCorrect == Spec => []WindowTrue
<1>1. Intact => WindowTrue
  BY DEF Intact, Data, Open, WindowTrue
<1> QED
  BY <1>1, AlwaysIntact, PTL
------------------------------------------------------------------------------
(* What the program writes: unless it has been told to give up, it knows   *)
(* how many bytes tcp_write has taken.                                     *)
Known == \A c \in Conn : ~broken[c] => told[c] = Len(out[c])

LEMMA SentWrite ==
  ASSUME Held, SentOnce, Known, NEW d \in Conn, NEW len \in 1 .. Tx[d], Write(d, len)
  PROVE  SentOnce' /\ Known'
<1>1. /\ ~broken[d] /\ told[d] = Len(out[d])
      /\ out[d] \in Seq(Nat) /\ Len(out[d]) \in Nat
      /\ \A i \in 1 .. Len(out[d]) : out[d][i] = i
  <2>1. ~broken[d] /\ told[d] = Len(out[d]) /\ out[d] \in Seq(Nat)
    BY DEF Write, Known, Held, WeakTypes
  <2>2. out[d] = [i \in 1 .. Len(out[d]) |-> i]
    BY DEF SentOnce
  <2> QED
    BY <2>1, <2>2, LenProperties
<1>2. CASE UNCHANGED <<out, told>>
  <2>1. \A c \in Conn : broken[c] => broken'[c]
    BY <1>2 DEF Write, OutputFails, Held, WeakTypes
  <2> QED
    BY <1>2, <2>1 DEF SentOnce, Known
<1>3. ASSUME NEW n \in 1 .. len,
             out' = [out EXCEPT ![d] = @ \o SubSeq(Offer(d, len), 1, n)]
      PROVE  SentOnce' /\ Known'
  <2> DEFINE f == SubSeq(Offer(d, len), 1, n)
  <2>1. n \in Nat /\ len \in Nat /\ n \in 0 .. len
    BY LimitAssumption
  <2>2. /\ Offer(d, len) \in Seq(Nat) /\ Len(Offer(d, len)) = len
        /\ \A i \in 1 .. len : Offer(d, len)[i] = Len(out[d]) + i
    <3>1. \A i \in 1 .. len : Len(out[d]) + i \in Nat
      BY <1>1, <2>1
    <3>2. Offer(d, len) \in [1 .. len -> Nat]
      BY <1>1, <3>1 DEF Offer
    <3>3. Offer(d, len) \in Seq(Nat) /\ Len(Offer(d, len)) = len
      BY <2>1, <3>2, FunctionIsSeq
    <3> QED
      BY <1>1, <3>3 DEF Offer
  <2>3. f \in Seq(Nat) /\ Len(f) = n /\ \A i \in 1 .. n : f[i] = Len(out[d]) + i
    <3>1. f \in Seq(Nat) /\ Len(f) = n /\ \A i \in 1 .. n : f[i] = Offer(d, len)[i]
      BY <2>1, <2>2, FrontType
    <3> QED
      BY <2>1, <2>2, <3>1
  <2> HIDE DEF f
  <2>4. Flow(out[d], f, Len(out[d]) + n)
    BY <1>1, <2>3 DEF Flow
  <2>5. out[d] \o f = [i \in 1 .. Len(out[d]) + n |-> i]
    <3>1. Len(out[d]) + n \in Nat
      BY <1>1, <2>1
    <3> QED
      BY <1>1, <2>3, <2>4, <3>1, FlowWhole
  <2>6. Len(out[d] \o f) = Len(out[d]) + n
    BY <1>1, <2>3, ConcatProperties
  <2>7. /\ out'[d] = out[d] \o f
        /\ \A c \in Conn : c # d => out'[c] = out[c]
    BY <1>3 DEF f, Held, WeakTypes
  <2>8. SentOnce'
    BY <2>5, <2>6, <2>7 DEF SentOnce
  <2>9. /\ \A c \in Conn : c # d => told'[c] = told[c] /\ broken'[c] = broken[c]
        /\ ~broken'[d] => told'[d] = told[d] + Len(out'[d]) - Len(out[d])
    <3>1. \/ told' = [told EXCEPT ![d] = @ + Len(out'[d]) - Len(out[d])]
             /\ UNCHANGED broken
          \/ UNCHANGED told /\ broken' = [broken EXCEPT ![d] = TRUE]
      <4>1. CASE UNCHANGED out
        <5>1. Len(out'[d]) = Len(out[d]) + n /\ out'[d] = out[d]
          BY <2>6, <2>7, <4>1
        <5> QED
          BY <1>1, <2>1, <5>1
      <4>2. CASE ~UNCHANGED out
        BY <4>2 DEF Write, OutputFails
      <4> QED
        BY <4>1, <4>2
    <3> QED
      BY <1>1, <3>1 DEF Held, WeakTypes
  <2>10. told[d] + Len(out'[d]) - Len(out[d]) = Len(out'[d])
    BY <1>1, <2>1, <2>6, <2>7
  <2>11. Known'
    BY <2>7, <2>9, <2>10 DEF Known
  <2> QED
    BY <2>8, <2>11
<1> QED
  BY <1>2, <1>3 DEF Write

LEMMA SentStep ==
  ASSUME Held, SentOnce, Known, [Next]_vars
  PROVE  SentOnce' /\ Known'
<1>1. CASE \E d \in Conn : \E len \in 1 .. Tx[d] : Write(d, len)
  BY <1>1, SentWrite
<1>2. CASE ~\E d \in Conn : \E len \in 1 .. Tx[d] : Write(d, len)
  <2>1. UNCHANGED writeVars
    BY <1>2 DEF Next, Main, Listen, Accept, AcceptNone, DestroyListener,
       LoopWoken, Check, Woken, WaitOver, ReadLocked, DestroyBase, Call, Close,
       DestroyDerived, Read, Callback, AcceptFn, QueuedFin, QueuedErr, Fin,
       ErrFn, QueuedRecv, RecvFn, vars
  <2> QED
    BY <2>1 DEF writeVars, SentOnce, Known
<1> QED
  BY <1>1, <1>2

(* No byte is handed to tcp_write twice and none is skipped, though write() *)
(* may report an error for bytes it has passed on (internal_write_): its   *)
(* callers try again only after an answer that counts.                     *)
THEOREM SentCorrect == Spec => []SentOnce
<1>1. Init => SentOnce /\ Known
  <2> SUFFICES ASSUME Init, NEW c \in Conn
               PROVE  out[c] = [i \in 1 .. Len(out[c]) |-> i] /\ told[c] = Len(out[c])
    BY DEF SentOnce, Known
  <2>1. out[c] = <<>> /\ told[c] = 0 /\ Len(<<>>) = 0
    BY EmptySeq DEF Init
  <2>2. <<>> = [i \in 1 .. 0 |-> i]
    <3>1. [i \in 1 .. 0 |-> i] \in [1 .. 0 -> Nat]
      OBVIOUS
    <3>2. [i \in 1 .. 0 |-> i] \in Seq(Nat) /\ Len([i \in 1 .. 0 |-> i]) = 0
      BY <3>1, FunctionIsSeq
    <3> QED
      BY <3>2, EmptySeq
  <2> QED
    BY <2>1, <2>2
<1>2. Held /\ SentOnce /\ Known /\ [Next]_vars => SentOnce' /\ Known'
  BY SentStep
<1> QED
  BY <1>1, <1>2, AlwaysHeld, PTL DEF Spec

(* A read() that sleeps with data buffered has a wake-up to come: it looks *)
(* before it sleeps, and recv_fn asks for one after whatever it adds.      *)
THEOREM WakeCorrect == Spec => []DataWakes
<1>1. Init => DataWakes
  BY DEF Init, DataWakes
<1>2. ASSUME DataWakes, [Next]_vars
      PROVE  DataWakes'
  <2>1. CASE Check
    BY <2>1 DEF Check, WaitingForData, objectVars, DataWakes
  <2>2. CASE \E c \in Conn, n \in 1 .. Window : RecvFn(c, n)
    BY <2>2 DEF RecvFn, RecvWakes, DataWakes
  <2>3. CASE pc' # "delay"
    BY <2>3 DEF DataWakes
  <2>4. CASE UNCHANGED <<pc, user, rx_buf>> /\ (wake' = wake \/ wake' = TRUE)
    BY <1>2, <2>4 DEF DataWakes
  <2>5. CASE Main /\ ~Check
    BY <2>3, <2>4, <2>5 DEF Main, Listen, Accept, AcceptNone, DestroyListener,
       LoopWoken, Woken, WaitOver, ReadLocked, DestroyBase, Call, CanUse, Close,
       DestroyDerived, Read, Write, mainVars
  <2>6. CASE \E c \in Conn : Callback(c)
    <3>1. PICK c \in Conn : Callback(c)
      BY <2>6
    <3>2. CASE \E n \in 1 .. Window : RecvFn(c, n)
      BY <2>2, <3>2
    <3>3. CASE ~\E n \in 1 .. Window : RecvFn(c, n)
      BY <2>4, <3>1, <3>3 DEF Callback, AcceptFn, QueuedFin, QueuedErr, Fin,
         ErrFn, QueuedRecv, mainVars, objectVars
    <3> QED
      BY <3>2, <3>3
  <2>7. CASE UNCHANGED vars
    BY <2>4, <2>7 DEF vars, mainVars, objectVars
  <2> QED
    BY <1>2, <2>1, <2>5, <2>6, <2>7 DEF Next
<1> QED
  BY <1>1, <1>2, PTL DEF Spec
------------------------------------------------------------------------------
(* The pbufs.  The same helper as SlotBytes, of any queue.                 *)
Bytes(q, c, is) ==
  LET mine == {i \in is : q[i].from = c} IN
  IF mine = {} THEN 0 ELSE Len(q[CHOOSE i \in mine : TRUE].rx_buf)

LEMMA BytesNow ==
  \A c : /\ SlotBytes(c, Slots) = Bytes(accepted_pcbs, c, Slots)
         /\ SlotBytes(c, Slots)' = Bytes(accepted_pcbs', c, Slots')
BY DEF SlotBytes, Bytes

LEMMA BytesOf ==
  ASSUME NEW q, NEW c, NEW is, NEW i \in is, q[i].from = c,
         \A j \in is : q[j].from = c => j = i
  PROVE  Bytes(q, c, is) = Len(q[i].rx_buf)
<1>1. {j \in is : q[j].from = c} = {i}
  OBVIOUS
<1>2. (CHOOSE j \in {i} : TRUE) = i
  OBVIOUS
<1> QED
  BY <1>1, <1>2 DEF Bytes

LEMMA BytesNone ==
  ASSUME NEW q, NEW c, NEW is, \A j \in is : q[j].from # c
  PROVE  Bytes(q, c, is) = 0
<1>1. {j \in is : q[j].from = c} = {}
  OBVIOUS
<1> QED
  BY <1>1 DEF Bytes

LEMMA BytesSame ==
  ASSUME NEW q, NEW r, NEW c, NEW is,
         \A j \in is : r[j].from = q[j].from,
         \A j \in is : q[j].from = c => r[j].rx_buf = q[j].rx_buf
  PROVE  Bytes(r, c, is) = Bytes(q, c, is)
<1> DEFINE mine == {j \in is : q[j].from = c}
           i == CHOOSE j \in mine : TRUE
<1>1. {j \in is : r[j].from = c} = mine
  OBVIOUS
<1>2. CASE mine = {}
  BY <1>1, <1>2 DEF Bytes
<1>3. CASE mine # {}
  <2>1. i \in mine
    BY <1>3
  <2>2. r[i].rx_buf = q[i].rx_buf
    BY <2>1
  <2>3. Bytes(r, c, is) = Len(r[i].rx_buf) /\ Bytes(q, c, is) = Len(q[i].rx_buf)
    BY <1>1, <1>3 DEF Bytes
  <2> QED
    BY <2>2, <2>3
<1> QED
  BY <1>2, <1>3

(* A slot belongs to the connection it was filled for, a connection has    *)
(* one at most, and none before it comes; and nothing is buffered for a    *)
(* connection that has no socket yet.  With that the accounts balance.     *)
Filled ==
  \A i \in Slots : /\ link[accepted_pcbs[i].from] # "new"
                   /\ ~Dead(i) => accepted_pcbs[i].pcb = accepted_pcbs[i].from

OneSlot ==
  \A i, j \in Slots : accepted_pcbs[i].from = accepted_pcbs[j].from => i = j

Bare == \A c \in Conn : object[c] = "none" => rx_buf[c] = <<>>

Owned == Filled /\ OneSlot /\ Bare /\ PbufsAccounted

LEMMA OwnedInit ==
  ASSUME Init
  PROVE  Owned
<1>1. Slots = {}
  BY EmptySeq DEF Init, Slots
<1>2. \A c \in Conn : SlotBytes(c, Slots) = 0
  BY <1>1, BytesNow, BytesNone
<1>3. \A c \in Conn : pbufs[c] = 0 /\ Len(rx_buf[c]) = 0
  BY EmptySeq DEF Init
<1>4. PbufsAccounted
  <2>1. 0 = 0 + 0
    OBVIOUS
  <2> QED
    BY <1>2, <1>3, <2>1, Zenon DEF PbufsAccounted
<1> QED
  BY <1>1, <1>4 DEF Init, Owned, Filled, OneSlot, Bare

(* Connections may leave lwIP and sockets die, but no data moves.          *)
LEMMA OwnedQuiet ==
  ASSUME Held, Owned, UNCHANGED <<accepted_pcbs, rx_buf, pbufs>>,
         \A c \in Conn : link'[c] = "new" => link[c] = "new",
         \A c \in Conn : object'[c] = "none" => object[c] = "none"
  PROVE  Owned'
<1>1. Slots' = Slots /\ \A i \in Slots : Dead(i)' <=> Dead(i)
  BY DEF Slots, Dead
<1>2. \A i \in Slots : accepted_pcbs[i].from \in Conn
  BY SlotType DEF Slot
<1>3. Filled' /\ OneSlot'
  BY <1>1, <1>2 DEF Owned, Filled, OneSlot
<1>4. Bare'
  BY DEF Owned, Bare
<1>5. PbufsAccounted'
  BY <1>1, BytesNow DEF Owned, PbufsAccounted
<1> QED
  BY <1>3, <1>4, <1>5 DEF Owned

(* Data comes to a socket's buffer or leaves it.                           *)
LEMMA OwnedBuffer ==
  ASSUME Held, Owned, NEW d \in Conn, object[d] # "none",
         UNCHANGED <<accepted_pcbs, link>>,
         \A c \in Conn : object'[c] = "none" => object[c] = "none",
         \A c \in Conn \ {d} : rx_buf'[c] = rx_buf[c] /\ pbufs'[c] = pbufs[c],
         rx_buf'[d] \in Seq(Nat),
         pbufs'[d] = pbufs[d] + Len(rx_buf'[d]) - Len(rx_buf[d])
  PROVE  Owned'
<1>1. Slots' = Slots /\ \A i \in Slots : Dead(i)' <=> Dead(i)
  BY DEF Slots, Dead
<1>2. Filled' /\ OneSlot'
  BY <1>1 DEF Owned, Filled, OneSlot
<1>3. Bare'
  BY DEF Owned, Bare
<1>4. PbufsAccounted'
  <2> SUFFICES ASSUME NEW c \in Conn
               PROVE  pbufs'[c] = Len(rx_buf'[c]) + SlotBytes(c, Slots)'
    BY DEF PbufsAccounted
  <2>1. SlotBytes(c, Slots)' = SlotBytes(c, Slots)
    BY <1>1, BytesNow
  <2>2. pbufs[c] = Len(rx_buf[c]) + SlotBytes(c, Slots)
    BY DEF Owned, PbufsAccounted
  <2>3. SlotBytes(c, Slots) \in Nat
    BY SlotBytesType
  <2>4. CASE c = d
    <3> DEFINE a == Len(rx_buf[d])  b == Len(rx_buf'[d])
               m == SlotBytes(d, Slots)
    <3>1. a \in Nat /\ b \in Nat
      BY LenProperties DEF Held, WeakTypes
    <3>2. m \in Nat /\ pbufs[d] = a + m /\ pbufs'[d] = pbufs[d] + b - a
      BY <2>2, <2>3, <2>4
    <3> HIDE DEF a, b, m
    <3>3. pbufs'[d] = b + m
      <4>1. (a + m) + b - a = b + m
        BY <3>1, <3>2
      <4> QED
        BY <3>2, <4>1, Zenon
    <3> QED
      BY <2>1, <2>4, <3>3 DEF b, m
  <2>5. CASE c # d
    BY <2>1, <2>2, <2>5
  <2> QED
    BY <2>4, <2>5
<1> QED
  BY <1>2, <1>3, <1>4 DEF Owned

LEMMA OwnedRecvFn ==
  ASSUME Held, Owned, NEW d \in Conn, NEW n \in 1 .. Window, RecvFn(d, n)
  PROVE  Owned'
<1>1. n \in Nat /\ sent[d] \in Nat /\ rx_buf[d] \in Seq(Nat) /\ pbufs[d] \in Int
  BY LimitAssumption DEF Held, WeakTypes
<1>2. Fresh(d, n) \in Seq(Nat) /\ Len(Fresh(d, n)) = n
  BY <1>1, FreshType
<1>3. /\ rx_buf'[d] = rx_buf[d] \o Fresh(d, n)
      /\ \A c \in Conn \ {d} : rx_buf'[c] = rx_buf[c]
  BY DEF RecvFn, Held, WeakTypes
<1>4. pbufs'[d] = pbufs[d] + n /\ \A c \in Conn \ {d} : pbufs'[c] = pbufs[c]
  BY DEF RecvFn, Segment, Held, WeakTypes
<1>5. rx_buf'[d] \in Seq(Nat) /\ Len(rx_buf'[d]) = Len(rx_buf[d]) + n
  <2> DEFINE b == rx_buf[d]  f == Fresh(d, n)
  <2>1. b \in Seq(Nat) /\ f \in Seq(Nat) /\ Len(f) = n /\ rx_buf'[d] = b \o f
    BY <1>1, <1>2, <1>3
  <2> HIDE DEF b, f
  <2>2. b \o f \in Seq(Nat) /\ Len(b \o f) = Len(b) + Len(f)
    BY <2>1, ConcatProperties
  <2> QED
    BY <2>1, <2>2 DEF b
<1>6. Len(rx_buf[d]) \in Nat
  BY <1>1, LenProperties
<1>7. pbufs'[d] = pbufs[d] + Len(rx_buf'[d]) - Len(rx_buf[d])
  BY <1>1, <1>4, <1>5, <1>6
<1>8. UNCHANGED <<accepted_pcbs, link, object>> /\ object[d] # "none"
  BY DEF RecvFn, queueVars, pcbVars, Held, Match
<1> QED
  BY <1>3, <1>4, <1>5, <1>7, <1>8, OwnedBuffer

LEMMA OwnedReadLocked ==
  ASSUME Held, Owned, ReadLocked
  PROVE  Owned'
<1> DEFINE n == Lesser(want, Len(rx_buf[user]))
<1>1. UNCHANGED <<accepted_pcbs, link, object>>
  BY DEF ReadLocked, queueVars, pcbVars
<1>2. user \in Conn /\ object[user] = "live"
  BY DEF ReadLocked, Held, Match
<1>3. rx_buf[user] \in Seq(Nat) /\ pbufs[user] \in Int
  BY <1>2 DEF Held, WeakTypes
<1>4. n \in 0 .. Len(rx_buf[user]) /\ Len(rx_buf[user]) \in Nat
  BY <1>3, LenProperties DEF Held, WeakTypes, Lesser
<1>5. CASE UNCHANGED <<rx_buf, pbufs>>
  BY <1>1, <1>5, OwnedQuiet
<1>6. CASE /\ rx_buf' = [rx_buf EXCEPT ![user] = Drop(@, n)]
           /\ pbufs' = [pbufs EXCEPT ![user] = @ - n]
  <2> HIDE DEF n
  <2>1. /\ rx_buf'[user] = Drop(rx_buf[user], n)
        /\ \A c \in Conn \ {user} : rx_buf'[c] = rx_buf[c]
    BY <1>2, <1>6 DEF Held, WeakTypes
  <2>2. /\ pbufs'[user] = pbufs[user] - n
        /\ \A c \in Conn \ {user} : pbufs'[c] = pbufs[c]
    BY <1>2, <1>6 DEF Held, WeakTypes
  <2>3. /\ rx_buf'[user] \in Seq(Nat)
        /\ Len(rx_buf'[user]) = Len(rx_buf[user]) - n
    BY <1>3, <1>4, <2>1, DropType
  <2>4. pbufs'[user] = pbufs[user] + Len(rx_buf'[user]) - Len(rx_buf[user])
    BY <1>3, <1>4, <2>2, <2>3
  <2> QED
    BY <1>1, <1>2, <2>1, <2>2, <2>3, <2>4, OwnedBuffer
<1> QED
  BY <1>5, <1>6 DEF ReadLocked

LEMMA OwnedDestroyDerived ==
  ASSUME Held, Owned, NEW d \in Conn, DestroyDerived(d)
  PROVE  Owned'
<1>1. UNCHANGED <<accepted_pcbs, link>>
  BY DEF DestroyDerived, queueVars, pcbVars
<1>2. /\ object[d] = "live" /\ object'[d] = "dying"
      /\ \A c \in Conn \ {d} : object'[c] = object[c]
  BY DEF DestroyDerived, CanUse, Held, WeakTypes
<1>3. rx_buf'[d] = <<>> /\ \A c \in Conn \ {d} : rx_buf'[c] = rx_buf[c]
  BY DEF DestroyDerived, Held, WeakTypes
<1>4. /\ pbufs'[d] = pbufs[d] - Len(rx_buf[d])
      /\ \A c \in Conn \ {d} : pbufs'[c] = pbufs[c]
  BY DEF DestroyDerived, Held, WeakTypes
<1>5. pbufs'[d] = pbufs[d] + Len(rx_buf'[d]) - Len(rx_buf[d])
  <2>1. pbufs[d] \in Int /\ Len(rx_buf[d]) \in Nat
    BY LenProperties DEF Held, WeakTypes
  <2> QED
    BY <1>3, <1>4, <2>1, EmptySeq
<1>6. rx_buf'[d] \in Seq(Nat)
  BY <1>3, EmptySeq
<1> QED
  BY <1>1, <1>2, <1>3, <1>4, <1>5, <1>6, OwnedBuffer

(* Data comes to a slot, a FIN does, or its pcb is freed.                  *)
LEMMA OwnedSlot ==
  ASSUME Held, Owned, NEW k \in Slots, NEW e \in Slot,
         accepted_pcbs' = [accepted_pcbs EXCEPT ![k] = e],
         e.from = accepted_pcbs[k].from,
         e.pcb \in {NoConn, accepted_pcbs[k].pcb},
         UNCHANGED <<object, rx_buf>>,
         \A c \in Conn : link'[c] = "new" => link[c] = "new",
         \A c \in Conn \ {e.from} : pbufs'[c] = pbufs[c],
         pbufs'[e.from] = pbufs[e.from] + Len(e.rx_buf)
                            - Len(accepted_pcbs[k].rx_buf)
  PROVE  Owned'
<1> DEFINE o == accepted_pcbs[k]  q == accepted_pcbs  r == accepted_pcbs'
<1>1. /\ Slots' = Slots
      /\ \A j \in Slots : r[j] = IF j = k THEN e ELSE q[j]
  BY SlotReplaced DEF Slots
<1>2. o \in Slot /\ \A j \in Slots : q[j].from \in Conn
  BY SlotType DEF Slot
<1> HIDE DEF o
<1>3. \A j \in Slots : r[j].from = q[j].from
  BY <1>1
<1>4. Filled'
  <2> SUFFICES ASSUME NEW i \in Slots
               PROVE  /\ link'[r[i].from] # "new"
                      /\ r[i].pcb # NoConn => r[i].pcb = r[i].from
    BY <1>1 DEF Filled, Dead
  <2>1. link[q[i].from] # "new" /\ (q[i].pcb # NoConn => q[i].pcb = q[i].from)
    BY DEF Owned, Filled, Dead
  <2>2. r[i].pcb # NoConn => r[i].pcb = q[i].pcb
    BY <1>1
  <2> QED
    BY <1>2, <1>3, <2>1, <2>2
<1>5. OneSlot'
  BY <1>1, <1>3 DEF Owned, OneSlot
<1>6. Bare'
  BY DEF Owned, Bare
<1>7. PbufsAccounted'
  <2> SUFFICES ASSUME NEW c \in Conn
               PROVE  pbufs'[c] = Len(rx_buf[c]) + Bytes(r, c, Slots)
    BY <1>1, BytesNow DEF PbufsAccounted
  <2>1. pbufs[c] = Len(rx_buf[c]) + Bytes(q, c, Slots)
    BY BytesNow DEF Owned, PbufsAccounted
  <2>2. CASE c = e.from
    <3>1. \A j \in Slots : q[j].from = c => j = k
      BY <2>2 DEF Owned, OneSlot
    <3>2. q[k].from = c /\ r[k].from = c
      BY <1>3, <2>2
    <3>3. Bytes(q, c, Slots) = Len(q[k].rx_buf)
      <4>1. {j \in Slots : q[j].from = c} = {k}
        BY <3>1, <3>2
      <4>2. (CHOOSE j \in {k} : TRUE) = k
        OBVIOUS
      <4> HIDE DEF q
      <4> QED
        BY <4>1, <4>2 DEF Bytes
    <3>4. \A j \in Slots : r[j].from = c => j = k
      BY <1>3, <3>1
    <3>5. Bytes(r, c, Slots) = Len(r[k].rx_buf)
      <4>1. {j \in Slots : r[j].from = c} = {k}
        BY <3>2, <3>4
      <4>2. (CHOOSE j \in {k} : TRUE) = k
        OBVIOUS
      <4> HIDE DEF r
      <4> QED
        BY <4>1, <4>2 DEF Bytes
    <3> DEFINE x == Len(rx_buf[c])  y == Len(q[k].rx_buf)  z == Len(e.rx_buf)
    <3>6. x \in Nat /\ y \in Nat /\ z \in Nat
      <4>1. /\ rx_buf[c] \in Seq(Nat)
            /\ q[k].rx_buf \in Seq(Nat) /\ e.rx_buf \in Seq(Nat)
        BY SlotType DEF Held, WeakTypes, Slot
      <4> QED
        BY <4>1, LenProperties
    <3>7. pbufs[c] = x + y /\ pbufs'[c] = pbufs[c] + z - y
      BY <2>1, <2>2, <3>3
    <3>8. Bytes(r, c, Slots) = z
      BY <1>1, <3>5
    <3> HIDE DEF x, y, z
    <3>9. (x + y) + z - y = x + z
      BY <3>6
    <3>10. pbufs'[c] = x + z
      BY <3>7, <3>9, Zenon
    <3> QED
      BY <3>8, <3>10, Zenon DEF x
  <2>3. CASE c # e.from
    <3>1. \A j \in Slots : q[j].from = c => r[j].rx_buf = q[j].rx_buf
      BY <1>1, <2>3
    <3>2. Bytes(r, c, Slots) = Bytes(q, c, Slots)
      <4> HIDE DEF q, r
      <4> QED
        BY <1>3, <3>1, BytesSame
    <3> QED
      BY <2>1, <2>3, <3>2
  <2> QED
    BY <2>2, <2>3
<1> QED
  BY <1>4, <1>5, <1>6, <1>7 DEF Owned

LEMMA OwnedQueuedRecv ==
  ASSUME Held, Owned, NEW d \in Conn, NEW n \in 1 .. Window, QueuedRecv(d, n)
  PROVE  Owned'
<1> DEFINE k == arg[d]
           e == [accepted_pcbs[k] EXCEPT !.rx_buf = @ \o Fresh(d, n)]
<1>1. k \in Slots /\ accepted_pcbs[k].pcb = d
  BY DEF Held, Match, QueuedRecv
<1>2. accepted_pcbs[k] \in Slot /\ accepted_pcbs[k].rx_buf \in Seq(Nat)
  BY <1>1, SlotType DEF Slot
<1>3. accepted_pcbs[k].from = d
  BY <1>1, ConnAssumption DEF Owned, Filled, Dead
<1>4. n \in Nat /\ sent[d] \in Nat /\ pbufs[d] \in Int
  BY LimitAssumption DEF Held, WeakTypes
<1>5. Fresh(d, n) \in Seq(Nat) /\ Len(Fresh(d, n)) = n
  BY <1>4, FreshType
<1> DEFINE b == accepted_pcbs[k].rx_buf  f == Fresh(d, n)
<1>6. b \o f \in Seq(Nat) /\ Len(b \o f) = Len(b) + n /\ Len(b) \in Nat
  <2> HIDE DEF b, f
  <2>1. b \in Seq(Nat) /\ f \in Seq(Nat) /\ Len(f) = n
    BY <1>2, <1>5 DEF b, f
  <2> QED
    BY <2>1, ConcatProperties, LenProperties
<1>7. e \in Slot /\ e.pcb = d /\ e.from = d /\ e.rx_buf = b \o f
  BY <1>1, <1>2, <1>3, <1>6 DEF Slot
<1>8. accepted_pcbs' = [accepted_pcbs EXCEPT ![k] = e]
  BY DEF QueuedRecv
<1>9. pbufs'[d] = pbufs[d] + n /\ \A c \in Conn \ {d} : pbufs'[c] = pbufs[c]
  BY DEF QueuedRecv, Segment, Held, WeakTypes
<1> HIDE DEF e, f
<1>10. pbufs'[d] = pbufs[d] + Len(e.rx_buf) - Len(b)
  BY <1>4, <1>6, <1>7, <1>9
<1>11. UNCHANGED <<object, rx_buf, link>>
  BY DEF QueuedRecv, objectVars, pcbVars
<1> QED
  BY <1>1, <1>3, <1>7, <1>8, <1>9, <1>10, <1>11, OwnedSlot

LEMMA OwnedQueuedEnd ==
  ASSUME Held, Owned, NEW d \in Conn, QueuedFin(d) \/ QueuedErr(d)
  PROVE  Owned'
<1> DEFINE k == arg[d]
           o == accepted_pcbs[k]
<1>1. k \in Slots
  BY DEF Held, Match, QueuedFin, QueuedErr
<1>2. o \in Slot
  BY <1>1, SlotType
<1>3. UNCHANGED <<object, rx_buf, pbufs>>
  BY DEF QueuedFin, QueuedErr, objectVars
<1>4. \A c \in Conn : link'[c] = "new" => link[c] = "new"
  BY DEF QueuedFin, QueuedErr, pcbVars, Detach
<1>5. pbufs'[o.from] = pbufs[o.from] + Len(o.rx_buf) - Len(o.rx_buf)
  <2>1. o.from \in Conn /\ o.rx_buf \in Seq(Nat)
    BY <1>2 DEF Slot
  <2>2. pbufs[o.from] \in Int /\ Len(o.rx_buf) \in Nat
    BY <2>1, LenProperties DEF Held, WeakTypes
  <2> QED
    BY <1>3, <2>2
<1>6. PICK e \in Slot : /\ accepted_pcbs' = [accepted_pcbs EXCEPT ![k] = e]
                        /\ e.from = o.from /\ e.rx_buf = o.rx_buf
                        /\ e.pcb \in {NoConn, o.pcb}
  <2>1. CASE QueuedFin(d)
    <3>1. /\ [o EXCEPT !.rx_closed = TRUE] \in Slot
          /\ accepted_pcbs' = [accepted_pcbs EXCEPT
                                 ![k] = [o EXCEPT !.rx_closed = TRUE]]
      BY <1>2, <2>1 DEF QueuedFin, Slot
    <3> QED
      BY <1>2, <3>1 DEF Slot
  <2>2. CASE QueuedErr(d)
    <3>1. /\ [o EXCEPT !.pcb = NoConn] \in Slot
          /\ accepted_pcbs' = [accepted_pcbs EXCEPT
                                 ![k] = [o EXCEPT !.pcb = NoConn]]
      BY <1>2, <2>2 DEF QueuedErr, Slot
    <3> QED
      BY <1>2, <3>1 DEF Slot
  <2> QED
    BY <2>1, <2>2
<1>7. pbufs'[e.from] = pbufs[e.from] + Len(e.rx_buf) - Len(o.rx_buf)
  BY <1>5, <1>6
<1> QED
  BY <1>1, <1>3, <1>4, <1>6, <1>7, OwnedSlot

(* A connection takes its one slot, empty, as it comes.                    *)
LEMMA OwnedAcceptFn ==
  ASSUME Held, Owned, NEW d \in Conn, AcceptFn(d)
  PROVE  Owned'
<1> DEFINE q == accepted_pcbs  n == Len(q)
           e == [pcb |-> d, from |-> d, rx_buf |-> <<>>, rx_closed |-> FALSE]
<1>1. UNCHANGED <<object, rx_buf, pbufs>> /\ link[d] = "new"
  BY DEF AcceptFn, objectVars
<1>2. \A i \in Slots : q[i].from \in Conn \ {d} /\ q[i] \in Slot
  BY <1>1, SlotType DEF Slot, Owned, Filled
<1>3. CASE QueueFull
  <2>1. q' = q /\ \A c \in Conn : link'[c] = "new" => link[c] = "new"
    BY <1>3 DEF AcceptFn, Detach
  <2> QED
    BY <1>1, <2>1, OwnedQuiet
<1>4. CASE ~QueueFull
  <2>1. q' = Append(q, e) /\ link' = [link EXCEPT ![d] = "live"]
    BY <1>4 DEF AcceptFn
  <2>2. e \in Slot /\ e.from = d /\ e.pcb = d /\ e.rx_buf = <<>>
    BY EmptySeq DEF Slot
  <2> HIDE DEF e
  <2>3. q \in Seq(Slot) /\ n \in Nat
    BY LenProperties DEF Held, WeakTypes
  <2>4. /\ Len(q') = n + 1 /\ q'[n + 1] = e
        /\ \A j \in 1 .. n : q'[j] = q[j]
    BY <2>1, <2>2, <2>3, AppendProperties
  <2>5. Slots = 1 .. n /\ Slots' = 1 .. n + 1
    BY <2>4 DEF Slots
  <2>6. \A j \in Slots' : j \in Slots \/ j = n + 1
    BY <2>3, <2>5
  <2>7. /\ \A j \in Slots : j \in Slots' /\ j # n + 1 /\ q'[j] = q[j]
        /\ n + 1 \in Slots'
    BY <2>3, <2>4, <2>5
  <2>8. \A c \in Conn : link'[c] = "new" => link[c] = "new" /\ c # d
    BY <2>1 DEF Held, WeakTypes
  <2>9. Filled'
    <3> SUFFICES ASSUME NEW i \in Slots'
                 PROVE  /\ link'[q'[i].from] # "new"
                        /\ q'[i].pcb # NoConn => q'[i].pcb = q'[i].from
      BY DEF Filled, Dead
    <3>1. CASE i \in Slots
      <4>1. link[q[i].from] # "new" /\ (q[i].pcb # NoConn => q[i].pcb = q[i].from)
        BY <3>1 DEF Owned, Filled, Dead
      <4> QED
        BY <1>2, <2>7, <2>8, <3>1, <4>1
    <3>2. CASE i = n + 1
      BY <2>2, <2>4, <2>8, <3>2
    <3> QED
      BY <2>6, <3>1, <3>2
  <2>10. OneSlot'
    <3> SUFFICES ASSUME NEW i \in Slots', NEW j \in Slots',
                        q'[i].from = q'[j].from
                 PROVE  i = j
      BY DEF OneSlot
    <3>1. CASE i \in Slots /\ j \in Slots
      BY <2>7, <3>1 DEF Owned, OneSlot
    <3>2. CASE i = n + 1 \/ j = n + 1
      BY <1>2, <2>2, <2>4, <2>6, <2>7, <3>2
    <3> QED
      BY <2>6, <3>1, <3>2
  <2>11. Bare'
    BY <1>1 DEF Owned, Bare
  <2>12. PbufsAccounted'
    <3> SUFFICES ASSUME NEW c \in Conn
                 PROVE  Bytes(q', c, Slots') = Bytes(q, c, Slots)
      BY <1>1, BytesNow DEF Owned, PbufsAccounted
    <3>1. CASE c = d
      <4>1. Bytes(q, c, Slots) = 0
        BY <1>2, <3>1, BytesNone
      <4>2. q'[n + 1].from = c /\ \A j \in Slots' : q'[j].from = c => j = n + 1
        BY <1>2, <2>2, <2>4, <2>6, <2>7, <3>1
      <4>3. Bytes(q', c, Slots') = Len(q'[n + 1].rx_buf)
        <5> DEFINE r == q'  is == Slots'  i == n + 1
        <5>1. i \in is /\ r[i].from = c /\ \A j \in is : r[j].from = c => j = i
          BY <2>7, <4>2
        <5> HIDE DEF r, is, i
        <5>2. Bytes(r, c, is) = Len(r[i].rx_buf)
          BY <5>1, BytesOf
        <5> QED
          BY <5>2 DEF r, is, i
      <4> QED
        BY <2>2, <2>4, <4>1, <4>3, EmptySeq
    <3>2. CASE c # d /\ \E i \in Slots : q[i].from = c
      <4>1. PICK i \in Slots : q[i].from = c
        BY <3>2
      <4>2. Bytes(q, c, Slots) = Len(q[i].rx_buf)
        BY <4>1, BytesOf DEF Owned, OneSlot
      <4>3. i \in Slots' /\ q'[i] = q[i]
        BY <2>7
      <4>4. \A j \in Slots' : q'[j].from = c => j = i
        BY <2>10, <4>1, <4>3 DEF OneSlot
      <4>5. Bytes(q', c, Slots') = Len(q'[i].rx_buf)
        <5>1. {j \in Slots' : q'[j].from = c} = {i}
          BY <4>1, <4>3, <4>4
        <5>2. (CHOOSE j \in {i} : TRUE) = i
          OBVIOUS
        <5> QED
          BY <5>1, <5>2 DEF Bytes
      <4> QED
        BY <4>2, <4>3, <4>5
    <3>3. CASE c # d /\ \A i \in Slots : q[i].from # c
      <4>1. Bytes(q, c, Slots) = 0
        BY <3>3, BytesNone
      <4>2. \A j \in Slots' : q'[j].from # c
        BY <2>2, <2>4, <2>6, <2>7, <3>3
      <4>3. Bytes(q', c, Slots') = 0
        BY <4>2, BytesNone
      <4> QED
        BY <4>1, <4>3
    <3> QED
      BY <3>1, <3>2, <3>3
  <2> QED
    BY <2>9, <2>10, <2>11, <2>12 DEF Owned
<1> QED
  BY <1>3, <1>4

(* The whole queue is given up, with the pbufs of every slot.              *)
LEMMA OwnedNoQueue ==
  ASSUME Held, Owned, accepted_pcbs' = <<>>, pbufs' = Discarded(Slots),
         UNCHANGED <<object, rx_buf>>
  PROVE  Owned'
<1>1. Slots' = {}
  BY EmptySeq DEF Slots
<1>2. Filled' /\ OneSlot' /\ Bare'
  BY <1>1 DEF Owned, Filled, OneSlot, Bare
<1>3. PbufsAccounted'
  <2> SUFFICES ASSUME NEW c \in Conn
               PROVE  pbufs'[c] = Len(rx_buf[c]) + Bytes(accepted_pcbs', c, Slots')
    BY BytesNow DEF PbufsAccounted
  <2>1. Bytes(accepted_pcbs', c, Slots') = 0
    BY <1>1, BytesNone
  <2> DEFINE x == Len(rx_buf[c])  m == SlotBytes(c, Slots)
  <2>2. pbufs[c] = x + m /\ pbufs'[c] = pbufs[c] - m
    BY DEF Discarded, Owned, PbufsAccounted
  <2>3. x \in Nat /\ m \in Nat
    BY SlotBytesType, LenProperties DEF Held, WeakTypes
  <2> HIDE DEF x, m
  <2>4. (x + m) - m = x + 0
    BY <2>3
  <2>5. pbufs'[c] = x + 0
    BY <2>2, <2>4, Zenon
  <2> QED
    BY <2>1, <2>5, Zenon DEF x
<1> QED
  BY <1>2, <1>3 DEF Owned

(* accept() frees the dead slots in front with their pbufs; those of the   *)
(* next slot become its socket's, which had none.                          *)
LEMMA OwnedAccept ==
  ASSUME Held, Intact, Owned, Accept
  PROVE  Owned'
<1>1. PICK k \in Slots : AcceptAt(k)
  BY DEF Accept
<1> DEFINE q == accepted_pcbs  n == Len(q)  d == q[k].pcb
<1>2. n \in Nat /\ k \in 1 .. n /\ Slots = 1 .. n
  BY LenProperties DEF Slots, Held, WeakTypes
<1>3. d \in Conn /\ q[k].rx_buf \in Seq(Nat)
  BY <1>1, SlotType DEF AcceptAt, Dead, Slot
<1>4. q[k].from = d
  BY <1>1 DEF AcceptAt, Owned, Filled
<1>5. callback[d] = "queued" /\ object[d] = "none" /\ rx_buf[d] = <<>>
  BY <1>1, <1>3 DEF AcceptAt, Held, Match, Intact, Data, Owned, Bare
<1>6. /\ Len(q') = n - k
      /\ \A i \in 1 .. n - k : q'[i] = q[k + i]
  <2>1. q \in Seq(Slot) /\ k \in 0 .. n
    BY <1>2 DEF Held, WeakTypes
  <2> QED
    BY <1>1, <2>1, DropType DEF AcceptAt
<1>7. /\ object' = [object EXCEPT ![d] = "live"]
      /\ rx_buf' = [rx_buf EXCEPT ![d] = q[k].rx_buf]
      /\ pbufs' = Discarded(1 .. k - 1) /\ link' = link
  BY <1>1 DEF AcceptAt, InitialRx, Accept
<1> HIDE DEF d
<1>8. /\ object'[d] = "live" /\ \A c \in Conn \ {d} : object'[c] = object[c]
      /\ rx_buf'[d] = q[k].rx_buf
      /\ \A c \in Conn \ {d} : rx_buf'[c] = rx_buf[c]
  BY <1>3, <1>7 DEF Held, WeakTypes
<1>9. Slots' = 1 .. n - k
  BY <1>6 DEF Slots
<1>10. \A i \in Slots' : k + i \in Slots /\ k + i > k /\ q'[i] = q[k + i]
  BY <1>2, <1>6, <1>9
<1>11. Filled'
  <2> SUFFICES ASSUME NEW i \in Slots'
               PROVE  /\ link'[q'[i].from] # "new"
                      /\ q'[i].pcb # NoConn => q'[i].pcb = q'[i].from
    BY DEF Filled, Dead
  <2> DEFINE j == k + i
  <2>1. j \in Slots /\ q'[i] = q[j]
    BY <1>10
  <2> HIDE DEF j
  <2>2. link[q[j].from] # "new" /\ (q[j].pcb # NoConn => q[j].pcb = q[j].from)
    BY <2>1 DEF Owned, Filled, Dead
  <2> QED
    BY <1>7, <2>1, <2>2
<1>12. OneSlot'
  <2> SUFFICES ASSUME NEW i \in Slots', NEW j \in Slots',
                      q'[i].from = q'[j].from
               PROVE  i = j
    BY DEF OneSlot
  <2>1. q[k + i].from = q[k + j].from /\ k + i \in Slots /\ k + j \in Slots
    BY <1>10
  <2>2. k + i = k + j
    BY <2>1 DEF Owned, OneSlot
  <2> QED
    BY <1>2, <1>9, <2>2
<1>13. Bare'
  BY <1>8 DEF Owned, Bare
<1>14. PbufsAccounted'
  <2> SUFFICES ASSUME NEW c \in Conn
               PROVE  pbufs'[c] = Len(rx_buf'[c]) + Bytes(q', c, Slots')
    BY BytesNow DEF PbufsAccounted
  <2>1. SlotBytes(c, 1 .. k - 1) = Bytes(q, c, 1 .. k - 1)
    BY DEF SlotBytes, Bytes
  <2>2. pbufs[c] = Len(rx_buf[c]) + Bytes(q, c, Slots)
    BY BytesNow DEF Owned, PbufsAccounted
  <2>3. pbufs'[c] = pbufs[c] - Bytes(q, c, 1 .. k - 1)
    BY <1>7, <2>1 DEF Discarded
  <2>4. Len(rx_buf[c]) \in Nat
    BY LenProperties DEF Held, WeakTypes
  <2>5. \A i \in 1 .. k - 1 : i \in Slots /\ i < k
    BY <1>2
  <2>6. ASSUME NEW i \in Slots, q[i].from = c
        PROVE  \A j \in Slots : q[j].from = c => j = i
    BY <2>6 DEF Owned, OneSlot
  <2>7. CASE \A i \in Slots : q[i].from # c
    <3>1. c # d
      BY <1>4, <2>7
    <3>2. \A i \in 1 .. k - 1 : q[i].from # c
      BY <2>5, <2>7
    <3>3. \A i \in Slots' : q'[i].from # c
      BY <1>10, <2>7
    <3>4. Bytes(q, c, Slots) = 0
      BY <2>7, BytesNone
    <3>5. Bytes(q, c, 1 .. k - 1) = 0
      BY <3>2, BytesNone
    <3>6. Bytes(q', c, Slots') = 0
      BY <3>3, BytesNone
    <3>7. (Len(rx_buf[c]) + 0) - 0 = Len(rx_buf[c]) + 0
      BY <2>4
    <3>8. rx_buf'[c] = rx_buf[c]
      BY <1>8, <3>1
    <3> QED
      BY <2>2, <2>3, <3>4, <3>5, <3>6, <3>7, <3>8, Zenon
  <2>8. ASSUME NEW i \in Slots, q[i].from = c
        PROVE  pbufs'[c] = Len(rx_buf'[c]) + Bytes(q', c, Slots')
    <3> DEFINE x == Len(rx_buf[c])  y == Len(q[i].rx_buf)
    <3>1. \A j \in Slots : q[j].from = c => j = i
      BY <2>6, <2>8
    <3>2. Bytes(q, c, Slots) = y
      BY <2>8, <3>1, BytesOf
    <3>3. x \in Nat /\ y \in Nat
      <4>1. q[i].rx_buf \in Seq(Nat)
        BY <2>8, SlotType DEF Slot
      <4> QED
        BY <2>4, <4>1, LenProperties
    <3>4. CASE i < k
      <4>1. i \in 1 .. k - 1
        BY <1>2, <3>4
      <4>2. \A j \in 1 .. k - 1 : q[j].from = c => j = i
        BY <2>5, <3>1
      <4>3. Bytes(q, c, 1 .. k - 1) = y
        BY <2>8, <4>1, <4>2, BytesOf
      <4>4. \A j \in Slots' : q'[j].from # c
        BY <1>2, <1>10, <3>1, <3>4
      <4>5. Bytes(q', c, Slots') = 0
        BY <4>4, BytesNone
      <4>6. c # d
        BY <1>2, <1>4, <3>1, <3>4
      <4>7. rx_buf'[c] = rx_buf[c]
        BY <1>8, <4>6
      <4> HIDE DEF y
      <4>8. (x + y) - y = x + 0
        BY <3>3
      <4> QED
        BY <2>2, <2>3, <3>2, <4>3, <4>5, <4>7, <4>8, Zenon
    <3>5. CASE i = k
      <4>1. c = d
        BY <1>4, <2>8, <3>5
      <4>2. \A j \in 1 .. k - 1 : q[j].from # c
        BY <1>2, <2>5, <3>1, <3>5
      <4>3. Bytes(q, c, 1 .. k - 1) = 0
        BY <4>2, BytesNone
      <4>4. \A j \in Slots' : q'[j].from # c
        BY <1>2, <1>10, <3>1, <3>5
      <4>5. Bytes(q', c, Slots') = 0
        BY <4>4, BytesNone
      <4>6. x = 0 /\ Len(rx_buf'[c]) = y
        BY <1>5, <1>8, <3>5, <4>1, EmptySeq
      <4> HIDE DEF x, y
      <4>7. (0 + y) - 0 = y + 0
        BY <3>3
      <4>8. pbufs[c] = 0 + y
        BY <2>2, <3>2, <4>6, Zenon DEF x
      <4> QED
        BY <2>3, <4>3, <4>5, <4>6, <4>7, <4>8, Zenon
    <3>6. CASE i > k
      <4> DEFINE h == i - k
      <4>1. h \in Slots' /\ k + h = i
        BY <1>2, <1>9, <3>6
      <4>2. q'[h] = q[i]
        BY <1>10, <4>1
      <4>3. \A j \in Slots' : q'[j].from = c => j = h
        <5> TAKE j \in Slots'
        <5> HAVE q'[j].from = c
        <5>1. k + j = i
          BY <1>10, <3>1
        <5> QED
          BY <1>2, <1>9, <5>1
      <4>4. Bytes(q', c, Slots') = y
        <5>1. {j \in Slots' : q'[j].from = c} = {h}
          BY <2>8, <4>1, <4>2, <4>3
        <5>2. (CHOOSE j \in {h} : TRUE) = h
          OBVIOUS
        <5> HIDE DEF h
        <5> QED
          BY <4>2, <5>1, <5>2 DEF Bytes
      <4>5. \A j \in 1 .. k - 1 : q[j].from # c
        BY <1>2, <2>5, <3>1, <3>6
      <4>6. Bytes(q, c, 1 .. k - 1) = 0
        BY <4>5, BytesNone
      <4>7. c # d
        BY <1>2, <1>4, <3>1, <3>6
      <4>8. rx_buf'[c] = rx_buf[c]
        BY <1>8, <4>7
      <4> HIDE DEF y
      <4>9. (x + y) - 0 = x + y
        BY <3>3
      <4> QED
        BY <2>2, <2>3, <3>2, <4>4, <4>6, <4>8, <4>9, Zenon
    <3> QED
      BY <1>2, <3>4, <3>5, <3>6
  <2> QED
    BY <2>7, <2>8
<1> QED
  BY <1>11, <1>12, <1>13, <1>14 DEF Owned

LEMMA OwnedStep ==
  ASSUME Held, Intact, Owned, [Next]_vars
  PROVE  Owned'
<1>1. CASE Main
  <2>1. CASE Listen \/ LoopWoken \/ Check \/ Woken \/ WaitOver
    BY <2>1, OwnedQuiet DEF Listen, LoopWoken, Check, Woken, WaitOver,
       queueVars, pcbVars, objectVars
  <2>2. CASE AcceptNone
    BY <2>2, OwnedNoQueue DEF AcceptNone, pcbVars, objectVars
  <2>3. CASE DestroyListener
    BY <2>3, OwnedNoQueue DEF DestroyListener, objectVars
  <2>4. CASE Accept \/ ReadLocked
    BY <2>4, OwnedAccept, OwnedReadLocked
  <2>5. CASE DestroyBase
    <3>1. user \in Conn /\ object[user] = "dying"
      BY <2>5 DEF DestroyBase, Held, Match
    <3>2. \A c \in Conn : object'[c] = "none" => object[c] = "none"
      BY <2>5, <3>1 DEF DestroyBase, Held, WeakTypes
    <3>3. \A c \in Conn : link'[c] = "new" => link[c] = "new"
      BY <2>5 DEF DestroyBase, BaseAborts, Detach, pcbVars
    <3> QED
      BY <2>5, <3>2, <3>3, OwnedQuiet DEF DestroyBase, queueVars
  <2>6. CASE \E c \in Conn : Call(c)
    <3>1. PICK d \in Conn : Call(d)
      BY <2>6
    <3>2. CASE Close(d)
      <4>1. \A c \in Conn : link'[c] = "new" => link[c] = "new"
        BY <3>2 DEF Close, Detach
      <4> QED
        BY <3>2, <4>1, OwnedQuiet DEF Close, queueVars
    <3>3. CASE DestroyDerived(d)
      BY <3>3, OwnedDestroyDerived
    <3>4. CASE \/ \E len \in 1 .. Window : Read(d, len)
               \/ \E len \in 1 .. Tx[d] : Write(d, len)
      BY <3>4, OwnedQuiet DEF Read, Write, queueVars, pcbVars, objectVars
    <3> QED
      BY <3>1, <3>2, <3>3, <3>4 DEF Call
  <2> QED
    BY <1>1, <2>1, <2>2, <2>3, <2>4, <2>5, <2>6 DEF Main
<1>2. CASE \E c \in Conn : Callback(c)
  <2>1. PICK d \in Conn : Callback(d)
    BY <1>2
  <2>2. CASE AcceptFn(d) \/ QueuedFin(d) \/ QueuedErr(d)
    BY <2>2, OwnedAcceptFn, OwnedQueuedEnd
  <2>3. CASE Fin(d)
    BY <2>3, OwnedQuiet DEF Fin, queueVars, pcbVars
  <2>4. CASE ErrFn(d)
    <3>1. \A c \in Conn : link'[c] = "new" => link[c] = "new"
      BY <2>4 DEF ErrFn, Detach
    <3> QED
      BY <2>4, <3>1, OwnedQuiet DEF ErrFn, queueVars
  <2>5. CASE \E n \in 1 .. Window : QueuedRecv(d, n) \/ RecvFn(d, n)
    BY <2>5, OwnedQueuedRecv, OwnedRecvFn
  <2> QED
    BY <2>1, <2>2, <2>3, <2>4, <2>5 DEF Callback
<1>3. CASE UNCHANGED vars
  BY <1>3, OwnedQuiet DEF vars, queueVars, pcbVars, objectVars
<1> QED
  BY <1>1, <1>2, <1>3 DEF Next

(* The pbufs that the program owns of a connection are those of its slot   *)
(* or its socket's buffer: accept(), the destructors, read() and a reset   *)
(* of a queued pcb lose none and free none twice.                          *)
THEOREM PbufsCorrect == Spec => []PbufsAccounted
<1>1. Init => Owned
  BY OwnedInit
<1>2. Held /\ Intact /\ Owned /\ [Next]_vars => Owned'
  BY OwnedStep
<1>3. Owned => PbufsAccounted
  BY DEF Owned
<1> QED
  BY <1>1, <1>2, <1>3, AlwaysHeld, AlwaysIntact, PTL DEF Spec
==============================================================================
