---------------------------- MODULE MeshOta_proofs ----------------------------
(***************************************************************************)
(* Proofs about MeshOta, for every value of its constants.                 *)
(***************************************************************************)
EXTENDS MeshOta, SequenceTheorems, TLAPS

------------------------------------------------------------------------------
(* Facts about the helpers.                                                *)

LEMMA FunctionIsSeq ==
  ASSUME NEW S, NEW n \in Nat, NEW f \in [1 .. n -> S]
  PROVE  f \in Seq(S) /\ Len(f) = n
<1>1. f \in Seq(S)
  BY SeqDef
<1>2. 1 .. Len(f) = 1 .. n
  BY <1>1, LenProperties
<1> QED
  BY <1>1, <1>2, LenProperties

LEMMA ConcatPrefix ==
  ASSUME NEW S, NEW s \in Seq(S), NEW t \in Seq(S)
  PROVE  SubSeq(s \o t, 1, Len(s)) = s
<1>1. CASE s = <<>>
  BY <1>1, SubSeqEmpty, EmptySeq
<1>2. CASE s # <<>>
  <2>1. 1 \in 1 .. Len(s) /\ Len(s) \in 1 .. Len(s)
    BY <1>2, EmptySeq
  <2> QED
    BY <2>1, SubSeqOfConcat1, SubSeqFull
<1> QED
  BY <1>1, <1>2

(* The bytes of a datagram, stripped of their sender, and back.            *)
LEMMA ValuesType ==
  ASSUME NEW s \in Seq(Byte)
  PROVE  Values(s) \in Seq(Value) /\ Len(Values(s)) = Len(s)
<1>0. Len(s) \in Nat /\ \A i \in 1 .. Len(s) : s[i] \in Byte
  BY ElementOfSeq, LenProperties
<1>1. Len(s) \in Nat /\ \A i \in 1 .. Len(s) : s[i].v \in Value
  BY <1>0 DEF Byte
<1>2. Values(s) \in [1 .. Len(s) -> Value]
  BY <1>1 DEF Values
<1> QED
  BY <1>1, <1>2, FunctionIsSeq

LEMMA BytesType ==
  ASSUME NEW from \in Node, NEW data \in Seq(Value)
  PROVE  Bytes(from, data) \in Seq(Byte) /\ Len(Bytes(from, data)) = Len(data)
<1>1. Len(data) \in Nat /\ \A i \in 1 .. Len(data) : data[i] \in Value
  BY ElementOfSeq, LenProperties
<1>2. Bytes(from, data) \in [1 .. Len(data) -> Byte]
  BY <1>1 DEF Bytes, Byte
<1> QED
  BY <1>1, <1>2, FunctionIsSeq

(* What rx_read_ takes and what it leaves make up the buffer.              *)
LEMMA RxSplit ==
  ASSUME rx \in Seq(Byte), NEW n \in Nat
  PROVE  /\ RxTake(n) \in Seq(Byte) /\ RxRest(n) \in Seq(Byte)
         /\ Len(RxTake(n)) = Lesser(n, Len(rx))
         /\ Len(RxRest(n)) = Len(rx) - Lesser(n, Len(rx))
         /\ RxTake(n) \o RxRest(n) = rx
<1> DEFINE k == Lesser(n, Len(rx))
<1>1. k \in 0 .. Len(rx)
  BY LenProperties DEF Lesser
<1>2. /\ SubSeq(rx, 1, k) \in Seq(Byte) /\ Len(SubSeq(rx, 1, k)) = k
      /\ SubSeq(rx, k + 1, Len(rx)) \in Seq(Byte)
      /\ Len(SubSeq(rx, k + 1, Len(rx))) = Len(rx) - k
  <2>1. \A i \in 1 .. k : rx[i] \in Byte
    BY <1>1, ElementOfSeq
  <2>2. \A i \in k + 1 .. Len(rx) : rx[i] \in Byte
    BY <1>1, ElementOfSeq
  <2> QED
    BY <1>1, <2>1, <2>2, SubSeqProperties, LenProperties
<1>3. SubSeq(rx, 1, k) \o SubSeq(rx, k + 1, Len(rx)) = SubSeq(rx, 1, Len(rx))
  <2> Len(rx) \in Nat
    BY LenProperties
  <2> /\ 1 \in 1 .. Len(rx) + 1
      /\ k \in 1 - 1 .. Len(rx)
      /\ Len(rx) \in k .. Len(rx)
    BY <1>1
  <2> HIDE DEF k
  <2> QED
    BY ConcatAdjacentSubSeq
<1>4. SubSeq(rx, 1, Len(rx)) = rx
  BY SubSeqFull
<1> QED
  BY <1>2, <1>3, <1>4 DEF RxTake, RxRest

------------------------------------------------------------------------------
(* Type correctness.                                                       *)

USE DEF SizeLen

LEMMA StatusType ==
  /\ DOMAIN Status \subseteq OTAState
  /\ \A s \in DOMAIN Status :
       Status[s].code \in Response /\ Status[s].next \in OTAState
BY DEF Status, Response, OTAState, OTAData

(* Whatever is sent, sent or not, is a sequence of replies.                *)
LEMMA SendType ==
  ASSUME TypeOK, NEW code \in Response, NEW n \in Nonce \cup {NoNonce},
         SendNonce(code, n) \/ SendFails
  PROVE  tx' \in Seq(Reply)
<1>1. CASE SendFails
  BY <1>1 DEF SendFails
<1>2. CASE SendNonce(code, n)
  <2>1. [to |-> peer, code |-> code, nonce |-> n] \in Reply
    BY DEF TypeOK, Reply
  <2> QED
    BY <1>2, <2>1 DEF SendNonce
<1> QED
  BY <1>1, <1>2

LEMMA ClearSessionType ==
  ASSUME TypeOK, ClearSession
  PROVE  /\ has_peer' \in BOOLEAN
         /\ peer' \in Node \cup {NoNode}
         /\ rx' \in Seq(Byte) /\ Len(rx') <= RxRingMax
         /\ ota_state' \in OTAState
         /\ hs_buf' \in Seq(Byte) /\ Len(hs_buf') < Len(Magic)
         /\ ota_features' \in Nat
         /\ auth_nonce' \in Nonce \cup {NoNonce}
         /\ auth_in' \in Seq(Byte) /\ Len(auth_in') < AuthLen
         /\ proved' \in BOOLEAN /\ backend' \in BOOLEAN
         /\ update_started' \in BOOLEAN
         /\ ota_size' \in Nat /\ firmware_total' \in Nat
         /\ size_acknowledged' \in Nat
<1>1. Len(Magic) > 0
  BY WireAssumption, EmptySeq, LenProperties
<1>2. <<>> \in Seq(Byte) /\ Len(<<>>) = 0
  BY EmptySeq
<1>3. AuthLen > 0 /\ RxRingMax >= 0
  BY WireAssumption, LimitAssumption
<1> QED
  BY <1>1, <1>2, <1>3
     DEF TypeOK, ClearSession, Transition, CleanupAuth, OTAState, OTAHandshake

LEMMA TearDownType ==
  ASSUME TypeOK, NEW code \in Response, SendErrorAndCleanup(code),
         UNCHANGED <<dev, boot>>, Return \/ UNCHANGED <<pc, data_buf>>
  PROVE  TypeOK'
<1>1. tx' \in Seq(Reply)
  BY SendType DEF SendErrorAndCleanup, Send
<1>2. ClearSession /\ elapsed' = uptime /\ uptime' = uptime
  BY DEF SendErrorAndCleanup, Cleanup
<1>3. <<>> \in Seq(Value) /\ <<>> \in Seq(Byte)
  BY EmptySeq
<1>4. slot' \in {"closed", "open", "valid"} /\ md5' \in Seq(Value) /\ flash' \in Seq(Value)
  BY <1>3 DEF SendErrorAndCleanup, CloseSlot, TypeOK, slotVars
<1>5. /\ pc' \in {"main", "step", "size", "md5", "chunks"}
      /\ data_buf' \in Seq(Byte)
      /\ \/ data_buf' = <<>>
         \/ pc' = "size" /\ Len(data_buf') < SizeLen
         \/ pc' = "md5" /\ Len(data_buf') < Md5Len
  BY <1>3 DEF Return, TypeOK
<1> QED
  BY <1>1, <1>2, <1>4, <1>5, ClearSessionType DEF TypeOK

LEMMA InitType == Init => TypeOK
<1>1. <<>> \in Seq(Byte) /\ <<>> \in Seq(Value) /\ <<>> \in Seq(Reply) /\ Len(<<>>) = 0
  BY EmptySeq
<1>2. 0 < Len(Magic) /\ 0 < AuthLen /\ 0 <= RxRingMax /\ 0 \in 0 .. TimeCap
  <2>1. 0 < Len(Magic)
    BY WireAssumption, EmptySeq
  <2> QED
    BY <2>1, WireAssumption, LimitAssumption, TimeAssumption DEF TimeCap
<1> SUFFICES ASSUME Init PROVE TypeOK
  OBVIOUS
<1>3. ota_state \in OTAState
  BY DEF Init, OTAState, OTAHandshake
<1>4. /\ elapsed \in 0 .. TimeCap /\ uptime \in 0 .. TimeCap
      /\ Len(rx) <= RxRingMax /\ Len(hs_buf) < Len(Magic) /\ Len(auth_in) < AuthLen
  BY <1>1, <1>2 DEF Init
<1> QED
  BY <1>1, <1>3, <1>4 DEF Init, TypeOK

LEMMA OutsideType ==
  ASSUME TypeOK, Setup \/ OnShutdown \/ Reset \/ Tick
  PROVE  TypeOK'
<1>1. <<>> \in Seq(Byte) /\ <<>> \in Seq(Value) /\ <<>> \in Seq(Reply)
  BY EmptySeq
<1>2. DataTimeout \in Nat
  BY TimeAssumption
<1> USE DEF Silent, sessionVars, peerVars, shakeVars, authVars, updateVars,
            backendVars, slotVars, countVars, timeVars
<1>3. CASE Setup
  BY <1>1, <1>3 DEF Setup, TypeOK
<1>4. CASE OnShutdown
  BY <1>1, <1>4 DEF OnShutdown, TypeOK
<1>5. CASE Reset
  <2>1. ClearSession
    BY <1>5 DEF Reset
  <2> QED
    BY <1>1, <1>2, <1>5, <2>1, ClearSessionType
       DEF Reset, TypeOK, Return, CloseSlot, TimeCap
<1>6. CASE Tick
  BY <1>1, <1>2, <1>6 DEF Tick, TypeOK, TimeCap, Lesser
<1> QED
  BY <1>3, <1>4, <1>5, <1>6

LEMMA FrameType ==
  ASSUME TypeOK, NEW from \in Node, NEW data \in Datagram,
         HandleFrame(from, data)
  PROVE  TypeOK'
<1> USE DEF Silent, sessionVars, peerVars, shakeVars, authVars, updateVars,
            backendVars, slotVars, countVars, timeVars
<1>1. <<>> \in Seq(Reply)
  BY EmptySeq
<1>2. CASE has_peer /\ from # peer /\ UNCHANGED <<sessionVars, timeVars>> /\ Silent
  BY <1>1, <1>2 DEF HandleFrame, TypeOK
<1>3. CASE SendErrorAndCleanup("ERROR_UNKNOWN")
  BY <1>3, TearDownType DEF HandleFrame, Response, ResponseError
<1>4. CASE /\ ~RxOverflow(Len(data)) /\ peer' = from
           /\ has_peer' = FrameOpensSession
           /\ rx' = rx \o Bytes(from, data)
           /\ Silent
           /\ UNCHANGED <<ota_state, shakeVars, authVars, updateVars, timeVars>>
  <2>1. data \in Seq(Value) /\ Len(data) \in Nat
    BY WireAssumption, LenProperties
  <2>2. rx' \in Seq(Byte) /\ Len(rx') = Len(rx) + Len(data)
    <3> DEFINE b == Bytes(from, data)
    <3>1. b \in Seq(Byte) /\ Len(b) = Len(data)
      BY <2>1, BytesType
    <3>2. rx \in Seq(Byte)
      BY DEF TypeOK
    <3>3. rx' = rx \o b
      BY <1>4
    <3> HIDE DEF b
    <3>4. rx \o b \in Seq(Byte) /\ Len(rx \o b) = Len(rx) + Len(b)
      BY <3>1, <3>2, ConcatProperties
    <3> QED
      BY <3>1, <3>3, <3>4
  <2>3. Len(rx') <= RxRingMax
    BY <1>4, <2>1, <2>2, LimitAssumption, LenProperties DEF RxOverflow, TypeOK
  <2> QED
    BY <1>1, <1>4, <2>2, <2>3 DEF HandleFrame, TypeOK, FrameOpensSession
<1> QED
  BY <1>2, <1>3, <1>4 DEF HandleFrame

(* A field being read never grows past its length, and what is left of the *)
(* receive buffer still fits in it.                                        *)
LEMMA ReadMore ==
  ASSUME TypeOK, NEW buf \in Seq(Byte), NEW len \in Nat, Len(buf) <= len
  PROVE  /\ buf \o RxTake(len - Len(buf)) \in Seq(Byte)
         /\ Len(buf \o RxTake(len - Len(buf))) <= len
         /\ Len(buf) + Len(rx) >= len =>
              Len(buf \o RxTake(len - Len(buf))) = len
         /\ RxRest(len - Len(buf)) \in Seq(Byte)
         /\ Len(RxRest(len - Len(buf))) <= RxRingMax
<1>1. rx \in Seq(Byte) /\ Len(rx) \in Nat /\ Len(rx) <= RxRingMax /\ Len(buf) \in Nat
  BY LenProperties DEF TypeOK
<1>2. len - Len(buf) \in Nat
  BY <1>1
<1>3. /\ RxTake(len - Len(buf)) \in Seq(Byte) /\ RxRest(len - Len(buf)) \in Seq(Byte)
      /\ Len(RxTake(len - Len(buf))) = Lesser(len - Len(buf), Len(rx))
      /\ Len(RxRest(len - Len(buf))) = Len(rx) - Lesser(len - Len(buf), Len(rx))
  BY <1>1, <1>2, RxSplit
<1>4. /\ buf \o RxTake(len - Len(buf)) \in Seq(Byte)
      /\ Len(buf \o RxTake(len - Len(buf))) = Len(buf) + Lesser(len - Len(buf), Len(rx))
  BY <1>3, ConcatProperties
<1>5. /\ Lesser(len - Len(buf), Len(rx)) \in Nat
      /\ Len(buf) + Lesser(len - Len(buf), Len(rx)) <= len
      /\ Len(buf) + Len(rx) >= len =>
           Len(buf) + Lesser(len - Len(buf), Len(rx)) = len
  BY <1>1, <1>2 DEF Lesser
<1>6. Len(rx) - Lesser(len - Len(buf), Len(rx)) <= RxRingMax
  BY <1>1, <1>5, LimitAssumption
<1> QED
  BY <1>3, <1>4, <1>5, <1>6

LEMMA LoopType ==
  ASSUME TypeOK, StartSession \/ LoopHandshake \/ LoopData
  PROVE  TypeOK'
<1> USE DEF Silent, sessionVars, peerVars, shakeVars, authVars, updateVars,
            backendVars, slotVars, countVars, timeVars
<1>1. /\ <<>> \in Seq(Byte) /\ <<>> \in Seq(Reply)
      /\ Len(<<>>) < Len(Magic) /\ 0 \in 0 .. TimeCap
  BY EmptySeq, WireAssumption, TimeAssumption DEF TimeCap
<1>2. CASE StartSession
  BY <1>1, <1>2
     DEF StartSession, AtLoop, TypeOK, Transition, OTAState, OTAHandshake
<1>3. CASE LoopHandshake
  <2>1. CASE Cleanup /\ UNCHANGED <<pc, slotVars>>
    <3>1. ClearSession /\ elapsed' = uptime /\ uptime' = uptime
      BY <2>1 DEF Cleanup
    <3> QED
      BY <1>1, <1>3, <2>1, <3>1, ClearSessionType DEF LoopHandshake, TypeOK
  <2>2. CASE pc' = "step" /\ UNCHANGED <<sessionVars, timeVars>>
    BY <1>1, <1>3, <2>2 DEF LoopHandshake, AtLoop, TypeOK
  <2> QED
    BY <1>3, <2>1, <2>2 DEF LoopHandshake
<1>4. CASE LoopData
  <2>1. CASE SendErrorAndCleanup("ERROR_UNKNOWN") /\ UNCHANGED pc
    BY <1>4, <2>1, TearDownType DEF LoopData, Response, ResponseError
  <2>2. CASE pc' = "step" /\ Silent /\ UNCHANGED <<sessionVars, timeVars>>
    BY <1>1, <1>4, <2>2 DEF LoopData, AtLoop, TypeOK
  <2> QED
    BY <1>4, <2>1, <2>2 DEF LoopData
<1> QED
  BY <1>2, <1>3, <1>4

(* A handler that sends a status and moves on, or keeps its state.         *)
LEMMA SendThenType ==
  ASSUME TypeOK, NEW code \in Response, NEW next \in OTAState,
         NEW control \in {"main", "step"}, SendThen(code, next, control)
  PROVE  /\ tx' \in Seq(Reply)
         /\ ota_state' \in OTAState
         /\ hs_buf' \in Seq(Byte) /\ Len(hs_buf') < Len(Magic)
         /\ pc' \in {"main", "step"}
<1>1. tx' \in Seq(Reply)
  BY SendType DEF SendThen, Send
<1>2. <<>> \in Seq(Byte) /\ Len(<<>>) < Len(Magic)
  BY EmptySeq, WireAssumption
<1> QED
  BY <1>1, <1>2 DEF SendThen, Transition, TypeOK

LEMMA FailType ==
  ASSUME TypeOK, NEW code \in Response, Fail(code)
  PROVE  TypeOK'
BY TearDownType DEF Fail

LEMMA HandshakeType ==
  ASSUME TypeOK, HandshakeStep
  PROVE  TypeOK'
<1> USE DEF Silent, peerVars, shakeVars, authVars, updateVars,
            backendVars, slotVars, countVars, timeVars
<1>1. /\ <<>> \in Seq(Byte) /\ <<>> \in Seq(Reply) /\ Len(<<>>) = 0
      /\ 0 < Len(Magic) /\ 0 < AuthLen /\ 0 \in 0 .. TimeCap
      /\ Len(Magic) \in Nat
  BY EmptySeq, LenProperties, WireAssumption, TimeAssumption DEF TimeCap
<1>2. ResponseError \subseteq Response /\ Value \subseteq Nat
  BY WireAssumption DEF Response
<1>3. CASE MagicRead
  <2> DEFINE got == hs_buf \o RxTake(Len(Magic) - Len(hs_buf))
  <2>1. /\ got \in Seq(Byte) /\ Len(got) <= Len(Magic)
        /\ RxRest(Len(Magic) - Len(hs_buf)) \in Seq(Byte)
        /\ Len(RxRest(Len(Magic) - Len(hs_buf))) <= RxRingMax
    BY <1>1, ReadMore, LenProperties DEF TypeOK
  <2>2. CASE Fail("ERROR_MAGIC")
    BY <1>2, <2>2, FailType DEF ResponseError
  <2>3. CASE ~Fail("ERROR_MAGIC")
    <3> HIDE DEF got
    <3>1. hs_buf' \in Seq(Byte) /\ Len(hs_buf') < Len(Magic) /\ ota_state' \in OTAState
      BY <1>1, <1>3, <2>1, <2>3
         DEF MagicRead, got, TypeOK, Transition, OTAState, OTAHandshake
    <3>2. pc' \in {"main", "step"} /\ data_buf' = <<>>
      BY <1>3, <2>3 DEF MagicRead, At, Return, TypeOK
    <3>3. /\ rx' = RxRest(Len(Magic) - Len(hs_buf)) /\ tx' = <<>>
          /\ UNCHANGED <<dev, peerVars, ota_features, authVars, updateVars,
                         timeVars, boot>>
      BY <1>3, <2>3 DEF MagicRead
    <3> QED
      BY <1>1, <2>1, <3>1, <3>2, <3>3 DEF TypeOK
  <2> QED
    BY <2>2, <2>3
<1>4. CASE MagicAck
  <2>1. SendThen("OK", "FEATURE_READ", "step")
    BY <1>4 DEF MagicAck
  <2>2. "OK" \in Response /\ "FEATURE_READ" \in OTAState
    BY DEF Response, OTAState, OTAHandshake
  <2>3. /\ tx' \in Seq(Reply) /\ ota_state' \in OTAState /\ pc' \in {"main", "step"}
        /\ hs_buf' \in Seq(Byte) /\ Len(hs_buf') < Len(Magic)
    BY <2>1, <2>2, SendThenType
  <2> QED
    BY <1>4, <2>3 DEF MagicAck, At, TypeOK
<1>5. CASE FeatureRead
  <2>1. rx # <<>> => /\ Head(rx) \in Byte /\ Tail(rx) \in Seq(Byte)
                     /\ Len(Tail(rx)) <= RxRingMax
    BY HeadTailProperties, LenProperties, LimitAssumption DEF TypeOK
  <2>2. rx # <<>> => Head(rx).v \in Nat
    BY <1>2, <2>1 DEF Byte
  <2> QED
    BY <1>1, <1>5, <2>1, <2>2
       DEF FeatureRead, At, TypeOK, Transition, OTAState, OTAHandshake
<1>6. CASE FeatureAck
  <2>1. PICK code \in Response : SendThen(code, AfterFeatures, "main")
    BY <1>6 DEF FeatureAck, Response
  <2>2. AfterFeatures \in OTAState
    BY DEF AfterFeatures, OTAState, OTAHandshake, OTAData
  <2>3. /\ tx' \in Seq(Reply) /\ ota_state' \in OTAState /\ pc' \in {"main", "step"}
        /\ hs_buf' \in Seq(Byte) /\ Len(hs_buf') < Len(Magic)
    BY <2>1, <2>2, SendThenType
  <2> QED
    BY <1>1, <1>6, <2>3 DEF FeatureAck, At, TypeOK
<1>7. CASE AuthSend
  <2>1. CASE \E code \in ResponseError : Fail(code)
    BY <1>2, <2>1, FailType
  <2>2. CASE /\ auth_nonce' \in IF auth_nonce = NoNonce THEN Nonce ELSE {auth_nonce}
             /\ \/ /\ SendNonce("REQUEST_SHA256_AUTH", auth_nonce')
                   /\ Transition("AUTH_READ")
                   /\ UNCHANGED pc
                \/ /\ SendFails
                   /\ pc' = "main"
                   /\ UNCHANGED <<ota_state, hs_buf>>
             /\ UNCHANGED <<dev, peerVars, rx, ota_features, auth_in, proved,
                            updateVars, data_buf, timeVars, boot>>
    <3>1. auth_nonce' \in Nonce \cup {NoNonce}
      BY <2>2 DEF TypeOK
    <3>2. tx' \in Seq(Reply)
      BY <2>2, <3>1, SendType DEF Response
    <3>3. /\ ota_state' \in OTAState /\ pc' \in {"main", "step"}
          /\ hs_buf' \in Seq(Byte) /\ Len(hs_buf') < Len(Magic)
          /\ data_buf = <<>>
      BY <1>1, <1>7, <2>2
         DEF AuthSend, At, TypeOK, Transition, OTAState, OTAHandshake
    <3> QED
      BY <2>2, <3>1, <3>2, <3>3 DEF TypeOK
  <2> QED
    BY <1>7, <2>1, <2>2 DEF AuthSend, ResponseError
<1>8. CASE AuthRead
  <2> DEFINE got == auth_in \o RxTake(AuthLen - Len(auth_in))
  <2>1. /\ got \in Seq(Byte) /\ Len(got) <= AuthLen
        /\ RxRest(AuthLen - Len(auth_in)) \in Seq(Byte)
        /\ Len(RxRest(AuthLen - Len(auth_in))) <= RxRingMax
    BY ReadMore, LenProperties, WireAssumption DEF TypeOK
  <2>2. CASE Fail("ERROR_AUTH_INVALID")
    BY <1>2, <2>2, FailType DEF ResponseError
  <2>3. CASE ~Fail("ERROR_AUTH_INVALID")
    <3> HIDE DEF got
    <3>1. /\ rx' = RxRest(AuthLen - Len(auth_in)) /\ Return /\ tx' = <<>>
          /\ UNCHANGED <<dev, peerVars, ota_features, updateVars, uptime, boot>>
      BY <1>8, <2>3 DEF AuthRead
    <3>2. /\ hs_buf' \in Seq(Byte) /\ Len(hs_buf') < Len(Magic)
          /\ ota_state' \in OTAState /\ elapsed' \in 0 .. TimeCap
          /\ auth_in' \in Seq(Byte) /\ Len(auth_in') < AuthLen
          /\ auth_nonce' \in Nonce \cup {NoNonce} /\ proved' \in BOOLEAN
      BY <1>1, <1>8, <2>1, <2>3
         DEF AuthRead, got, TypeOK, Transition, CleanupAuth, OTAState, OTAData
    <3> QED
      BY <1>1, <2>1, <3>1, <3>2 DEF TypeOK, Return
  <2> QED
    BY <2>2, <2>3
<1> QED
  BY <1>3, <1>4, <1>5, <1>6, <1>7, <1>8 DEF HandshakeStep

(* readall_() of a field, in or out of its yield.                          *)
LEMMA ReadallType ==
  ASSUME TypeOK, NEW state \in OTAState, NEW yield \in {"size", "md5"},
         NEW len \in Nat \ {0},
         yield = "size" => len = SizeLen, yield = "md5" => len = Md5Len
  PROVE  /\ ReadallTimesOut(yield) => TypeOK'
         /\ ReadallYields(state, yield, len) => TypeOK'
         /\ Reading(state, yield) =>
              /\ Len(data_buf) < len
              /\ data_buf \o RxTake(len - Len(data_buf)) \in Seq(Byte)
              /\ Len(data_buf) + Len(rx) >= len =>
                   Len(data_buf \o RxTake(len - Len(data_buf))) = len
              /\ RxRest(len - Len(data_buf)) \in Seq(Byte)
              /\ Len(RxRest(len - Len(data_buf))) <= RxRingMax
<1> USE DEF heldVars, peerVars, authVars, updateVars, backendVars, slotVars,
            countVars, timeVars, Silent
<1>1. ReadallTimesOut(yield) => TypeOK'
  BY FailType DEF ReadallTimesOut, Response, ResponseError
<1>2. Reading(state, yield) => Len(data_buf) < len
  BY EmptySeq DEF Reading, At, TypeOK
<1>3. ASSUME Reading(state, yield)
      PROVE  /\ data_buf \o RxTake(len - Len(data_buf)) \in Seq(Byte)
             /\ Len(data_buf) + Len(rx) >= len =>
                  Len(data_buf \o RxTake(len - Len(data_buf))) = len
             /\ RxRest(len - Len(data_buf)) \in Seq(Byte)
             /\ Len(RxRest(len - Len(data_buf))) <= RxRingMax
  <2>1. Len(data_buf) <= len /\ data_buf \in Seq(Byte)
    BY <1>2, <1>3, LenProperties DEF TypeOK
  <2> QED
    BY <2>1, ReadMore
<1>4. ASSUME ReadallYields(state, yield, len)
      PROVE  TypeOK'
  <2>1. /\ data_buf' \in Seq(Byte) /\ Len(data_buf') < len
        /\ rx' \in Seq(Byte) /\ Len(rx') <= RxRingMax
    BY <1>3, <1>4 DEF ReadallYields
  <2>2. pc' = yield /\ tx' \in Seq(Reply)
    BY <1>4, EmptySeq DEF ReadallYields
  <2> QED
    BY <1>4, <2>1, <2>2 DEF ReadallYields, TypeOK
<1> QED
  BY <1>1, <1>2, <1>3, <1>4

LEMMA FieldType ==
  ASSUME TypeOK, DataSize \/ DataMd5
  PROVE  TypeOK'
<1> USE DEF heldVars, peerVars, authVars, updateVars, backendVars, slotVars,
            countVars, timeVars, Silent
<1>1. /\ <<>> \in Seq(Byte) /\ <<>> \in Seq(Reply) /\ Len(<<>>) < Len(Magic)
  BY EmptySeq, WireAssumption
<1>2. CASE DataSize
  <2>1. "DATA_SIZE" \in OTAState /\ "DATA_BEGIN" \in OTAState
    BY DEF OTAState, OTAData
  <2>2. CASE ReadallTimesOut("size") \/ ReadallYields("DATA_SIZE", "size", SizeLen)
    BY <2>1, <2>2, ReadallType
  <2>3. CASE ReadallTakes("DATA_SIZE", "size", SizeLen)
             /\ ota_size' = SizeOf(data_buf \o RxTake(SizeLen - Len(data_buf)))
             /\ Transition("DATA_BEGIN")
             /\ pc' = "step"
             /\ UNCHANGED <<heldVars, backendVars, slotVars,
                            firmware_total, size_acknowledged>>
    <3> DEFINE got == data_buf \o RxTake(SizeLen - Len(data_buf))
    <3>1. /\ got \in Seq(Byte) /\ Len(got) = SizeLen
          /\ rx' \in Seq(Byte) /\ Len(rx') <= RxRingMax
      BY <2>1, <2>3, ReadallType DEF ReadallTakes
    <3>2. got[1] \in Byte /\ got[2] \in Byte
      <4> HIDE DEF got
      <4> QED
        BY <3>1, ElementOfSeq
    <3>3. SizeOf(got) \in Nat
      <4> HIDE DEF got
      <4>1. got[1].v \in Nat /\ got[2].v \in Nat
        BY <3>2, WireAssumption DEF Byte
      <4>2. got[1].v * Radix \in Nat
        BY <4>1, WireAssumption
      <4> QED
        BY <4>1, <4>2 DEF SizeOf
    <3>4. ota_size' \in Nat /\ hs_buf' = <<>> /\ ota_state' \in OTAState
      BY <2>1, <2>3, <3>3 DEF Transition
    <3> QED
      BY <1>1, <2>3, <3>1, <3>4 DEF ReadallTakes, TypeOK
  <2> QED
    BY <1>2, <2>2, <2>3 DEF DataSize
<1>3. CASE DataMd5
  <2>1. /\ "DATA_MD5" \in OTAState /\ "DATA_MD5_OK" \in OTAState
        /\ Md5Len \in Nat \ {0}
    BY WireAssumption DEF OTAState, OTAData
  <2>2. CASE ReadallTimesOut("md5") \/ ReadallYields("DATA_MD5", "md5", Md5Len)
    BY <2>1, <2>2, ReadallType
  <2>3. CASE /\ ReadallTakes("DATA_MD5", "md5", Md5Len)
             /\ \/ /\ ~backend
                   /\ dev' = "crash"
                   /\ pc' = "main"
                   /\ UNCHANGED <<ota_state, hs_buf, md5>>
                \/ /\ backend
                   /\ md5' = Values(data_buf \o RxTake(Md5Len - Len(data_buf)))
                   /\ Transition("DATA_MD5_OK")
                   /\ pc' = "step"
                   /\ UNCHANGED dev
             /\ UNCHANGED <<peerVars, ota_features, authVars, timeVars, boot,
                            backendVars, slot, flash, countVars>>
    <3>1. /\ data_buf \o RxTake(Md5Len - Len(data_buf)) \in Seq(Byte)
          /\ rx' \in Seq(Byte) /\ Len(rx') <= RxRingMax
          /\ data_buf' = <<>> /\ tx' = <<>>
      BY <2>1, <2>3, ReadallType DEF ReadallTakes
    <3>2. Values(data_buf \o RxTake(Md5Len - Len(data_buf))) \in Seq(Value)
      BY <3>1, ValuesType
    <3>3. /\ md5' \in Seq(Value) /\ ota_state' \in OTAState
          /\ hs_buf' \in Seq(Byte) /\ Len(hs_buf') < Len(Magic)
          /\ pc' \in {"main", "step"} /\ dev' \in {dev, "crash"}
      BY <1>1, <2>1, <2>3, <3>2 DEF Transition, TypeOK
    <3> QED
      BY <1>1, <2>3, <3>1, <3>3 DEF TypeOK
  <2> QED
    BY <1>3, <2>2, <2>3 DEF DataMd5
<1> QED
  BY <1>2, <1>3

LEMMA DataType ==
  ASSUME TypeOK,
         \/ DataStatus \/ DataBegin \/ DataFirmware \/ DataChunkOk
         \/ DataEnd \/ DataFinalAck \/ DataReboot
  PROVE  TypeOK'
<1> USE DEF heldVars, peerVars, authVars, updateVars, backendVars, slotVars,
            countVars, timeVars, Silent
<1>1. /\ <<>> \in Seq(Byte) /\ <<>> \in Seq(Value) /\ <<>> \in Seq(Reply)
      /\ Len(<<>>) = 0 /\ 0 < Len(Magic) /\ Len(<<>>) < Len(Magic)
  BY EmptySeq, WireAssumption
<1>2. \A code \in ResponseError : Fail(code) => TypeOK'
  BY FailType DEF Response
<1>3. {"DATA_PREPARE_OK", "DATA_RECEIVE_OK", "DATA_END_OK", "DATA_REBOOT"}
        \subseteq OTAState
  BY DEF OTAState, OTAData
<1>4. CASE DataStatus
  <2>1. Status[ota_state].code \in Response /\ Status[ota_state].next \in OTAState
    BY <1>4, StatusType DEF DataStatus
  <2>2. PICK control \in {"main", "step"} :
          SendThen(Status[ota_state].code, Status[ota_state].next, control)
    BY <1>4 DEF DataStatus
  <2>3. /\ tx' \in Seq(Reply) /\ ota_state' \in OTAState /\ pc' \in {"main", "step"}
        /\ hs_buf' \in Seq(Byte) /\ Len(hs_buf') < Len(Magic)
    BY <2>1, <2>2, SendThenType
  <2> QED
    BY <1>4, <2>3 DEF DataStatus, At, TypeOK
<1>5. CASE DataBegin
  <2>1. CASE Crash
    BY <1>1, <2>1
       DEF Crash, Return, TypeOK, sessionVars, shakeVars
  <2>2. CASE Fail("ERROR_BACKEND")
    BY <1>2, <2>2 DEF ResponseError
  <2>3. CASE ~Crash /\ ~Fail("ERROR_BACKEND")
    <3>1. /\ slot' = "open" /\ md5' = <<>> /\ flash' = <<>>
          /\ update_started' = TRUE /\ firmware_total' = 0
          /\ size_acknowledged' = 0 /\ tx' = <<>>
          /\ Transition("DATA_PREPARE_OK")
          /\ UNCHANGED <<heldVars, pc, rx, backend, ota_size, data_buf>>
      BY <1>5, <2>3 DEF DataBegin
    <3> QED
      BY <1>1, <1>3, <3>1 DEF TypeOK, Transition
  <2> QED
    BY <2>1, <2>2, <2>3
<1>6. CASE DataFirmware
  <2> DEFINE want == Lesser(ota_size - firmware_total, BufSize)
  <2>0. firmware_total \in Nat /\ ota_size \in Nat
    BY DEF TypeOK
  <2>1. CASE firmware_total >= ota_size
    <3>1. ~(firmware_total < ota_size)
      BY <2>0, <2>1
    <3>2. /\ Transition("DATA_RECEIVE_OK") /\ pc' = "main" /\ tx' = <<>>
          /\ UNCHANGED <<heldVars, rx, updateVars, data_buf>>
      BY <1>6, <3>1 DEF DataFirmware
    <3> QED
      BY <1>1, <1>3, <1>6, <3>2 DEF DataFirmware, At, TypeOK, Transition
  <2>2. CASE firmware_total < ota_size /\ rx = <<>>
    <3>1. ~(firmware_total >= ota_size)
      BY <2>0, <2>2
    <3>2. /\ pc' = "main" /\ tx' = <<>>
          /\ UNCHANGED <<heldVars, rx, ota_state, hs_buf, updateVars, data_buf>>
      BY <1>6, <2>2, <3>1 DEF DataFirmware
    <3> QED
      BY <1>1, <1>6, <3>2 DEF DataFirmware, At, TypeOK
  <2>3. CASE Fail("ERROR_BACKEND")
    BY <1>2, <2>3 DEF ResponseError
  <2>4. CASE firmware_total < ota_size /\ rx # <<>> /\ ~Fail("ERROR_BACKEND")
    <3>1. want \in Nat
      BY <2>4, LimitAssumption DEF TypeOK, Lesser
    <3>2. RxTake(want) \in Seq(Byte) /\ Len(RxTake(want)) \in Nat
      BY <3>1, RxSplit, LenProperties DEF TypeOK
    <3>3. RxRest(want) \in Seq(Byte) /\ Len(RxRest(want)) <= RxRingMax
      <4>1. Len(RxRest(want)) = Len(rx) - Lesser(want, Len(rx)) /\ RxRest(want) \in Seq(Byte)
        BY <3>1, RxSplit DEF TypeOK
      <4>2. Len(rx) \in Nat /\ Len(rx) <= RxRingMax
        BY LenProperties DEF TypeOK
      <4> HIDE DEF want
      <4> QED
        BY <3>1, <4>1, <4>2, LimitAssumption DEF Lesser
    <3>4. flash \o Values(RxTake(want)) \in Seq(Value)
      BY <3>2, ValuesType, ConcatProperties DEF TypeOK
    <3>5. /\ rx' = RxRest(want)
          /\ flash' = flash \o Values(RxTake(want))
          /\ firmware_total' = firmware_total + Len(RxTake(want))
          /\ pc' \in {"chunks", "main"} /\ tx' = <<>>
          /\ UNCHANGED <<heldVars, ota_state, hs_buf, backendVars, slot,
                         md5, ota_size, size_acknowledged, data_buf>>
      <4>1. ~(firmware_total >= ota_size)
        BY <2>0, <2>4
      <4> QED
        BY <1>6, <2>4, <4>1 DEF DataFirmware
    <3>6. data_buf = <<>>
      BY <1>6 DEF DataFirmware, At, TypeOK
    <3> HIDE DEF want
    <3>7. firmware_total' \in Nat
      BY <2>0, <3>2, <3>5
    <3> QED
      BY <1>1, <3>2, <3>3, <3>4, <3>5, <3>6, <3>7 DEF TypeOK
  <2> QED
    BY <2>0, <2>1, <2>2, <2>3, <2>4
<1>7. CASE DataChunkOk
  <2>1. tx' \in Seq(Reply)
    BY <1>1, <1>7, SendType DEF DataChunkOk, Send, Response
  <2>2. size_acknowledged' \in Nat /\ pc' \in {"main", "chunks"} /\ data_buf = <<>>
    BY <1>7, LimitAssumption DEF DataChunkOk, TypeOK
  <2> QED
    BY <1>7, <2>1, <2>2 DEF DataChunkOk, TypeOK
<1>8. CASE DataEnd
  <2>1. CASE Fail("ERROR_BACKEND")
    BY <1>2, <2>1 DEF ResponseError
  <2>2. CASE ~Fail("ERROR_BACKEND")
    BY <1>1, <1>3, <1>8, <2>2 DEF DataEnd, TypeOK, Transition
  <2> QED
    BY <2>1, <2>2
<1>9. CASE DataFinalAck
  <2>1. rx # <<>> => Tail(rx) \in Seq(Byte) /\ Len(Tail(rx)) <= RxRingMax
    BY HeadTailProperties, LenProperties, LimitAssumption DEF TypeOK
  <2> QED
    BY <1>1, <1>3, <1>9, <2>1 DEF DataFinalAck, At, TypeOK, Transition
<1>10. CASE DataReboot
  <2>1. ClearSession /\ elapsed' = uptime /\ uptime' = uptime
    BY <1>10 DEF DataReboot, Cleanup
  <2> QED
    BY <1>1, <1>10, <2>1, ClearSessionType DEF DataReboot, Return, TypeOK
<1> QED
  BY <1>4, <1>5, <1>6, <1>7, <1>8, <1>9, <1>10

LEMMA TypeStep ==
  ASSUME TypeOK, [Next]_vars
  PROVE  TypeOK'
<1>1. CASE Device
  BY <1>1, OutsideType, LoopType, HandshakeType, FieldType, DataType
     DEF Device, DataStep
<1>2. CASE OnShutdown \/ Reset \/ Tick
  BY <1>2, OutsideType
<1>3. CASE \E from \in Node, data \in Datagram : HandleFrame(from, data)
  BY <1>3, FrameType
<1>4. CASE UNCHANGED vars
  BY <1>4
     DEF vars, peerVars, shakeVars, authVars, updateVars, backendVars,
         slotVars, countVars, timeVars, TypeOK
<1> QED
  BY <1>1, <1>2, <1>3, <1>4 DEF Next

(* Every variable keeps its type and no buffer outgrows its array,         *)
(* whatever datagrams the node is sent.                                    *)
THEOREM TypeCorrect == Spec => []TypeOK
BY InitType, TypeStep, PTL DEF Spec

------------------------------------------------------------------------------
(* The safety invariants.                                                  *)

(* Where control can be without a peer: outside loop(), or in a readall_() *)
(* whose session handle_frame_ tore down in the yield - and then, when the *)
(* size did come in, on the way to the null backend_ in DATA_BEGIN.        *)
NoSession ==
  /\ ~backend /\ ~update_started
  /\ hs_buf = <<>> /\ ota_features = 0
  /\ auth_nonce = NoNonce /\ auth_in = <<>> /\ ~proved
  /\ firmware_total = 0 /\ size_acknowledged = 0
  /\ pc # "chunks"
  /\ \/ ota_state = "IDLE" /\ ota_size = 0
     \/ ota_state = "DATA_BEGIN" /\ (pc = "step" \/ dev = "crash")

(* In a session the state says whether there is a backend, an open slot, a *)
(* started update and a proof of the password, and pc says the state.      *)
InSession ==
  /\ ota_state # "IDLE"
  /\ ota_state \in BackendStates => backend
  /\ update_started <=> ota_state \in SlotStates \cup ValidStates
  /\ ota_state \in SlotStates => slot = "open"
  /\ ota_state \in ValidStates => slot = "valid"
  /\ ota_state \in OTAData => (Password => proved)
  /\ pc = "size" => ota_state = "DATA_SIZE"
  /\ pc = "md5" => ota_state = "DATA_MD5"
  /\ pc = "chunks" => ota_state = "DATA_FIRMWARE"

SessionInv ==
  /\ ~has_peer => NoSession
  /\ has_peer => InSession
  /\ slot = "open" => has_peer /\ ota_state \in SlotStates

LEMMA StateSets ==
  /\ SlotStates \subseteq OTAData /\ ValidStates \subseteq OTAData
  /\ SlotStates \cup ValidStates \subseteq BackendStates
  /\ SlotStates \cap ValidStates = {}
  /\ "IDLE" \notin BackendStates
  /\ OTAHandshake \cap OTAData = {}
BY DEF SlotStates, ValidStates, BackendStates, OTAState, OTAHandshake, OTAData

LEMMA TearDownInv ==
  ASSUME SessionInv, NEW code, SendErrorAndCleanup(code), pc' # "chunks"
  PROVE  SessionInv'
<1>1. ClearSession
  BY DEF SendErrorAndCleanup, Cleanup
<1>2. ~has_peer' /\ NoSession'
  BY <1>1 DEF ClearSession, Transition, CleanupAuth, NoSession
<1>3. slot' # "open"
  <2>1. CASE MustAbort
    BY <2>1 DEF SendErrorAndCleanup, CloseSlot
  <2>2. CASE ~MustAbort
    <3>1. slot # "open"
      BY <2>2, StateSets DEF SessionInv, InSession, MustAbort
    <3> QED
      BY <2>2, <3>1 DEF SendErrorAndCleanup, slotVars
  <2> QED
    BY <2>1, <2>2
<1> QED
  BY <1>2, <1>3 DEF SessionInv

LEMMA FailInv ==
  ASSUME SessionInv, NEW code, Fail(code)
  PROVE  SessionInv'
BY TearDownInv DEF Fail, Return

LEMMA OutsideInv ==
  ASSUME TypeOK, SessionInv, Setup \/ OnShutdown \/ Reset \/ Tick
  PROVE  SessionInv'
<1> USE DEF sessionVars, peerVars, shakeVars, authVars, updateVars, backendVars,
            slotVars, countVars
<1>1. CASE Reset
  <2>1. ~has_peer' /\ NoSession' /\ slot' # "open"
    BY <1>1 DEF Reset, ClearSession, CloseSlot, Return, Transition, CleanupAuth,
                NoSession
  <2> QED
    BY <2>1 DEF SessionInv
<1>2. CASE Setup \/ OnShutdown \/ Tick
  <2>1. UNCHANGED <<pc, sessionVars>> /\ (dev = "crash" => dev' = "crash")
    BY <1>2 DEF Setup, OnShutdown, Tick
  <2> QED
    BY <2>1 DEF SessionInv, NoSession, InSession
<1> QED
  BY <1>1, <1>2

LEMMA FrameInv ==
  ASSUME SessionInv, NEW from, NEW data, HandleFrame(from, data)
  PROVE  SessionInv'
<1> USE DEF sessionVars, peerVars, shakeVars, authVars, updateVars, backendVars,
            slotVars, countVars
<1>1. CASE SendErrorAndCleanup("ERROR_UNKNOWN")
  BY <1>1, TearDownInv DEF HandleFrame
<1>2. CASE ~SendErrorAndCleanup("ERROR_UNKNOWN")
  <2>1. UNCHANGED <<dev, pc, ota_state, has_peer, shakeVars, authVars, updateVars>>
    BY <1>2 DEF HandleFrame, FrameOpensSession
  <2> QED
    BY <2>1 DEF SessionInv, NoSession, InSession
<1> QED
  BY <1>1, <1>2

LEMMA LoopInv ==
  ASSUME TypeOK, SessionInv, StartSession \/ LoopHandshake \/ LoopData
  PROVE  SessionInv'
<1> USE DEF sessionVars, peerVars, shakeVars, authVars, updateVars, backendVars,
            slotVars, countVars
<1>1. CASE StartSession
  <2>1. NoSession /\ slot # "open"
    BY <1>1 DEF StartSession, SessionInv, InSession, SlotStates
  <2>2. has_peer' /\ InSession' /\ slot' # "open"
    BY <1>1, <2>1
       DEF StartSession, AtLoop, Transition, NoSession, InSession, BackendStates,
           SlotStates, ValidStates, OTAState, OTAHandshake, OTAData
  <2> QED
    BY <2>2 DEF SessionInv
<1>2. CASE LoopHandshake
  <2>1. CASE Cleanup /\ UNCHANGED <<pc, slotVars>>
    <3>1. slot # "open"
      BY <1>2, StateSets DEF LoopHandshake, SessionInv
    <3>2. ~has_peer' /\ NoSession'
      BY <1>2, <2>1
         DEF LoopHandshake, AtLoop, Cleanup, ClearSession, Transition, CleanupAuth,
             NoSession
    <3> QED
      BY <2>1, <3>1, <3>2 DEF SessionInv
  <2>2. CASE pc' = "step" /\ UNCHANGED <<sessionVars, dev>>
    BY <1>2, <2>2, StateSets
       DEF LoopHandshake, AtLoop, SessionInv, NoSession, InSession
  <2> QED
    BY <1>2, <2>1, <2>2 DEF LoopHandshake
<1>3. CASE LoopData
  <2>1. CASE SendErrorAndCleanup("ERROR_UNKNOWN") /\ UNCHANGED pc
    BY <1>3, <2>1, TearDownInv DEF LoopData, AtLoop
  <2>2. CASE pc' = "step" /\ UNCHANGED <<sessionVars, dev>>
    BY <1>3, <2>2, StateSets
       DEF LoopData, AtLoop, SessionInv, NoSession, InSession
  <2> QED
    BY <1>3, <2>1, <2>2 DEF LoopData
<1> QED
  BY <1>1, <1>2, <1>3

(* A label other than DATA_BEGIN is only executed in a session.            *)
LEMMA AtInSession ==
  ASSUME SessionInv, NEW state, At(state), state # "DATA_BEGIN", state # "IDLE"
  PROVE  has_peer /\ InSession /\ pc = "step"
BY DEF SessionInv, NoSession, At

LEMMA HandshakeInv ==
  ASSUME TypeOK, SessionInv, HandshakeStep
  PROVE  SessionInv'
<1> USE DEF peerVars, shakeVars, authVars, updateVars, backendVars, slotVars,
            countVars, BackendStates, SlotStates, ValidStates, OTAState,
            OTAHandshake, OTAData
<1>1. \A code : Fail(code) => SessionInv'
  BY FailInv
<1>2. CASE MagicRead /\ ~Fail("ERROR_MAGIC")
  BY <1>2, AtInSession DEF MagicRead, Transition, Return, SessionInv, InSession, At
<1>3. CASE MagicAck
  <2>1. has_peer /\ InSession /\ ota_state = "MAGIC_ACK"
    BY <1>3, AtInSession DEF MagicAck, At
  <2>2. /\ \/ ota_state' = ota_state
           \/ ota_state' = "FEATURE_READ" /\ backend'
        /\ pc' \in {"main", "step"}
        /\ UNCHANGED <<peerVars, authVars, update_started, slotVars>>
    BY <1>3 DEF MagicAck, SendThen, Transition
  <2> QED
    BY <2>1, <2>2 DEF SessionInv, InSession
<1>4. CASE FeatureRead
  BY <1>4, AtInSession DEF FeatureRead, Transition, SessionInv, InSession, At
<1>5. CASE FeatureAck
  <2>1. has_peer /\ InSession /\ ota_state = "FEATURE_ACK"
    BY <1>5, AtInSession DEF FeatureAck, At
  <2>2. /\ ota_state' \in {ota_state, AfterFeatures} /\ pc' = "main"
        /\ UNCHANGED <<peerVars, authVars, updateVars>>
    BY <1>5 DEF FeatureAck, SendThen, Transition
  <2> QED
    BY <2>1, <2>2 DEF SessionInv, InSession, AfterFeatures
<1>6. CASE AuthSend /\ \A code : ~Fail(code)
  <2>1. has_peer /\ InSession /\ ota_state = "AUTH_SEND"
    BY <1>6, AtInSession DEF AuthSend, At
  <2>2. /\ ota_state' \in {ota_state, "AUTH_READ"} /\ pc' \in {"main", "step"}
        /\ UNCHANGED <<peerVars, proved, updateVars>>
    BY <1>6 DEF AuthSend, Transition, At
  <2> QED
    BY <2>1, <2>2 DEF SessionInv, InSession
<1>7. CASE AuthRead /\ ~Fail("ERROR_AUTH_INVALID")
  <2>1. has_peer /\ InSession /\ ota_state = "AUTH_READ"
    BY <1>7, AtInSession DEF AuthRead, At
  <2>2. /\ \/ ota_state' = ota_state /\ UNCHANGED proved
           \/ ota_state' = "DATA_AUTH_OK" /\ proved' = TRUE
        /\ pc' = "main"
        /\ UNCHANGED <<peerVars, updateVars>>
    BY <1>7 DEF AuthRead, Transition, Return
  <2> QED
    BY <2>1, <2>2 DEF SessionInv, InSession
<1> QED
  BY <1>1, <1>2, <1>3, <1>4, <1>5, <1>6, <1>7 DEF HandshakeStep

LEMMA FieldInv ==
  ASSUME TypeOK, SessionInv, DataSize \/ DataMd5
  PROVE  SessionInv'
<1> USE DEF heldVars, peerVars, authVars, updateVars, backendVars, slotVars,
            countVars, timeVars
<1>1. ASSUME NEW yield, ReadallTimesOut(yield)
      PROVE  SessionInv'
  BY <1>1, FailInv DEF ReadallTimesOut
<1>2. ASSUME NEW state, NEW yield, NEW len, ReadallYields(state, yield, len),
             <<state, yield>> \in {<<"DATA_SIZE", "size">>, <<"DATA_MD5", "md5">>}
      PROVE  SessionInv'
  <2>1. /\ UNCHANGED <<dev, ota_state, hs_buf, peerVars, ota_features, authVars,
                       updateVars>>
        /\ pc' = yield
    BY <1>2 DEF ReadallYields
  <2>2. has_peer => ota_state = state
    BY <1>2 DEF ReadallYields, Reading, At, SessionInv, InSession
  <2>3. ~has_peer => ota_state = "IDLE"
    BY <1>2 DEF ReadallYields, Reading, At, SessionInv, NoSession
  <2> QED
    BY <1>2, <2>1, <2>2, <2>3 DEF SessionInv, NoSession, InSession
<1>3. CASE /\ ReadallTakes("DATA_SIZE", "size", SizeLen)
           /\ Transition("DATA_BEGIN")
           /\ pc' = "step"
           /\ UNCHANGED <<heldVars, backendVars, slotVars,
                          firmware_total, size_acknowledged>>
  <2>1. CASE has_peer
    <3>1. InSession /\ ota_state = "DATA_SIZE"
      BY <1>3, <2>1 DEF ReadallTakes, Reading, At, SessionInv, InSession
    <3> QED
      BY <1>3, <2>1, <3>1
         DEF Transition, SessionInv, InSession, BackendStates, SlotStates,
             ValidStates, OTAState, OTAHandshake, OTAData
  <2>2. CASE ~has_peer
    BY <1>3, <2>2
       DEF ReadallTakes, Transition, SessionInv, NoSession
  <2> QED
    BY <2>1, <2>2 DEF TypeOK
<1>4. CASE /\ ReadallTakes("DATA_MD5", "md5", Md5Len)
           /\ \/ /\ ~backend
                 /\ dev' = "crash"
                 /\ pc' = "main"
                 /\ UNCHANGED <<ota_state, hs_buf, md5>>
              \/ /\ backend
                 /\ Transition("DATA_MD5_OK")
                 /\ pc' = "step"
                 /\ UNCHANGED dev
           /\ UNCHANGED <<peerVars, ota_features, authVars, timeVars, boot,
                          backendVars, slot, flash, countVars>>
  <2>1. CASE has_peer
    <3>1. InSession /\ ota_state = "DATA_MD5" /\ backend
      BY <1>4, <2>1
         DEF ReadallTakes, Reading, At, SessionInv, InSession, BackendStates,
             OTAState, OTAHandshake, OTAData
    <3> QED
      BY <1>4, <2>1, <3>1
         DEF Transition, SessionInv, InSession, BackendStates, SlotStates,
             ValidStates, OTAState, OTAHandshake, OTAData
  <2>2. CASE ~has_peer
    <3>1. NoSession /\ slot # "open"
      BY <2>2 DEF SessionInv
    <3> QED
      BY <1>4, <2>2, <3>1 DEF SessionInv, NoSession
  <2> QED
    BY <2>1, <2>2 DEF TypeOK
<1> QED
  BY <1>1, <1>2, <1>3, <1>4 DEF DataSize, DataMd5

LEMMA DataInv ==
  ASSUME TypeOK, SessionInv,
         \/ DataStatus \/ DataBegin \/ DataFirmware \/ DataChunkOk
         \/ DataEnd \/ DataFinalAck \/ DataReboot
  PROVE  SessionInv'
<1> USE DEF heldVars, peerVars, authVars, updateVars, backendVars, slotVars,
            countVars, timeVars, BackendStates, SlotStates, ValidStates,
            OTAState, OTAHandshake, OTAData
<1>1. \A code : Fail(code) => SessionInv'
  BY FailInv
<1>2. CASE DataStatus
  <2>1. has_peer /\ InSession /\ ota_state \in DOMAIN Status
    BY <1>2, AtInSession DEF DataStatus, Status
  <2>2. /\ ota_state' \in {ota_state, Status[ota_state].next}
        /\ pc' \in {"main", "step"}
        /\ UNCHANGED <<heldVars, updateVars>>
    BY <1>2 DEF DataStatus, SendThen, Transition
  <2> QED
    BY <2>1, <2>2 DEF SessionInv, InSession, Status
<1>3. CASE DataBegin /\ ~Fail("ERROR_BACKEND")
  <2>1. CASE Crash
    <3>1. ~has_peer /\ NoSession /\ slot # "open"
      BY <1>1, <1>3, <2>1
         DEF DataBegin, At, Crash, SessionInv, InSession, TypeOK
    <3> QED
      BY <2>1, <3>1
         DEF Crash, Return, sessionVars, shakeVars, SessionInv, NoSession
  <2>2. CASE ~Crash
    <3>1. /\ backend /\ ota_state = "DATA_BEGIN" /\ pc = "step"
          /\ slot' = "open" /\ update_started' = TRUE
          /\ Transition("DATA_PREPARE_OK")
          /\ UNCHANGED <<heldVars, pc, backend>>
      BY <1>3, <2>2 DEF DataBegin, At
    <3>2. has_peer /\ InSession
      BY <3>1 DEF SessionInv, NoSession
    <3> QED
      BY <3>1, <3>2 DEF Transition, SessionInv, InSession
  <2> QED
    BY <2>1, <2>2
<1>4. CASE DataFirmware /\ ~Fail("ERROR_BACKEND")
  <2>1. has_peer /\ InSession /\ ota_state = "DATA_FIRMWARE"
    BY <1>4, AtInSession DEF DataFirmware, At
  <2>2. /\ \/ ota_state' = ota_state /\ pc' \in {"main", "chunks"}
           \/ ota_state' = "DATA_RECEIVE_OK" /\ pc' = "main"
        /\ UNCHANGED <<dev, peerVars, authVars, backendVars, slot>>
    BY <1>4 DEF DataFirmware, Transition
  <2> QED
    BY <2>1, <2>2 DEF SessionInv, InSession
<1>5. CASE DataChunkOk
  <2>1. has_peer /\ InSession /\ ota_state = "DATA_FIRMWARE"
    BY <1>5 DEF DataChunkOk, SessionInv, NoSession, InSession
  <2>2. /\ pc' \in {"main", "chunks"}
        /\ UNCHANGED <<dev, ota_state, peerVars, authVars, backendVars, slot>>
    BY <1>5 DEF DataChunkOk
  <2> QED
    BY <2>1, <2>2 DEF SessionInv, InSession
<1>6. CASE DataEnd /\ ~Fail("ERROR_BACKEND")
  <2>1. has_peer /\ InSession /\ ota_state = "DATA_END" /\ pc = "step"
    BY <1>6, AtInSession DEF DataEnd, At
  <2>2. /\ ota_state' = "DATA_END_OK" /\ slot' = "valid"
        /\ UNCHANGED <<dev, pc, peerVars, authVars, backendVars>>
    BY <1>6 DEF DataEnd, Transition
  <2> QED
    BY <2>1, <2>2 DEF SessionInv, InSession
<1>7. CASE DataFinalAck
  <2>1. has_peer /\ InSession /\ ota_state = "DATA_FINAL_ACK" /\ pc = "step"
    BY <1>7, AtInSession DEF DataFinalAck, At
  <2>2. /\ ota_state' \in {ota_state, "DATA_REBOOT"} /\ pc' \in {"main", "step"}
        /\ UNCHANGED <<heldVars, updateVars>>
    BY <1>7, <2>1 DEF DataFinalAck, Transition
  <2> QED
    BY <2>1, <2>2 DEF SessionInv, InSession
<1>8. CASE DataReboot
  <2>1. slot # "open"
    BY <1>8 DEF DataReboot, At, SessionInv
  <2>2. ~has_peer' /\ NoSession' /\ slot' # "open"
    BY <1>8, <2>1
       DEF DataReboot, Cleanup, ClearSession, Transition, CleanupAuth, Return,
           NoSession
  <2> QED
    BY <2>2 DEF SessionInv
<1> QED
  BY <1>1, <1>2, <1>3, <1>4, <1>5, <1>6, <1>7, <1>8

LEMMA SessionInit == Init => SessionInv
BY DEF Init, SessionInv, NoSession

LEMMA SessionStep ==
  ASSUME TypeOK, SessionInv, [Next]_vars
  PROVE  SessionInv'
<1>1. CASE Device
  BY <1>1, OutsideInv, LoopInv, HandshakeInv, FieldInv, DataInv
     DEF Device, DataStep
<1>2. CASE OnShutdown \/ Reset \/ Tick
  BY <1>2, OutsideInv
<1>3. CASE \E from \in Node, data \in Datagram : HandleFrame(from, data)
  BY <1>3, FrameInv
<1>4. CASE UNCHANGED vars
  BY <1>4
     DEF vars, peerVars, shakeVars, authVars, updateVars, backendVars,
         slotVars, countVars, SessionInv, NoSession, InSession
<1> QED
  BY <1>1, <1>2, <1>3, <1>4 DEF Next

(* The invariant the safety properties rest on.                            *)
THEOREM SessionInvariant == Spec => []SessionInv
BY SessionInit, SessionStep, TypeCorrect, PTL DEF Spec

(* With a peer there is always a backend_ to call: a null backend_ is met  *)
(* only by a readall_() whose session was torn down in its own yield.      *)
THEOREM BackendCorrect == Spec => []BackendInSession
<1>1. SessionInv => BackendInSession
  BY DEF SessionInv, InSession, BackendInSession
<1> QED
  BY <1>1, SessionInvariant, PTL

(* No way out of a session - timeout, overflow, refusal, error, reset -    *)
(* leaves the inactive slot open behind it.                                *)
THEOREM SlotCorrect == Spec => []SlotNotLeaked
<1>1. SessionInv => SlotNotLeaked
  BY DEF SessionInv, SlotNotLeaked
<1> QED
  BY <1>1, SessionInvariant, PTL

(* Nothing of one session is left for the next.                            *)
THEOREM IdleCorrect == Spec => []IdleIsClean
<1>1. SessionInv => IdleIsClean
  BY DEF SessionInv, NoSession, IdleIsClean
<1> QED
  BY <1>1, SessionInvariant, PTL

------------------------------------------------------------------------------
(* What a step can do to the update, and to what OtaUpdate sees of it.     *)

UpdateView == <<has_peer, proved, update_started, slot, flash,
                firmware_total, size_acknowledged, boot>>
Received == {"DATA_RECEIVE_OK", "DATA_END"}

Closes ==
  /\ has_peer' = FALSE /\ update_started' = FALSE /\ proved' = FALSE
  /\ UNCHANGED boot

Keeps ==
  /\ UNCHANGED UpdateView
  /\ update_started => UNCHANGED ota_size
  /\ has_peer => (ota_state \in OTAHandshake <=> ota_state' \in OTAHandshake)
  /\ ota_state' \in Received =>
       ota_state \in Received \/ firmware_total >= ota_size

Opens ==
  /\ ~has_peer /\ has_peer' = TRUE /\ ota_state' = "MAGIC_READ"
  /\ UNCHANGED <<proved, update_started, boot>>

Grants ==
  /\ has_peer /\ ota_state \in OTAHandshake
  /\ has_peer' = TRUE /\ ota_state' = "DATA_AUTH_OK"
  /\ proved' \in BOOLEAN /\ (Password => proved')
  /\ UNCHANGED <<update_started, boot>>

Begins ==
  /\ has_peer /\ ota_state = "DATA_BEGIN"
  /\ ota_state' = "DATA_PREPARE_OK"
  /\ update_started' = TRUE /\ slot' = "open" /\ flash' = <<>>
  /\ firmware_total' = 0 /\ size_acknowledged' = 0
  /\ UNCHANGED <<has_peer, proved, ota_size, boot>>

Writes ==
  /\ has_peer /\ ota_state = "DATA_FIRMWARE"
  /\ firmware_total < ota_size
  /\ \E chunk \in Seq(Value) :
       /\ 0 < Len(chunk) /\ Len(chunk) <= ota_size - firmware_total
       /\ flash' = flash \o chunk
       /\ firmware_total' = firmware_total + Len(chunk)
  /\ UNCHANGED <<has_peer, ota_state, proved, update_started, slot, ota_size,
                 size_acknowledged, boot>>

Acknowledges ==
  /\ has_peer /\ ota_state = "DATA_FIRMWARE"
  /\ ChunkDue
  /\ size_acknowledged' = size_acknowledged + BlockSize
  /\ UNCHANGED <<has_peer, ota_state, proved, update_started, slot, flash,
                 firmware_total, ota_size, boot>>

Commits ==
  /\ has_peer /\ ota_state = "DATA_END" /\ ImageAccepted
  /\ ota_state' = "DATA_END_OK" /\ slot' = "valid" /\ boot' = flash
  /\ UNCHANGED <<has_peer, proved, update_started, flash, firmware_total,
                 ota_size, size_acknowledged>>

Effect ==
  \/ Closes \/ Keeps \/ Opens \/ Grants \/ Begins \/ Writes \/ Acknowledges
  \/ Commits

LEMMA TearDownCloses ==
  ASSUME NEW code, SendErrorAndCleanup(code), UNCHANGED boot
  PROVE  Closes
BY DEF SendErrorAndCleanup, Cleanup, ClearSession, Closes

LEMMA FailCloses ==
  ASSUME NEW code, Fail(code)
  PROVE  Closes
BY TearDownCloses DEF Fail

LEMMA OutsideEffect ==
  ASSUME SessionInv,
         \/ Setup \/ OnShutdown \/ Reset \/ Tick
         \/ StartSession \/ LoopHandshake \/ LoopData
         \/ \E from \in Node, data \in Datagram : HandleFrame(from, data)
  PROVE  Effect
<1> USE DEF sessionVars, peerVars, shakeVars, authVars, updateVars, backendVars,
            slotVars, countVars, UpdateView
<1>1. CASE Setup \/ OnShutdown \/ Tick
  <2>1. UNCHANGED <<ota_state, ota_size, UpdateView>>
    BY <1>1 DEF Setup, OnShutdown, Tick
  <2> QED
    BY <2>1 DEF Effect, Keeps
<1>2. CASE Reset
  BY <1>2 DEF Reset, ClearSession, Effect, Closes
<1>3. CASE StartSession
  BY <1>3 DEF StartSession, Transition, SessionInv, InSession, Effect, Opens
<1>4. CASE LoopHandshake
  <2>1. CASE Cleanup
    BY <1>4, <2>1 DEF LoopHandshake, Cleanup, ClearSession, Effect, Closes
  <2>2. CASE UNCHANGED <<sessionVars, boot>>
    BY <2>2 DEF Effect, Keeps
  <2> QED
    BY <1>4, <2>1, <2>2 DEF LoopHandshake
<1>5. CASE LoopData
  <2>1. CASE SendErrorAndCleanup("ERROR_UNKNOWN")
    BY <1>5, <2>1, TearDownCloses DEF LoopData, Effect
  <2>2. CASE UNCHANGED <<sessionVars, boot>>
    BY <2>2 DEF Effect, Keeps
  <2> QED
    BY <1>5, <2>1, <2>2 DEF LoopData
<1>6. ASSUME NEW from \in Node, NEW data \in Datagram, HandleFrame(from, data)
      PROVE  Effect
  <2>1. CASE SendErrorAndCleanup("ERROR_UNKNOWN")
    BY <1>6, <2>1, TearDownCloses DEF HandleFrame, Effect
  <2>2. CASE ~SendErrorAndCleanup("ERROR_UNKNOWN")
    <3>1. UNCHANGED <<ota_state, ota_size, UpdateView>>
      BY <1>6, <2>2 DEF HandleFrame, FrameOpensSession
    <3> QED
      BY <3>1 DEF Effect, Keeps
  <2> QED
    BY <2>1, <2>2
<1> QED
  BY <1>1, <1>2, <1>3, <1>4, <1>5, <1>6

LEMMA HandshakeEffect ==
  ASSUME TypeOK, SessionInv, HandshakeStep
  PROVE  Effect
<1> USE DEF sessionVars, peerVars, shakeVars, authVars, updateVars, backendVars,
            slotVars, countVars, UpdateView, OTAHandshake, Received
<1>1. \A code : Fail(code) => Effect
  BY FailCloses DEF Effect
<1>2. CASE MagicRead /\ ~Fail("ERROR_MAGIC")
  <2>1. /\ ota_state = "MAGIC_READ" /\ ota_state' \in {"MAGIC_READ", "MAGIC_ACK"}
        /\ UNCHANGED <<ota_size, UpdateView>>
    BY <1>2 DEF MagicRead, At, Transition
  <2> QED
    BY <2>1 DEF Effect, Keeps
<1>3. CASE MagicAck
  <2>1. /\ ota_state = "MAGIC_ACK" /\ ota_state' \in {"MAGIC_ACK", "FEATURE_READ"}
        /\ UNCHANGED <<ota_size, UpdateView>>
    BY <1>3 DEF MagicAck, At, SendThen, Transition
  <2> QED
    BY <2>1 DEF Effect, Keeps
<1>4. CASE FeatureRead
  <2>1. /\ ota_state = "FEATURE_READ"
        /\ ota_state' \in {"FEATURE_READ", "FEATURE_ACK"}
        /\ UNCHANGED <<ota_size, UpdateView>>
    BY <1>4 DEF FeatureRead, At, Transition
  <2> QED
    BY <2>1 DEF Effect, Keeps
<1>5. CASE FeatureAck
  <2>1. /\ has_peer /\ ota_state = "FEATURE_ACK"
        /\ ota_state' \in {"FEATURE_ACK", AfterFeatures}
        /\ UNCHANGED <<ota_size, UpdateView>>
    BY <1>5, AtInSession DEF FeatureAck, At, SendThen, Transition
  <2>2. CASE ota_state' = "DATA_AUTH_OK"
    <3>1. ~Password
      BY <2>1, <2>2 DEF AfterFeatures
    <3> QED
      BY <2>1, <2>2, <3>1 DEF Effect, Grants, TypeOK
  <2>3. CASE ota_state' \in OTAHandshake
    BY <2>1, <2>3 DEF Effect, Keeps
  <2> QED
    BY <2>1, <2>2, <2>3 DEF AfterFeatures
<1>6. CASE AuthSend /\ \A code : ~Fail(code)
  <2>1. /\ ota_state = "AUTH_SEND" /\ ota_state' \in {"AUTH_SEND", "AUTH_READ"}
        /\ UNCHANGED <<ota_size, UpdateView>>
    BY <1>6 DEF AuthSend, At, Transition
  <2> QED
    BY <2>1 DEF Effect, Keeps
<1>7. CASE AuthRead /\ ~Fail("ERROR_AUTH_INVALID")
  <2>1. has_peer /\ ota_state = "AUTH_READ"
    BY <1>7, AtInSession DEF AuthRead, At
  <2>2. CASE ota_state' = ota_state /\ UNCHANGED proved
    BY <1>7, <2>1, <2>2 DEF AuthRead, Effect, Keeps
  <2>3. CASE ota_state' = "DATA_AUTH_OK" /\ proved' = TRUE
    BY <1>7, <2>1, <2>3 DEF AuthRead, Effect, Grants
  <2> QED
    BY <1>7, <2>2, <2>3 DEF AuthRead, Transition
<1> QED
  BY <1>1, <1>2, <1>3, <1>4, <1>5, <1>6, <1>7 DEF HandshakeStep

LEMMA DataEffect ==
  ASSUME TypeOK, SessionInv, DataStep
  PROVE  Effect
<1> USE DEF heldVars, sessionVars, peerVars, shakeVars, authVars, updateVars,
            backendVars, slotVars, countVars, timeVars, UpdateView
<1>0. /\ DOMAIN Status \cap OTAHandshake = {}
      /\ \A s \in DOMAIN Status : Status[s].next \notin OTAHandshake
      /\ \A s \in DOMAIN Status : Status[s].next \in Received => s \in Received
      /\ "DATA_SIZE" \notin OTAHandshake /\ "DATA_BEGIN" \notin OTAHandshake
      /\ "DATA_MD5" \notin OTAHandshake /\ "DATA_MD5_OK" \notin OTAHandshake
      /\ "DATA_FIRMWARE" \notin OTAHandshake /\ "DATA_FINAL_ACK" \notin OTAHandshake
      /\ "DATA_RECEIVE_OK" \notin OTAHandshake /\ "DATA_REBOOT" \notin OTAHandshake
  BY DEF Status, OTAHandshake, Received
<1>1. \A code : Fail(code) => Effect
  BY FailCloses DEF Effect
<1>2. CASE DataStatus
  <2>1. /\ ota_state \in DOMAIN Status
        /\ ota_state' \in {ota_state, Status[ota_state].next}
        /\ UNCHANGED <<ota_size, UpdateView>>
    BY <1>2 DEF DataStatus, SendThen, Transition
  <2> QED
    BY <1>0, <2>1 DEF Effect, Keeps
<1>3. CASE DataSize
  <2>1. CASE ReadallTimesOut("size")
    BY <1>1, <2>1 DEF ReadallTimesOut
  <2>2. CASE ~ReadallTimesOut("size")
    <3>1. /\ \/ UNCHANGED <<ota_state, ota_size>>
             \/ ota_state' = "DATA_BEGIN" /\ Reading("DATA_SIZE", "size")
          /\ UNCHANGED UpdateView
      BY <1>3, <2>2 DEF DataSize, ReadallYields, ReadallTakes, Transition
    <3>2. CASE UNCHANGED <<ota_state, ota_size>>
      BY <3>1, <3>2 DEF Effect, Keeps
    <3>3. CASE ota_state' = "DATA_BEGIN" /\ Reading("DATA_SIZE", "size")
      <4>1. ~update_started /\ (has_peer => ota_state = "DATA_SIZE")
        BY <3>3
           DEF Reading, At, SessionInv, NoSession, InSession, SlotStates, ValidStates
      <4> QED
        BY <1>0, <3>1, <3>3, <4>1 DEF Effect, Keeps, Received
    <3> QED
      BY <3>1, <3>2, <3>3
  <2> QED
    BY <2>1, <2>2
<1>4. CASE DataMd5
  <2>1. CASE ReadallTimesOut("md5")
    BY <1>1, <2>1 DEF ReadallTimesOut
  <2>2. CASE ~ReadallTimesOut("md5")
    <3>1. /\ \/ UNCHANGED ota_state
             \/ ota_state' = "DATA_MD5_OK" /\ Reading("DATA_MD5", "md5")
          /\ UNCHANGED <<ota_size, UpdateView>>
      BY <1>4, <2>2 DEF DataMd5, ReadallYields, ReadallTakes, Transition
    <3>2. CASE UNCHANGED ota_state
      BY <3>1, <3>2 DEF Effect, Keeps
    <3>3. CASE ota_state' = "DATA_MD5_OK" /\ Reading("DATA_MD5", "md5")
      <4>1. has_peer => ota_state = "DATA_MD5"
        BY <3>3 DEF Reading, At, SessionInv, InSession
      <4> QED
        BY <1>0, <3>1, <3>3, <4>1 DEF Effect, Keeps, Received
    <3> QED
      BY <3>1, <3>2, <3>3
  <2> QED
    BY <2>1, <2>2
<1>5. CASE DataBegin /\ ~Fail("ERROR_BACKEND")
  <2>1. CASE Crash
    BY <2>1 DEF Crash, Effect, Keeps
  <2>2. CASE ~Crash
    <3>1. /\ backend /\ ota_state = "DATA_BEGIN"
          /\ slot' = "open" /\ update_started' = TRUE /\ flash' = <<>>
          /\ firmware_total' = 0 /\ size_acknowledged' = 0
          /\ ota_state' = "DATA_PREPARE_OK"
          /\ UNCHANGED <<has_peer, proved, ota_size, boot>>
      BY <1>5, <2>2 DEF DataBegin, At, Transition
    <3>2. has_peer
      BY <3>1 DEF SessionInv, NoSession, TypeOK
    <3> QED
      BY <3>1, <3>2 DEF Effect, Begins
  <2> QED
    BY <2>1, <2>2
<1>6. CASE DataFirmware /\ ~Fail("ERROR_BACKEND")
  <2> DEFINE want == Lesser(ota_size - firmware_total, BufSize)
  <2>1. has_peer /\ ota_state = "DATA_FIRMWARE"
    BY <1>6, AtInSession DEF DataFirmware, At
  <2>2. ota_size \in Nat /\ firmware_total \in Nat
    BY DEF TypeOK
  <2>3. CASE /\ firmware_total >= ota_size
             /\ ota_state' = "DATA_RECEIVE_OK"
             /\ UNCHANGED <<ota_size, UpdateView>>
    BY <1>0, <2>1, <2>3 DEF Effect, Keeps, Received
  <2>4. CASE UNCHANGED <<ota_state, ota_size, UpdateView>>
    BY <2>4 DEF Effect, Keeps
  <2>5. CASE /\ firmware_total < ota_size /\ rx # <<>>
             /\ flash' = flash \o Values(RxTake(want))
             /\ firmware_total' = firmware_total + Len(RxTake(want))
             /\ UNCHANGED <<ota_state, has_peer, proved, update_started, slot,
                            ota_size, size_acknowledged, boot>>
    <3>1. want \in Nat /\ 0 < want /\ want <= ota_size - firmware_total
      BY <2>2, <2>5, LimitAssumption DEF Lesser
    <3>2. /\ RxTake(want) \in Seq(Byte)
          /\ Len(RxTake(want)) = Lesser(want, Len(rx))
          /\ Len(rx) \in Nat \ {0}
      BY <2>5, <3>1, RxSplit, EmptySeq DEF TypeOK
    <3>3. /\ Values(RxTake(want)) \in Seq(Value)
          /\ Len(Values(RxTake(want))) = Len(RxTake(want))
      BY <3>2, ValuesType
    <3> HIDE DEF want
    <3>4. 0 < Len(RxTake(want)) /\ Len(RxTake(want)) <= ota_size - firmware_total
      BY <2>2, <3>1, <3>2 DEF Lesser
    <3> QED
      BY <2>1, <2>5, <3>3, <3>4 DEF Effect, Writes
  <2> QED
    BY <1>6, <2>3, <2>4, <2>5 DEF DataFirmware, Transition
<1>7. CASE DataChunkOk
  <2>1. has_peer /\ ota_state = "DATA_FIRMWARE"
    BY <1>7 DEF DataChunkOk, SessionInv, NoSession, InSession
  <2>2. CASE ChunkDue /\ size_acknowledged' = size_acknowledged + BlockSize
    BY <1>7, <2>1, <2>2 DEF DataChunkOk, Effect, Acknowledges
  <2>3. CASE UNCHANGED size_acknowledged
    BY <1>7, <2>3 DEF DataChunkOk, Effect, Keeps
  <2> QED
    BY <1>7, <2>2, <2>3 DEF DataChunkOk
<1>8. CASE DataEnd /\ ~Fail("ERROR_BACKEND")
  <2>1. has_peer /\ ota_state = "DATA_END"
    BY <1>8, AtInSession DEF DataEnd, At
  <2> QED
    BY <1>8, <2>1 DEF DataEnd, Transition, Effect, Commits
<1>9. CASE DataFinalAck
  <2>1. /\ ota_state = "DATA_FINAL_ACK"
        /\ ota_state' \in {"DATA_FINAL_ACK", "DATA_REBOOT"}
        /\ UNCHANGED <<ota_size, UpdateView>>
    BY <1>9 DEF DataFinalAck, At, Transition
  <2> QED
    BY <1>0, <2>1 DEF Effect, Keeps, Received
<1>10. CASE DataReboot
  BY <1>10 DEF DataReboot, Cleanup, ClearSession, Effect, Closes
<1> QED
  BY <1>1, <1>2, <1>3, <1>4, <1>5, <1>6, <1>7, <1>8, <1>9, <1>10 DEF DataStep

(* Every step of the node has one of these effects on the update.          *)
LEMMA StepEffect ==
  ASSUME TypeOK, SessionInv, [Next]_vars
  PROVE  Effect
<1>1. CASE UNCHANGED vars
  <2>1. UNCHANGED <<ota_state, ota_size, UpdateView>>
    BY <1>1 DEF vars, peerVars, authVars, updateVars, backendVars, slotVars,
                countVars, UpdateView
  <2> QED
    BY <2>1 DEF Effect, Keeps
<1>2. CASE Next
  BY <1>2, OutsideEffect, HandshakeEffect, DataEffect DEF Next, Device
<1> QED
  BY <1>1, <1>2

------------------------------------------------------------------------------
(* Progress: what the counters say about the slot.                         *)

ProgressInv ==
  /\ ProgressIsTrue
  /\ update_started /\ ota_state \in Received => firmware_total >= ota_size

LEMMA ProgressStep ==
  ASSUME TypeOK, SessionInv, ProgressInv, Effect
  PROVE  ProgressInv'
<1>1. /\ firmware_total \in Nat /\ ota_size \in Nat /\ size_acknowledged \in Nat
      /\ flash \in Seq(Value) /\ Len(flash) \in Nat /\ BlockSize \in Nat \ {0}
  BY LimitAssumption, LenProperties DEF TypeOK
<1>2. CASE Closes
  BY <1>2 DEF Closes, ProgressInv, ProgressIsTrue
<1>3. CASE Keeps
  BY <1>3 DEF Keeps, UpdateView, ProgressInv, ProgressIsTrue
<1>4. CASE Opens
  <2>1. ~update_started'
    BY <1>4 DEF Opens, SessionInv, NoSession
  <2> QED
    BY <2>1 DEF ProgressInv, ProgressIsTrue
<1>5. CASE Grants
  <2>1. ~update_started'
    BY <1>5, StateSets DEF Grants, SessionInv, InSession
  <2> QED
    BY <2>1 DEF ProgressInv, ProgressIsTrue
<1>6. CASE Begins
  BY <1>1, <1>6, EmptySeq DEF Begins, ProgressInv, ProgressIsTrue, Received
<1>7. CASE Writes
  <2>1. update_started
    BY <1>7 DEF Writes, SessionInv, InSession, SlotStates
  <2>2. PICK chunk \in Seq(Value) :
          /\ 0 < Len(chunk) /\ Len(chunk) <= ota_size - firmware_total
          /\ flash' = flash \o chunk
          /\ firmware_total' = firmware_total + Len(chunk)
    BY <1>7 DEF Writes
  <2>3. Len(flash') = Len(flash) + Len(chunk) /\ Len(chunk) \in Nat
    BY <1>1, <2>2, ConcatProperties, LenProperties
  <2>4. firmware_total = Len(flash) /\ size_acknowledged <= firmware_total
    BY <1>1, <1>7, <2>1 DEF Writes, ProgressInv, ProgressIsTrue
  <2>5. /\ firmware_total' = Len(flash') /\ firmware_total' <= ota_size
        /\ size_acknowledged <= firmware_total'
    BY <1>1, <2>2, <2>3, <2>4
  <2>6. ota_state' \notin Received
    BY <1>7 DEF Writes, Received
  <2> QED
    BY <1>7, <2>5, <2>6 DEF Writes, ProgressInv, ProgressIsTrue
<1>8. CASE Acknowledges
  BY <1>1, <1>8 DEF Acknowledges, ChunkDue, ProgressInv, ProgressIsTrue, Received
<1>9. CASE Commits
  BY <1>9 DEF Commits, ProgressInv, ProgressIsTrue, Received
<1> QED
  BY <1>2, <1>3, <1>4, <1>5, <1>6, <1>7, <1>8, <1>9 DEF Effect

THEOREM ProgressInvariant == Spec => []ProgressInv
<1>1. Init => ProgressInv
  BY DEF Init, ProgressInv, ProgressIsTrue
<1>2. TypeOK /\ SessionInv /\ ProgressInv /\ [Next]_vars => ProgressInv'
  BY StepEffect, ProgressStep
<1> QED
  BY <1>1, <1>2, TypeCorrect, SessionInvariant, PTL DEF Spec

(* firmware_total_ is what the slot holds, and CHUNK_OK never speaks for   *)
(* bytes that have not been written.                                       *)
THEOREM ProgressCorrect == Spec => []ProgressIsTrue
<1>1. ProgressInv => ProgressIsTrue
  BY DEF ProgressInv
<1> QED
  BY <1>1, ProgressInvariant, PTL

------------------------------------------------------------------------------
(* Refinement: the node is an implementation of OtaUpdate.                 *)

PhaseFacts ==
  /\ AbsPhase = "idle" <=> ~has_peer
  /\ AbsPhase = "greeting" <=> has_peer /\ ota_state \in OTAHandshake
  /\ AbsPhase = "granted" <=> has_peer /\ ota_state \in OTAData /\ ~update_started
  /\ AbsPhase = "writing" <=>
       has_peer /\ ota_state \in OTAData /\ update_started /\ slot = "open"
  /\ AbsPhase = "ended" <=>
       has_peer /\ ota_state \in OTAData /\ update_started /\ slot # "open"
  /\ AbsPhase \in {"idle", "greeting", "granted", "writing", "ended"}

LEMMA PhaseCases ==
  /\ TypeOK => PhaseFacts
  /\ TypeOK' => PhaseFacts'
BY StateSets DEF TypeOK, PhaseFacts, AbsPhase, OTAState

AbsSize == IF update_started THEN ota_size ELSE 0
AbsSlot == IF update_started THEN flash ELSE <<>>

LEMMA EffectRefines ==
  ASSUME TypeOK, TypeOK', SessionInv, SessionInv', ProgressInv, Effect
  PROVE  [Abs!UNext]_(Abs!uvars)
<1>1. Abs!uvars = <<AbsPhase, proved, AbsSize, AbsSlot, boot>>
  BY DEF Abs!uvars, AbsSize, AbsSlot
<1>2. PhaseFacts /\ PhaseFacts'
  BY PhaseCases
<1>3. CASE Closes
  <2>1. AbsPhase' = "idle" /\ AbsSize' = 0 /\ AbsSlot' = <<>>
    BY <1>2, <1>3 DEF Closes, PhaseFacts, AbsSize, AbsSlot
  <2> QED
    BY <1>3, <2>1 DEF Closes, Abs!UNext, Abs!Close, AbsSize, AbsSlot
<1>4. CASE Keeps
  <2>1. has_peer => (ota_state \in OTAData <=> ota_state' \in OTAData)
    BY <1>4, StateSets DEF Keeps, TypeOK, OTAState
  <2>2. AbsPhase' = AbsPhase
    BY <1>2, <1>4, <2>1, StateSets DEF Keeps, UpdateView, PhaseFacts
  <2>3. UNCHANGED <<proved, AbsSize, AbsSlot, boot>>
    BY <1>4 DEF Keeps, UpdateView, AbsSize, AbsSlot
  <2> QED
    BY <1>1, <2>2, <2>3 DEF Abs!uvars, AbsSize, AbsSlot
<1>5. CASE Opens
  <2>1. AbsPhase = "idle" /\ AbsPhase' = "greeting"
    BY <1>2, <1>5 DEF Opens, PhaseFacts, OTAHandshake
  <2>2. ~update_started /\ UNCHANGED <<proved, AbsSize, AbsSlot, boot>>
    BY <1>5 DEF Opens, SessionInv, NoSession, AbsSize, AbsSlot
  <2> QED
    BY <2>1, <2>2 DEF Abs!UNext, Abs!Greet, AbsSize, AbsSlot
<1>6. CASE Grants
  <2>1. ~update_started
    BY <1>6, StateSets DEF Grants, SessionInv, InSession
  <2>2. AbsPhase = "greeting" /\ AbsPhase' = "granted"
    BY <1>2, <1>6, <2>1 DEF Grants, PhaseFacts, OTAData
  <2>3. UNCHANGED <<AbsSize, AbsSlot, boot>>
    BY <1>6, <2>1 DEF Grants, AbsSize, AbsSlot
  <2> QED
    BY <1>6, <2>2, <2>3 DEF Grants, Abs!UNext, Abs!Grant, AbsSize, AbsSlot
<1>7. CASE Begins
  <2>1. ~update_started
    BY <1>7 DEF Begins, SessionInv, InSession, SlotStates, ValidStates
  <2>2. AbsPhase = "granted" /\ AbsPhase' = "writing"
    BY <1>2, <1>7, <2>1 DEF Begins, PhaseFacts, OTAData
  <2>3. AbsSize' \in Nat /\ AbsSlot' = <<>> /\ UNCHANGED <<proved, boot>>
    BY <1>7 DEF Begins, AbsSize, AbsSlot, TypeOK
  <2> QED
    BY <2>2, <2>3 DEF Abs!UNext, Abs!Begin, AbsSize, AbsSlot
<1>8. CASE Writes
  <2>1. update_started /\ slot = "open"
    BY <1>8 DEF Writes, SessionInv, InSession, SlotStates
  <2>2. AbsPhase = "writing" /\ AbsPhase' = "writing"
    BY <1>2, <1>8, <2>1 DEF Writes, PhaseFacts, OTAData
  <2>3. PICK chunk \in Seq(Value) :
          /\ 0 < Len(chunk) /\ Len(chunk) <= ota_size - firmware_total
          /\ flash' = flash \o chunk
    BY <1>8 DEF Writes
  <2>4. /\ flash \in Seq(Value) /\ Len(flash) \in Nat /\ Len(chunk) \in Nat
        /\ ota_size \in Nat /\ firmware_total = Len(flash)
    BY <2>1, LenProperties DEF TypeOK, ProgressInv, ProgressIsTrue
  <2>5. flash' \in Seq(Value) /\ Len(flash') = Len(flash) + Len(chunk)
    BY <2>3, <2>4, ConcatProperties
  <2>6. SubSeq(flash', 1, Len(flash)) = flash
    BY <2>3, <2>4, ConcatPrefix
  <2>7. Len(flash) < Len(flash') /\ Len(flash') <= ota_size
    BY <2>3, <2>4, <2>5
  <2>8. AbsSlot = flash /\ AbsSlot' = flash' /\ AbsSize = ota_size
        /\ UNCHANGED <<proved, AbsSize, boot>>
    BY <1>8, <2>1 DEF Writes, AbsSlot, AbsSize
  <2> QED
    BY <2>2, <2>5, <2>6, <2>7, <2>8 DEF Abs!UNext, Abs!Write, AbsSize, AbsSlot
<1>9. CASE Acknowledges
  <2>1. AbsPhase' = AbsPhase
    BY <1>2, <1>9 DEF Acknowledges, PhaseFacts
  <2>2. UNCHANGED <<proved, AbsSize, AbsSlot, boot>>
    BY <1>9 DEF Acknowledges, AbsSize, AbsSlot
  <2> QED
    BY <2>1, <2>2 DEF Abs!uvars, AbsSize, AbsSlot
<1>10. CASE Commits
  <2>1. update_started /\ slot = "open"
    BY <1>10 DEF Commits, SessionInv, InSession, SlotStates
  <2>2. AbsPhase = "writing" /\ AbsPhase' = "ended"
    BY <1>2, <1>10, <2>1 DEF Commits, PhaseFacts, OTAData
  <2>3. Len(flash) = ota_size
    BY <1>10, <2>1, LenProperties
       DEF Commits, ProgressInv, ProgressIsTrue, Received, TypeOK
  <2>4. \E digest \in DOMAIN Image : Image[digest] = flash
    BY <1>10 DEF Commits, ImageAccepted
  <2>5. AbsSlot = flash /\ AbsSize = ota_size /\ boot' = flash
        /\ UNCHANGED <<proved, AbsSize, AbsSlot>>
    BY <1>10, <2>1 DEF Commits, AbsSlot, AbsSize
  <2> QED
    BY <2>2, <2>3, <2>4, <2>5 DEF Abs!UNext, Abs!Commit, AbsSize, AbsSlot
<1> QED
  BY <1>3, <1>4, <1>5, <1>6, <1>7, <1>8, <1>9, <1>10 DEF Effect

(* The node implements OtaUpdate, whatever it is sent by whomever and      *)
(* whenever it fails or is reset.                                          *)
THEOREM UpdateRefinement == Spec => ImplementsUpdate
<1>1. Init => Abs!UInit
  <2> SUFFICES ASSUME Init PROVE Abs!UInit
    OBVIOUS
  <2>1. AbsPhase = "idle"
    BY DEF Init, AbsPhase
  <2> QED
    BY <2>1 DEF Init, Abs!UInit
<1>2. TypeOK /\ TypeOK' /\ SessionInv /\ SessionInv' /\ ProgressInv /\ [Next]_vars
        => [Abs!UNext]_(Abs!uvars)
  BY StepEffect, EffectRefines
<1> QED
  BY <1>1, <1>2, TypeCorrect, SessionInvariant, ProgressInvariant, PTL
     DEF Spec, ImplementsUpdate, Abs!USpec

Promises == INSTANCE OtaUpdate_proofs WITH
  Secured <- Password,
  phase <- AbsPhase,
  size <- AbsSize,
  slot <- AbsSlot

(* So whatever boots was complete and verified, and if a password is       *)
(* configured only a peer that proved it in the same session got to write. *)
THEOREM PromiseKept == Spec => []Abs!Promise
<1>1. Abs!USpec => Promises!USpec
  <2>1. Abs!UInit => Promises!UInit
    BY DEF Abs!UInit, Promises!UInit, AbsSize, AbsSlot
  <2>2. [Abs!UNext]_(Abs!uvars) => [Promises!UNext]_(Promises!uvars)
    BY DEF Abs!UNext, Promises!UNext, Abs!uvars, Promises!uvars, Abs!Greet,
           Promises!Greet, Abs!Grant, Promises!Grant, Abs!Begin,
           Promises!Begin, Abs!Write, Promises!Write,
           Abs!Commit, Promises!Commit, Abs!Close,
           Promises!Close, AbsSize, AbsSlot
  <2> QED
    BY <2>1, <2>2, PTL DEF Abs!USpec, Promises!USpec
<1>2. Promises!Promise => Abs!Promise
  BY DEF Promises!Promise, Abs!Promise, AbsSize, AbsSlot
<1> QED
  BY <1>1, <1>2, UpdateRefinement, Promises!UpdateKeepsPromise, PTL
     DEF ImplementsUpdate
==============================================================================
