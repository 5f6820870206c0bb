--------------------------- MODULE EspHomeOta_proofs ---------------------------
(***************************************************************************)
(* Proofs about EspHomeOta, for every value of its constants.              *)
(***************************************************************************)
EXTENDS EspHomeOta, SequenceTheorems, TLAPS

------------------------------------------------------------------------------
(* The strengthened invariant.                                             *)

(* Labels of the data phase at which begin() has not been called.          *)
Before == {"AUTH_OK", "TYPE", "SIZE", "BEGIN"}

(* Without a client nothing of a session is left.  The slot is closed, but *)
(* for the one that the restart on its way will boot from.                 *)
NoSession ==
  /\ pc \in {"main", "disable"} /\ ota_state = "IDLE"
  /\ hs_buf = <<>> /\ out = 0 /\ ota_features = 0
  /\ auth_nonce = NoNonce /\ auth_in = <<>> /\ ~proved
  /\ ~backend /\ data_buf = <<>> /\ ota_type = UpdateApp
  /\ slot = "closed" \/ (dev = "off" /\ slot = "valid")

(* With one the label says what the slot is, and whether the peer has been *)
(* let in.                                                                 *)
InSession ==
  /\ dev = "run" /\ looping
  /\ ota_state # "IDLE" /\ pc # "disable"
  /\ ota_state = "DATA" => (Password => proved)
  /\ pc \in DataLabel => ota_state = "DATA"
  /\ pc \in Writing => slot = "open"
  /\ pc \in Ended => slot = "valid"
  /\ pc = "ERROR" => slot # "valid"
  /\ pc \notin Writing \cup Ended \cup {"ERROR"} => slot = "closed"
  /\ \/ data_buf = <<>>
     \/ pc = "SIZE" /\ Len(data_buf) < SizeLen
     \/ pc = "MD5" /\ Len(data_buf) < Md5Len
     \/ pc = "ERROR"

SessionInv ==
  /\ client = NoConn => NoSession
  /\ client # NoConn => InSession

(* What handle_data_ has counted when bytes have been, or may be, written, *)
(* and what it has acknowledged of them.                                   *)
Counted ==
  /\ total = Len(flash) /\ total <= ota_size
  /\ \/ size_acknowledged <= total
     \/ total = ota_size /\ size_acknowledged < ota_size + BlockSize

Full == {"RECEIVE_OK", "END"} \cup Ended

ProgressInv ==
  /\ pc \notin Writing \cup Ended \cup {"ERROR"} =>
       total = 0 /\ size_acknowledged = 0
  /\ pc \in {"PREPARE_OK", "MD5", "MD5_OK"} =>
       total = 0 /\ size_acknowledged = 0 /\ flash = <<>>
  /\ pc \in {"FIRMWARE", "CHUNK_OK"} \cup Full => Counted
  /\ pc \in Full => total = ota_size
  /\ ChunksAreTrue

(* The loop is only ever disabled while a node that runs has nobody to     *)
(* serve, and a connection that comes after the last look at the listener  *)
(* has asked for it again.                                                 *)
WakeInv ==
  /\ dev = "boot" => looping
  /\ pc = "disable" /\ queue # <<>> => wake
  /\ NoLostWake

------------------------------------------------------------------------------
(* Facts about the helpers.                                                *)

USE DEF SizeLen, UpdateApp

LEMMA LabelSets ==
  /\ Writing \cap Ended = {} /\ Before \cap (Writing \cup Ended) = {}
  /\ DataLabel = Before \cup Writing \cup Ended \cup {"ERROR"}
  /\ "ERROR" \notin Before \cup Writing \cup Ended
  /\ Handshake \cap DataLabel = {}
  /\ {"main", "disable"} \cap (Handshake \cup DataLabel) = {}
BY DEF Before, Writing, Ended, DataLabel, Handshake

LEMMA Lengths ==
  /\ Len(Magic) \in Nat /\ 0 < Len(Magic) /\ 0 < AuthLen /\ AuthLen \in Nat
  /\ Len(<<>>) = 0 /\ <<>> \in Seq(Value) /\ <<>> \in Seq(Conn)
  /\ 0 \in 0 .. TimeCap /\ Value \subseteq Nat
<1>1. Len(Magic) \in Nat /\ 0 < Len(Magic)
  BY WireAssumption, EmptySeq, LenProperties
<1>2. Len(<<>>) = 0 /\ <<>> \in Seq(Value) /\ <<>> \in Seq(Conn)
  BY EmptySeq
<1> QED
  BY <1>1, <1>2, WireAssumption, LimitAssumption DEF TimeCap

(* What a read takes and leaves.                                           *)
LEMMA TakenType ==
  ASSUME TypeOK, client \in Conn, NEW n \in Nat
  PROVE  /\ Taken(n) \in Seq(Value)
         /\ Len(Taken(n)) = Lesser(n, Len(inbox[client]))
         /\ Take(n) => inbox' \in [Conn -> Seq(Value)]
<1> DEFINE s == inbox[client]  k == Lesser(n, Len(s))
<1>1. s \in Seq(Value) /\ Len(s) \in Nat
  BY LenProperties DEF TypeOK
<1>2. k \in 0 .. Len(s)
  BY <1>1 DEF Lesser
<1>3. SubSeq(s, 1, k) \in Seq(Value) /\ Len(SubSeq(s, 1, k)) = k
  <2>1. \A i \in 1 .. k : s[i] \in Value
    BY <1>1, <1>2, ElementOfSeq
  <2> QED
    BY <1>1, <1>2, <2>1, SubSeqProperties
<1>4. SubSeq(s, k + 1, Len(s)) \in Seq(Value)
  <2>1. \A i \in k + 1 .. Len(s) : s[i] \in Value
    BY <1>1, <1>2, ElementOfSeq
  <2> QED
    BY <1>1, <1>2, <2>1, SubSeqProperties
<1> QED
  BY <1>3, <1>4 DEF Taken, Take, TypeOK

(* Bytes collected over several reads.                                     *)
LEMMA CollectedType ==
  ASSUME TypeOK, client \in Conn, NEW buf \in Seq(Value), NEW len \in Nat, Len(buf) <= len
  PROVE  /\ buf \o Taken(len - Len(buf)) \in Seq(Value)
         /\ Len(buf) + Len(inbox[client]) >= len => Len(buf \o Taken(len - Len(buf))) = len
         /\ Take(len - Len(buf)) => inbox' \in [Conn -> Seq(Value)]
<1>1. len - Len(buf) \in Nat /\ Len(buf) \in Nat /\ Len(inbox[client]) \in Nat
  BY LenProperties DEF TypeOK
<1>2. /\ Taken(len - Len(buf)) \in Seq(Value)
      /\ Len(Taken(len - Len(buf))) = Lesser(len - Len(buf), Len(inbox[client]))
      /\ Take(len - Len(buf)) => inbox' \in [Conn -> Seq(Value)]
  BY <1>1, TakenType
<1>3. /\ buf \o Taken(len - Len(buf)) \in Seq(Value)
      /\ Len(buf \o Taken(len - Len(buf))) = Len(buf) + Lesser(len - Len(buf), Len(inbox[client]))
  BY <1>2, ConcatProperties
<1> QED
  BY <1>1, <1>2, <1>3 DEF Lesser

LEMMA HeadType ==
  ASSUME TypeOK, client \in Conn, inbox[client] # <<>>
  PROVE  Head(inbox[client]) \in Nat
<1>1. Head(inbox[client]) \in Value
  BY HeadTailProperties DEF TypeOK
<1> QED
  BY <1>1, Lengths

------------------------------------------------------------------------------
(* Leaving a session.                                                      *)
LEMMA CleanupType ==
  ASSUME TypeOK, CleanupConnection,
         dev' \in {"run", "off", dev},
         slot' \in {"closed", "open", "valid"}, md5' \in Seq(Value), flash' \in Seq(Value)
  PROVE  TypeOK'
<1>1. /\ link' \in [Conn -> {"new", "up", "fin", "reset", "gone"}]
      /\ inbox' \in [Conn -> Seq(Value)]
  BY Lengths DEF CleanupConnection, TypeOK
<1>2. ota_state' \in OTAState /\ hs_buf' = <<>> /\ out' = 0
  BY DEF CleanupConnection, Transition, OTAState
<1>3. auth_nonce' = NoNonce /\ auth_in' = <<>> /\ looping' = looping
  BY DEF CleanupConnection, CleanupAuth, CleanupLooping
<1>4. /\ ota_type' = 0 /\ ota_size' = 0 /\ total' = 0 /\ size_acknowledged' = 0
      /\ data_buf' = <<>>
  BY DEF CleanupConnection, LeaveData
<1> QED
  BY <1>1, <1>2, <1>3, <1>4, Lengths DEF CleanupConnection, TypeOK

LEMMA CleanupInv ==
  ASSUME SessionInv, client # NoConn, CleanupConnection,
         slot' = "closed" \/ (dev' = "off" /\ slot' = "valid")
  PROVE  SessionInv'
<1>1. client' = NoConn /\ NoSession'
  BY DEF CleanupConnection, Transition, CleanupAuth, LeaveData, NoSession
<1> QED
  BY <1>1 DEF SessionInv

LEMMA RefuseKeeps ==
  ASSUME TypeOK, SessionInv, client # NoConn, Refuse,
         pc \notin Writing \cup Ended \cup {"ERROR"}
  PROVE  TypeOK' /\ SessionInv'
<1>1. CleanupConnection /\ UNCHANGED <<dev, slot, md5, flash>>
  BY DEF Refuse, slotVars
<1>2. slot = "closed"
  BY DEF SessionInv, InSession
<1>3. TypeOK'
  BY <1>1, CleanupType DEF TypeOK
<1>4. SessionInv'
  BY <1>1, <1>2, CleanupInv
<1> QED
  BY <1>3, <1>4

(* Where control is in a session, there is one.                            *)
LEMMA AtClient ==
  ASSUME TypeOK, SessionInv, pc \notin {"main", "disable"}
  PROVE  client # NoConn /\ client \in Conn /\ InSession
BY DEF SessionInv, NoSession, TypeOK

------------------------------------------------------------------------------
USE DEF wakeVars, netVars, shakeVars, authVars, slotVars, countVars, dataVars,
        sessionVars

LEMMA InitKeeps == Init => TypeOK /\ SessionInv
<1> SUFFICES ASSUME Init PROVE TypeOK /\ SessionInv
  OBVIOUS
<1>1. TypeOK
  <2>1. ota_state \in OTAState
    BY DEF Init, OTAState
  <2>2. Len(queue) <= Backlog /\ Len(hs_buf) < Len(Magic) /\ Len(auth_in) < AuthLen
    BY Lengths, LimitAssumption DEF Init
  <2> QED
    BY <2>1, <2>2, Lengths DEF Init, TypeOK
<1>2. SessionInv
  BY DEF Init, SessionInv, NoSession
<1> QED
  BY <1>1, <1>2

LEMMA OutsideKeeps ==
  ASSUME TypeOK, SessionInv, Setup \/ Reset \/ Tick
  PROVE  TypeOK' /\ SessionInv'
<1>1. CASE Setup
  <2>1. TypeOK'
    BY <1>1 DEF Setup, TypeOK
  <2>2. client = NoConn /\ slot = "closed"
    BY <1>1 DEF Setup, SessionInv, InSession, NoSession
  <2> QED
    BY <1>1, <2>1, <2>2 DEF Setup, SessionInv, NoSession
<1>2. CASE Reset
  <2>1. TypeOK'
    <3>1. /\ link' \in [Conn -> {"new", "up", "fin", "reset", "gone"}]
          /\ inbox' \in [Conn -> Seq(Value)]
      BY <1>2, Lengths DEF Reset, TypeOK
    <3>2. ota_state' \in OTAState /\ Len(queue') <= Backlog
      BY <1>2, Lengths, LimitAssumption DEF Reset, Transition, OTAState
    <3> QED
      BY <1>2, <3>1, <3>2, Lengths
         DEF Reset, Transition, CleanupAuth, CloseSlot, LeaveData, TypeOK
  <2>2. client' = NoConn /\ NoSession'
    BY <1>2 DEF Reset, Transition, CleanupAuth, CloseSlot, LeaveData, NoSession
  <2> QED
    BY <2>1, <2>2 DEF SessionInv
<1>3. CASE Tick
  <2>1. elapsed' \in 0 .. TimeCap
    BY <1>3, LimitAssumption DEF Tick, TypeOK, TimeCap
  <2> QED
    BY <1>3, <2>1 DEF Tick, TypeOK, SessionInv, NoSession, InSession
<1> QED
  BY <1>1, <1>2, <1>3

LEMMA PeerKeeps ==
  ASSUME TypeOK, SessionInv, NEW c \in Conn, Peer(c)
  PROVE  TypeOK' /\ SessionInv'
<1>1. UNCHANGED peerUnchanged
  BY DEF Peer, Connect, Receive, PeerCloses, PeerResets
<1>2. /\ link' \in [Conn -> {"new", "up", "fin", "reset", "gone"}]
      /\ wake' \in BOOLEAN
  BY DEF Peer, Connect, Receive, PeerCloses, PeerResets, TypeOK
<1>3. queue' \in Seq(Conn) /\ Len(queue') <= Backlog
  <2>1. CASE UNCHANGED queue
    BY <2>1 DEF TypeOK
  <2>2. CASE queue' = Append(queue, c) /\ Len(queue) < Backlog
    BY <2>2, AppendProperties, LenProperties, LimitAssumption DEF TypeOK
  <2> QED
    BY <2>1, <2>2 DEF Peer, Connect, Receive, PeerCloses, PeerResets
<1>4. inbox' \in [Conn -> Seq(Value)]
  <2>1. CASE UNCHANGED inbox
    BY <2>1 DEF TypeOK
  <2>2. ASSUME NEW data \in Segment[c], Receive(c, data)
        PROVE  inbox' \in [Conn -> Seq(Value)]
    <3>1. data \in Seq(Value)
      BY WireAssumption
    <3>2. inbox[c] \o data \in Seq(Value)
      BY <3>1, ConcatProperties DEF TypeOK
    <3> QED
      BY <2>2, <3>2 DEF Receive, TypeOK
  <2> QED
    BY <2>1, <2>2 DEF Peer, Connect, PeerCloses, PeerResets
<1> QED
  BY <1>1, <1>2, <1>3, <1>4 DEF peerUnchanged, TypeOK, SessionInv, NoSession, InSession

LEMMA QueueTail ==
  ASSUME TypeOK, queue # <<>>
  PROVE  Head(queue) \in Conn /\ Tail(queue) \in Seq(Conn) /\ Len(Tail(queue)) <= Backlog
BY HeadTailProperties, LenProperties, LimitAssumption DEF TypeOK

LEMMA LoopKeeps ==
  ASSUME TypeOK, SessionInv,
         \/ EnablePendingLoops \/ LoopIdle \/ DisableLoop
         \/ AcceptNothing \/ Accept \/ LoopStep
  PROVE  TypeOK' /\ SessionInv'
<1>1. CASE EnablePendingLoops
  BY <1>1 DEF EnablePendingLoops, TypeOK, SessionInv, NoSession, InSession
<1>2. CASE LoopIdle
  BY <1>2 DEF LoopIdle, AtLoop, NobodyWaits, TypeOK, SessionInv, NoSession
<1>3. CASE DisableLoop
  BY <1>3 DEF DisableLoop, TypeOK, SessionInv, NoSession, InSession
<1>4. CASE AcceptNothing
  <2>1. TypeOK'
    BY <1>4, QueueTail, Lengths DEF AcceptNothing, TypeOK
  <2> QED
    BY <1>4, <2>1 DEF AcceptNothing, SessionInv, NoSession
<1>5. CASE Accept
  <2>0. client = NoConn /\ queue # <<>> /\ pc = "main" /\ dev = "run" /\ looping
        /\ NoSession /\ slot = "closed"
    BY <1>5 DEF Accept, AtLoop, SessionInv, NoSession
  <2>1. CASE /\ client' = Head(queue)
             /\ Transition("MAGIC_READ")
             /\ pc' = "MAGIC_READ"
             /\ elapsed' = 0
             /\ UNCHANGED <<link, inbox>>
    <3>1. TypeOK'
      BY <1>5, <2>0, <2>1, QueueTail, Lengths
         DEF Accept, TypeOK, Transition, OTAState, Handshake
    <3>2. client' # NoConn
      BY <2>0, <2>1, QueueTail, ConnAssumption
    <3>3. InSession'
      BY <1>5, <2>0, <2>1
         DEF Accept, Transition, InSession, NoSession, DataLabel, Writing, Ended
    <3> QED
      BY <3>1, <3>2, <3>3 DEF SessionInv
  <2>2. CASE /\ link' = [link EXCEPT ![Head(queue)] = "gone"]
             /\ inbox' = [inbox EXCEPT ![Head(queue)] = <<>>]
             /\ UNCHANGED <<pc, client, ota_state, hs_buf, out, elapsed>>
    <3>1. TypeOK'
      BY <1>5, <2>0, <2>2, QueueTail, Lengths DEF Accept, TypeOK
    <3> QED
      BY <1>5, <2>0, <2>2, <3>1 DEF Accept, SessionInv, NoSession
  <2> QED
    BY <1>5, <2>1, <2>2 DEF Accept
<1>6. CASE LoopStep
  <2>0. client # NoConn /\ pc = "main" /\ InSession
    BY <1>6 DEF LoopStep, AtLoop, SessionInv
  <2>1. CASE Refuse
    BY <2>0, <2>1, RefuseKeeps DEF Writing, Ended
  <2>2. CASE ~Refuse
    <3>1. /\ pc' = IF ota_state = "DATA" THEN "AUTH_OK" ELSE ota_state
          /\ UNCHANGED <<dev, wakeVars, netVars, sessionVars, dataVars, elapsed, boot>>
      BY <1>6, <2>2 DEF LoopStep
    <3>2. pc' \in Handshake \cup {"AUTH_OK"} /\ (pc' = "AUTH_OK" <=> ota_state = "DATA")
      BY <2>0, <3>1 DEF InSession, TypeOK, OTAState, Handshake
    <3>3. TypeOK'
      BY <3>1, <3>2 DEF TypeOK, DataLabel
    <3>4. InSession'
      BY <2>0, <3>1, <3>2 DEF InSession, Handshake, DataLabel, Writing, Ended
    <3> QED
      BY <2>0, <3>1, <3>3, <3>4 DEF SessionInv
  <2> QED
    BY <2>1, <2>2
<1> QED
  BY <1>1, <1>2, <1>3, <1>4, <1>5, <1>6

LEMMA HandshakeKeeps ==
  ASSUME TypeOK, SessionInv, HandshakeStep
  PROVE  TypeOK' /\ SessionInv'
<1>1. pc \in Handshake /\ dev = "run"
  BY DEF HandshakeStep, MagicRead, MagicAck, FeatureRead, FeatureAck, AuthSend, AuthRead,
         At, Handshake
<1>2. /\ client # NoConn /\ client \in Conn /\ InSession /\ slot = "closed"
      /\ data_buf = <<>> /\ pc \notin {"main", "disable"} \cup DataLabel
  <2>1. pc \notin {"main", "disable"} \cup DataLabel
    BY <1>1, LabelSets
  <2> QED
    BY <1>1, <2>1, AtClient, LabelSets DEF InSession, Handshake
<1>3. Refuse => TypeOK' /\ SessionInv'
  BY <1>2, RefuseKeeps, LabelSets
(* What is left to show when the session goes on. *)
<1>4. ASSUME TypeOK', client' = client, dev' = dev, looping' = looping, slot' = slot,
             data_buf' = data_buf, ota_state' # "IDLE",
             ota_state' = "DATA" => (Password => proved'),
             pc' \in Handshake \cup {"main"} \/ (pc' = "AUTH_OK" /\ ota_state' = "DATA")
      PROVE  TypeOK' /\ SessionInv'
  <2>1. pc' # "disable" /\ pc' \notin Writing \cup Ended \cup {"ERROR"}
    BY <1>4 DEF Handshake, Writing, Ended
  <2>2. pc' \in DataLabel => pc' = "AUTH_OK"
    BY <1>4, LabelSets
  <2>3. InSession'
    <3>1. pc' \in DataLabel => ota_state' = "DATA"
      BY <1>4, <2>2 DEF Handshake
    <3>2. dev' = "run" /\ looping' /\ slot' = "closed" /\ data_buf' = <<>>
      BY <1>2, <1>4 DEF InSession
    <3> QED
      BY <1>4, <2>1, <3>1, <3>2 DEF InSession
  <2> QED
    BY <1>2, <1>4, <2>3 DEF SessionInv
<1>5. {"main"} \cup Handshake \subseteq {"main", "disable"} \cup Handshake \cup DataLabel
  OBVIOUS
<1>6. CASE MagicRead /\ ~Refuse
  <2> DEFINE got == hs_buf \o Taken(Len(Magic) - Len(hs_buf))
  <2>1. CASE ReadBlocks /\ pc' = "main"
             /\ UNCHANGED <<dev, wakeVars, netVars, sessionVars, dataVars, elapsed, boot>>
    <3>1. TypeOK'
      BY <2>1 DEF TypeOK
    <3> QED
      BY <1>2, <1>4, <2>1, <3>1 DEF InSession
  <2>2. CASE /\ ReadWorks
             /\ \/ /\ ~Complete(got, Len(Magic))
                   /\ hs_buf' = got
                   /\ pc' = "main"
                   /\ UNCHANGED <<ota_state, out>>
                \/ /\ Complete(got, Len(Magic)) /\ got = Magic
                   /\ Transition("MAGIC_ACK")
                   /\ pc' = "MAGIC_ACK"
             /\ Take(Len(Magic) - Len(hs_buf))
             /\ UNCHANGED <<dev, wakeVars, queue, link, client, ota_features,
                            authVars, backend, dataVars, elapsed, boot>>
    <3>1. /\ got \in Seq(Value) /\ Len(got) \in Nat
          /\ inbox' \in [Conn -> Seq(Value)]
      <4>1. Len(hs_buf) <= Len(Magic) /\ hs_buf \in Seq(Value) /\ Len(Magic) \in Nat
        BY Lengths, LenProperties DEF TypeOK
      <4>2. got \in Seq(Value) /\ inbox' \in [Conn -> Seq(Value)]
        BY <1>2, <2>2, <4>1, CollectedType
      <4> HIDE DEF got
      <4> QED
        BY <4>2, LenProperties
    <3> HIDE DEF got
    <3>2. /\ hs_buf' \in Seq(Value) /\ Len(hs_buf') < Len(Magic)
          /\ ota_state' \in {ota_state, "MAGIC_ACK"} /\ out' \in {0, 1}
          /\ pc' \in {"main", "MAGIC_ACK"}
      <4>1. CASE Complete(got, Len(Magic))
        BY <2>2, <4>1, Lengths DEF Transition
      <4>2. CASE ~Complete(got, Len(Magic))
        <5>1. hs_buf' = got /\ pc' = "main" /\ UNCHANGED <<ota_state, out>>
          BY <2>2, <4>2
        <5>2. Len(got) < Len(Magic)
          BY <3>1, <4>2, Lengths DEF Complete
        <5> QED
          BY <3>1, <5>1, <5>2 DEF TypeOK
      <4> QED
        BY <4>1, <4>2
    <3>3. TypeOK'
      BY <2>2, <3>1, <3>2 DEF TypeOK, OTAState, Handshake
    <3> QED
      BY <1>2, <1>4, <2>2, <3>2, <3>3 DEF InSession, Handshake
  <2> QED
    BY <1>6, <2>1, <2>2 DEF MagicRead, ReadNothing
(* A write that leaves a part for the next call. *)
<1>7. ASSUME NEW n \in {1, 2}, WriteNotAll(n), ~Refuse
      PROVE  TypeOK' /\ SessionInv'
  <2>1. out' \in {0, 1} /\ pc' = "main"
        /\ UNCHANGED <<dev, wakeVars, netVars, client, ota_state, hs_buf,
                       ota_features, authVars, backend, dataVars, elapsed, boot>>
    BY <1>7 DEF WriteNotAll, TypeOK
  <2>2. TypeOK'
    BY <2>1 DEF TypeOK
  <2> QED
    BY <1>2, <1>4, <2>1, <2>2 DEF InSession
<1>8. CASE MagicAck /\ ~Refuse
  <2>1. CASE WriteNotAll(2)
    BY <1>7, <1>8, <2>1
  <2>2. CASE /\ backend' = TRUE
             /\ Transition("FEATURE_READ")
             /\ pc' = "FEATURE_READ"
             /\ UNCHANGED <<dev, wakeVars, netVars, client, ota_features, authVars,
                            dataVars, elapsed, boot>>
    <3>1. TypeOK'
      BY <2>2, Lengths DEF TypeOK, Transition, OTAState, Handshake
    <3> QED
      BY <1>2, <1>4, <2>2, <3>1 DEF Transition, Handshake
  <2> QED
    BY <1>8, <2>1, <2>2 DEF MagicAck
<1>9. CASE FeatureRead /\ ~Refuse
  <2>1. CASE ReadBlocks /\ pc' = "main"
             /\ UNCHANGED <<dev, wakeVars, netVars, sessionVars, dataVars, elapsed, boot>>
    <3>1. TypeOK'
      BY <2>1 DEF TypeOK
    <3> QED
      BY <1>2, <1>4, <2>1, <3>1 DEF InSession
  <2>2. CASE /\ ReadWorks
             /\ ota_features' = Head(inbox[client])
             /\ Take(1)
             /\ Transition("FEATURE_ACK")
             /\ pc' = "FEATURE_ACK"
             /\ UNCHANGED <<dev, wakeVars, queue, link, client, authVars, backend,
                            dataVars, elapsed, boot>>
    <3>1. ota_features' \in Nat /\ inbox' \in [Conn -> Seq(Value)]
      BY <1>2, <2>2, HeadType, TakenType DEF ReadWorks
    <3>2. TypeOK'
      BY <2>2, <3>1, Lengths DEF TypeOK, Transition, OTAState, Handshake
    <3> QED
      BY <1>2, <1>4, <2>2, <3>2 DEF Transition, Handshake
  <2> QED
    BY <1>9, <2>1, <2>2 DEF FeatureRead, ReadNothing
<1>10. CASE FeatureAck /\ ~Refuse
  <2>1. CASE WriteNotAll(IF ExtendedProto THEN 2 ELSE 1)
    BY <1>7, <1>10, <2>1
  <2>2. CASE /\ Transition(IF Password THEN "AUTH_SEND" ELSE "DATA")
             /\ pc' = AfterFeatures
             /\ UNCHANGED <<dev, wakeVars, netVars, client, ota_features, authVars,
                            backend, dataVars, elapsed, boot>>
    <3>1. ota_state' \in {"AUTH_SEND", "DATA"} /\ (ota_state' = "DATA" <=> ~Password)
      BY <2>2 DEF Transition
    <3>2. pc' = "AUTH_SEND" \/ (pc' = "AUTH_OK" /\ ota_state' = "DATA")
      BY <2>2, <3>1, SwitchAssumption DEF AfterFeatures
    <3>3. TypeOK'
      BY <2>2, <3>1, <3>2, Lengths DEF TypeOK, Transition, OTAState, Handshake, DataLabel
    <3> QED
      BY <1>2, <1>4, <2>2, <3>1, <3>2, <3>3 DEF Handshake
  <2> QED
    BY <1>10, <2>1, <2>2 DEF FeatureAck
<1>11. CASE AuthSend /\ ~Refuse
  <2>1. /\ auth_nonce' \in Nonce \cup {NoNonce}
        /\ \/ Transition("AUTH_READ") /\ pc' = "AUTH_READ"
           \/ out' \in {out, 1} /\ pc' = "main" /\ UNCHANGED <<ota_state, hs_buf>>
        /\ UNCHANGED <<dev, wakeVars, netVars, client, ota_features, auth_in,
                       proved, backend, dataVars, elapsed, boot>>
    BY <1>11 DEF AuthSend, TypeOK
  <2>2. TypeOK'
    <3>1. /\ ota_state' \in OTAState /\ out' \in {0, 1} /\ pc' \in {"main", "AUTH_READ"}
          /\ hs_buf' \in Seq(Value) /\ Len(hs_buf') < Len(Magic)
      BY <2>1, Lengths DEF TypeOK, Transition, OTAState, Handshake
    <3> QED
      BY <2>1, <3>1 DEF TypeOK, Handshake
  <2> QED
    BY <1>2, <1>4, <2>1, <2>2 DEF InSession, Transition, Handshake
<1>12. CASE AuthRead /\ ~Refuse
  <2> DEFINE got == auth_in \o Taken(AuthLen - Len(auth_in))
  <2>1. CASE ReadBlocks /\ pc' = "main"
             /\ UNCHANGED <<dev, wakeVars, netVars, sessionVars, dataVars, elapsed, boot>>
    <3>1. TypeOK'
      BY <2>1 DEF TypeOK
    <3> QED
      BY <1>2, <1>4, <2>1, <3>1 DEF InSession
  <2>2. CASE /\ ReadWorks
             /\ \/ /\ ~Complete(got, AuthLen)
                   /\ auth_in' = got
                   /\ pc' = "main"
                   /\ UNCHANGED <<ota_state, hs_buf, out, auth_nonce, proved>>
                \/ /\ Complete(got, AuthLen) /\ Answers(got)
                   /\ CleanupAuth
                   /\ proved' = (got = AuthReply[auth_nonce])
                   /\ Transition("DATA")
                   /\ pc' = "AUTH_OK"
             /\ Take(AuthLen - Len(auth_in))
             /\ UNCHANGED <<dev, wakeVars, queue, link, client, ota_features,
                            backend, dataVars, elapsed, boot>>
    <3>1. /\ got \in Seq(Value) /\ Len(got) \in Nat
          /\ inbox' \in [Conn -> Seq(Value)]
      <4>1. Len(auth_in) <= AuthLen /\ auth_in \in Seq(Value) /\ AuthLen \in Nat
        BY Lengths, LenProperties DEF TypeOK
      <4>2. got \in Seq(Value) /\ inbox' \in [Conn -> Seq(Value)]
        BY <1>2, <2>2, <4>1, CollectedType
      <4> HIDE DEF got
      <4> QED
        BY <4>2, LenProperties
    <3> HIDE DEF got
    <3>2. CASE /\ ~Complete(got, AuthLen)
               /\ auth_in' = got
               /\ pc' = "main"
               /\ UNCHANGED <<ota_state, hs_buf, out, auth_nonce, proved>>
      <4>1. auth_in' \in Seq(Value) /\ Len(auth_in') < AuthLen
        BY <3>1, <3>2, Lengths DEF Complete
      <4>2. TypeOK'
        BY <2>2, <3>1, <3>2, <4>1 DEF TypeOK
      <4> QED
        BY <1>2, <1>4, <2>2, <3>2, <4>2 DEF InSession
    <3>3. CASE /\ Complete(got, AuthLen) /\ Answers(got)
               /\ CleanupAuth
               /\ proved' = (got = AuthReply[auth_nonce])
               /\ Transition("DATA")
               /\ pc' = "AUTH_OK"
      <4>1. proved' = TRUE
        BY <3>3 DEF Answers
      <4>2. TypeOK'
        BY <2>2, <3>1, <3>3, <4>1, Lengths
           DEF TypeOK, Transition, CleanupAuth, OTAState, DataLabel
      <4> QED
        BY <1>2, <1>4, <2>2, <3>3, <4>1, <4>2 DEF Transition
    <3> QED
      BY <2>2, <3>2, <3>3
  <2> QED
    BY <1>12, <2>1, <2>2 DEF AuthRead, ReadNothing
<1> QED
  BY <1>3, <1>6, <1>8, <1>9, <1>10, <1>11, <1>12 DEF HandshakeStep

------------------------------------------------------------------------------
(* The data phase.  All but its ends leave what the handshake found.       *)
LEMMA DataStays ==
  ASSUME client # NoConn, InSession, pc \in DataLabel,
         UNCHANGED <<dev, looping, client, ota_state, proved>>,
         pc' \in DataLabel,
         pc' \in Before => slot' = "closed",
         pc' \in Writing => slot' = "open",
         pc' \in Ended => slot' = "valid",
         pc' = "ERROR" => slot' # "valid",
         \/ data_buf' = <<>>
         \/ pc' = "SIZE" /\ Len(data_buf') < SizeLen
         \/ pc' = "MD5" /\ Len(data_buf') < Md5Len
         \/ pc' = "ERROR"
  PROVE  SessionInv'
<1>1. pc' \notin Writing \cup Ended \cup {"ERROR"} => pc' \in Before
  BY LabelSets
<1>2. pc' # "disable"
  BY LabelSets
<1> QED
  BY <1>1, <1>2 DEF SessionInv, InSession

LEMMA InData ==
  ASSUME TypeOK, SessionInv, pc \in DataLabel
  PROVE  client # NoConn /\ client \in Conn /\ InSession
BY AtClient, LabelSets

(* A field read by readall_: its bytes so far, and the whole of it.        *)
LEMMA FieldType ==
  ASSUME TypeOK, SessionInv, NEW len \in Nat \ {0},
         NEW label \in {"TYPE", "SIZE", "MD5"},
         label = "TYPE" => len = 1, label = "SIZE" => len = SizeLen,
         label = "MD5" => len = Md5Len
  PROVE  /\ ReadField(label, len) => TypeOK' /\ SessionInv'
         /\ FieldRead(label, len) =>
              /\ Field(len) \in Seq(Value) /\ Len(Field(len)) = len
              /\ inbox' \in [Conn -> Seq(Value)]
<1> SUFFICES ASSUME pc = label
             PROVE  /\ ReadField(label, len) => TypeOK' /\ SessionInv'
                    /\ FieldRead(label, len) =>
                         /\ Field(len) \in Seq(Value) /\ Len(Field(len)) = len
                         /\ inbox' \in [Conn -> Seq(Value)]
  BY DEF ReadField, FieldRead, At
<1>1. pc \in DataLabel /\ client # NoConn /\ client \in Conn /\ InSession
  BY InData DEF DataLabel, Writing
<1>2. data_buf \in Seq(Value) /\ Len(data_buf) \in Nat /\ Len(data_buf) < len
  BY <1>1, Lengths, LenProperties DEF InSession, TypeOK
<1>3. ASSUME ReadField(label, len)
      PROVE  TypeOK' /\ SessionInv'
  <2>1. CASE pc' = "ERROR" /\ UNCHANGED <<netVars, data_buf>>
             /\ UNCHANGED <<shakenVars, slotVars, countVars, elapsed>>
    <3>1. TypeOK'
      BY <2>1 DEF shakenVars, TypeOK, DataLabel
    <3>2. slot' # "valid" /\ pc' \notin Before \cup Writing \cup Ended /\ pc' \in DataLabel
      BY <1>1, <2>1 DEF InSession, Before, Writing, Ended, DataLabel
    <3> QED
      BY <1>1, <2>1, <3>1, <3>2, DataStays DEF shakenVars
  <2>2. CASE /\ ~TimedOut(DataTimeout) /\ ReadWorks
             /\ Len(data_buf) + Len(inbox[client]) < len
             /\ data_buf' = data_buf \o inbox[client]
             /\ Take(len)
             /\ UNCHANGED <<queue, link, pc>>
             /\ UNCHANGED <<shakenVars, slotVars, countVars, elapsed>>
    <3>1. data_buf' \in Seq(Value) /\ Len(data_buf') < len
      <4>1. inbox[client] \in Seq(Value)
        BY <1>1 DEF TypeOK
      <4> QED
        BY <1>2, <2>2, <4>1, ConcatProperties
    <3>2. inbox' \in [Conn -> Seq(Value)]
      BY <1>1, <2>2, TakenType
    <3>3. TypeOK'
      BY <2>2, <3>1, <3>2 DEF shakenVars, TypeOK
    <3>4. \/ data_buf' = <<>>
          \/ pc' = "SIZE" /\ Len(data_buf') < SizeLen
          \/ pc' = "MD5" /\ Len(data_buf') < Md5Len
      BY <2>2, <3>1, EmptySeq, LenProperties
    <3> QED
      BY <1>1, <2>2, <3>3, <3>4, DataStays, LabelSets DEF shakenVars, InSession
  <2> QED
    BY <1>3, <2>1, <2>2 DEF ReadField
<1>4. ASSUME FieldRead(label, len)
      PROVE  /\ Field(len) \in Seq(Value) /\ Len(Field(len)) = len
             /\ inbox' \in [Conn -> Seq(Value)]
  BY <1>1, <1>2, <1>4, CollectedType DEF Field, FieldRead
<1> QED
  BY <1>3, <1>4

LEMMA ReadKeeps ==
  ASSUME TypeOK, SessionInv, DataType \/ DataSize \/ DataMd5
  PROVE  TypeOK' /\ SessionInv'
<1>1. /\ 1 \in Nat \ {0} /\ SizeLen \in Nat \ {0} /\ Md5Len \in Nat \ {0}
  BY WireAssumption
<1>2. CASE ReadField("TYPE", 1) \/ ReadField("SIZE", SizeLen) \/ ReadField("MD5", Md5Len)
  BY <1>1, <1>2, FieldType
<1>3. ASSUME NEW label \in {"TYPE", "SIZE", "MD5"}, NEW len \in Nat, FieldRead(label, len)
      PROVE  /\ pc = label /\ pc \in DataLabel
             /\ client # NoConn /\ client \in Conn /\ InSession
             /\ inbox[client] # <<>>
             /\ data_buf' = <<>> /\ elapsed' = 0
             /\ UNCHANGED <<shakenVars, queue, link>>
  <2>1. pc = label /\ pc \in DataLabel
    BY <1>3 DEF FieldRead, At, DataLabel, Writing
  <2> QED
    BY <1>3, <2>1, InData DEF FieldRead, ReadWorks
<1>4. CASE DataType /\ ~ReadField("TYPE", 1)
  <2>1. /\ FieldRead("TYPE", 1) /\ ota_type' = Head(inbox[client]) /\ pc' = "SIZE"
        /\ UNCHANGED <<slotVars, ota_size, total, size_acknowledged>>
    BY <1>4 DEF DataType
  <2>2. /\ inbox' \in [Conn -> Seq(Value)] /\ ota_type' \in Nat
    BY <1>1, <1>3, <2>1, FieldType, HeadType
  <2>3. TypeOK'
    BY <1>3, <2>1, <2>2, Lengths DEF shakenVars, TypeOK, DataLabel
  <2>4. slot' = "closed" /\ pc' \in DataLabel /\ pc' \notin Writing \cup Ended \cup {"ERROR"}
    BY <1>3, <2>1 DEF InSession, DataLabel, Writing, Ended
  <2> QED
    BY <1>3, <2>1, <2>3, <2>4, DataStays DEF shakenVars
<1>5. CASE DataSize /\ ~ReadField("SIZE", SizeLen)
  <2>1. /\ FieldRead("SIZE", SizeLen) /\ ota_size' = SizeOf(Field(SizeLen))
        /\ pc' \in {"BEGIN", "ERROR"}
        /\ UNCHANGED <<slotVars, ota_type, total, size_acknowledged>>
    BY <1>5 DEF DataSize
  <2>2. /\ inbox' \in [Conn -> Seq(Value)]
        /\ Field(SizeLen) \in Seq(Value) /\ Len(Field(SizeLen)) = 2
    BY <1>1, <2>1, FieldType
  <2>3. ota_size' \in Nat
    <3> DEFINE f == Field(SizeLen)
    <3>1. f[1] \in Nat /\ f[2] \in Nat
      <4>1. f[1] \in Value /\ f[2] \in Value
        BY <2>2, ElementOfSeq
      <4> QED
        BY <4>1, Lengths
    <3> HIDE DEF f
    <3>2. f[1] * Radix \in Nat
      BY <3>1, WireAssumption
    <3>3. SizeOf(f) \in Nat
      BY <3>1, <3>2 DEF SizeOf
    <3> QED
      BY <2>1, <3>3 DEF f
  <2>4. TypeOK'
    BY <1>1, <1>3, <2>1, <2>2, <2>3, Lengths DEF shakenVars, TypeOK, DataLabel
  <2>5. slot' = "closed" /\ pc' \in DataLabel /\ pc' \notin Writing \cup Ended
    BY <1>1, <1>3, <2>1 DEF InSession, DataLabel, Writing, Ended
  <2> QED
    BY <1>1, <1>3, <2>1, <2>4, <2>5, DataStays DEF shakenVars
<1>6. CASE DataMd5 /\ ~ReadField("MD5", Md5Len)
  <2>1. /\ FieldRead("MD5", Md5Len) /\ md5' = Field(Md5Len) /\ pc' = "MD5_OK"
        /\ UNCHANGED <<slot, flash, countVars>>
    BY <1>6 DEF DataMd5
  <2>2. inbox' \in [Conn -> Seq(Value)] /\ Field(Md5Len) \in Seq(Value)
    BY <1>1, <2>1, FieldType
  <2>3. TypeOK'
    BY <1>1, <1>3, <2>1, <2>2, Lengths DEF shakenVars, TypeOK, DataLabel, Writing
  <2>4. slot' = "open" /\ pc' \in Writing /\ pc' \in DataLabel
    BY <1>1, <1>3, <2>1 DEF InSession, DataLabel, Writing
  <2> QED
    BY <1>1, <1>3, <2>1, <2>3, <2>4, DataStays, LabelSets DEF shakenVars
<1> QED
  BY <1>2, <1>4, <1>5, <1>6

LEMMA WriteKeeps ==
  ASSUME TypeOK, SessionInv, DataAck \/ DataBegin \/ DataFirmware \/ DataChunkOk
  PROVE  TypeOK' /\ SessionInv'
<1>0. pc \in DataLabel \ {"ERROR"} /\ UNCHANGED shakenVars
  BY DEF DataAck, NextOf, DataBegin, DataFirmware, DataChunkOk, At, DataLabel, Writing,
         Ended
<1>1. client # NoConn /\ client \in Conn /\ InSession
  BY <1>0, InData
<1>2. CASE DataAck
  <2>1. pc \in {"AUTH_OK", "PREPARE_OK", "MD5_OK", "RECEIVE_OK", "END_OK"}
        /\ pc' = NextOf[pc] /\ elapsed' = 0 /\ UNCHANGED <<netVars, dataVars>>
    BY <1>2 DEF DataAck, NextOf
  <2>2. /\ pc = "AUTH_OK" => pc' \in {"TYPE", "SIZE"}
        /\ pc = "PREPARE_OK" => pc' = "MD5"
        /\ pc = "MD5_OK" => pc' = "FIRMWARE"
        /\ pc = "RECEIVE_OK" => pc' = "END"
        /\ pc = "END_OK" => pc' = "ACK"
    BY <2>1 DEF NextOf
  <2>3. pc' \in DataLabel /\ pc' # "ERROR"
        /\ (pc' \in Writing <=> pc \in Writing) /\ (pc' \in Ended <=> pc \in Ended)
    BY <2>1, <2>2 DEF DataLabel, Writing, Ended
  <2>4. data_buf = <<>>
    BY <1>1, <2>1 DEF InSession
  <2>5. TypeOK'
    BY <1>0, <2>1, <2>3, Lengths DEF shakenVars, TypeOK
  <2>6. pc' \in Before => slot' = "closed"
    BY <1>0, <1>1, <2>1, <2>3, LabelSets DEF InSession
  <2> QED
    BY <1>0, <1>1, <2>1, <2>3, <2>4, <2>5, <2>6, DataStays DEF shakenVars, InSession
<1>3. CASE DataBegin
  <2>1. pc = "BEGIN" /\ slot = "closed" /\ data_buf = <<>>
    BY <1>1, <1>3 DEF DataBegin, At, InSession, Writing, Ended
  <2>2. CASE pc' = "ERROR" /\ UNCHANGED slotVars
    <3>1. TypeOK'
      BY <1>0, <1>3, <2>2 DEF DataBegin, shakenVars, TypeOK, DataLabel
    <3> QED
      BY <1>0, <1>1, <1>3, <2>1, <2>2, <3>1, DataStays, LabelSets
         DEF DataBegin, shakenVars, DataLabel
  <2>3. CASE slot' = "open" /\ md5' = <<>> /\ flash' = <<>> /\ pc' = "PREPARE_OK"
    <3>1. TypeOK'
      BY <1>0, <1>3, <2>3, Lengths DEF DataBegin, shakenVars, TypeOK, DataLabel, Writing
    <3>2. pc' \in DataLabel /\ pc' \in Writing
      BY <2>3 DEF DataLabel, Writing
    <3> QED
      BY <1>0, <1>1, <1>3, <2>1, <2>3, <3>1, <3>2, DataStays, LabelSets
         DEF DataBegin, shakenVars
  <2> QED
    BY <1>3, <2>2, <2>3 DEF DataBegin
<1>4. CASE DataFirmware
  <2> DEFINE n == Lesser(ota_size - total, BufSize)
  <2>1. pc = "FIRMWARE" /\ slot = "open" /\ data_buf = <<>>
        /\ ota_size \in Nat /\ total \in Nat
    BY <1>1, <1>4 DEF DataFirmware, At, InSession, Writing, TypeOK
  <2>2. /\ pc' \in {"RECEIVE_OK", "ERROR", "CHUNK_OK", "FIRMWARE"}
        /\ UNCHANGED <<shakenVars, queue, link, slot, md5, ota_type, ota_size,
                       size_acknowledged, data_buf>>
    BY <1>4 DEF DataFirmware
  <2>3. /\ inbox' \in [Conn -> Seq(Value)] /\ flash' \in Seq(Value) /\ total' \in Nat
        /\ elapsed' \in 0 .. TimeCap
    <3>1. CASE UNCHANGED <<inbox, flash, total, elapsed>>
      BY <3>1 DEF TypeOK
    <3>2. CASE /\ total < ota_size
               /\ flash' = flash \o Taken(n)
               /\ total' = total + Len(Taken(n))
               /\ Take(n)
               /\ elapsed' = 0
      <4>1. n \in Nat
        BY <2>1, <3>2, LimitAssumption DEF Lesser
      <4>2. Taken(n) \in Seq(Value) /\ inbox' \in [Conn -> Seq(Value)]
        BY <1>1, <3>2, <4>1, TakenType
      <4> HIDE DEF n
      <4>3. flash \o Taken(n) \in Seq(Value) /\ Len(Taken(n)) \in Nat
        BY <4>2, ConcatProperties, LenProperties DEF TypeOK
      <4> QED
        BY <2>1, <3>2, <4>2, <4>3, Lengths
    <3> QED
      BY <1>4, <3>1, <3>2 DEF DataFirmware
  <2>4. TypeOK'
    BY <2>2, <2>3 DEF shakenVars, TypeOK, DataLabel, Writing
  <2>5. pc' \in DataLabel /\ pc' \in Writing \cup {"ERROR"}
    BY <2>2 DEF DataLabel, Writing
  <2> QED
    BY <1>0, <1>1, <2>1, <2>2, <2>4, <2>5, DataStays, LabelSets DEF shakenVars
<1>5. CASE DataChunkOk
  <2>1. pc = "CHUNK_OK" /\ slot = "open" /\ data_buf = <<>>
    BY <1>1, <1>5 DEF DataChunkOk, At, InSession, Writing
  <2>2. pc' \in {"CHUNK_OK", "FIRMWARE"} /\ size_acknowledged' \in Nat
    BY <1>5, <2>1, LimitAssumption DEF DataChunkOk, TypeOK
  <2>3. TypeOK'
    BY <1>5, <2>2 DEF DataChunkOk, shakenVars, TypeOK, DataLabel, Writing
  <2>4. pc' \in DataLabel /\ pc' \in Writing
    BY <2>2 DEF DataLabel, Writing
  <2> QED
    BY <1>0, <1>1, <1>5, <2>1, <2>3, <2>4, DataStays, LabelSets
       DEF DataChunkOk, shakenVars
<1> QED
  BY <1>2, <1>3, <1>4, <1>5

LEMMA EndKeeps ==
  ASSUME TypeOK, SessionInv, DataEnd \/ DataFinalAck \/ DataReboot \/ DataError
  PROVE  TypeOK' /\ SessionInv'
<1>0. pc \in DataLabel
  BY DEF DataEnd, DataFinalAck, DataReboot, DataError, At, DataLabel, Writing, Ended
<1>1. client # NoConn /\ client \in Conn /\ InSession
  BY <1>0, InData
<1>2. CASE DataEnd
  <2>1. slot = "open" /\ data_buf = <<>>
    BY <1>1, <1>2 DEF DataEnd, At, InSession, Writing
  <2>2. \/ pc' = "ERROR" /\ slot' = "open" /\ boot' = boot
        \/ pc' = "END_OK" /\ slot' = "valid" /\ boot' = flash
    BY <1>2, <2>1 DEF DataEnd
  <2>3. pc' \in DataLabel /\ pc' \notin Before \cup Writing
    BY <2>2 DEF DataLabel, Before, Writing, Ended
  <2>4. TypeOK'
    BY <1>2, <2>2, <2>3 DEF DataEnd, TypeOK
  <2> QED
    BY <1>0, <1>1, <1>2, <2>1, <2>2, <2>3, <2>4, DataStays, LabelSets
       DEF DataEnd, Ended
<1>3. CASE DataFinalAck
  <2>1. slot = "valid" /\ data_buf = <<>>
    BY <1>1, <1>3 DEF DataFinalAck, At, InSession, Ended
  <2>2. inbox' \in [Conn -> Seq(Value)]
    BY <1>1, <1>3, TakenType DEF DataFinalAck, TypeOK
  <2>3. TypeOK'
    BY <1>3, <2>2 DEF DataFinalAck, shakenVars, TypeOK, DataLabel, Ended
  <2>4. pc' \in DataLabel /\ pc' \in Ended
    BY <1>3 DEF DataFinalAck, DataLabel, Ended
  <2> QED
    BY <1>0, <1>1, <1>3, <2>1, <2>3, <2>4, DataStays, LabelSets
       DEF DataFinalAck, shakenVars
<1>4. CASE DataReboot
  <2>1. slot = "valid"
    BY <1>1, <1>4 DEF DataReboot, At, InSession, Ended
  <2>2. TypeOK'
    BY <1>4, CleanupType DEF DataReboot, TypeOK
  <2> QED
    BY <1>1, <1>4, <2>1, <2>2, CleanupInv DEF DataReboot
<1>5. CASE DataError
  <2>1. CleanupConnection /\ dev' = dev /\ slot' = "closed" /\ md5' = <<>> /\ flash' = <<>>
    BY <1>5 DEF DataError, Abort, CloseSlot
  <2>2. TypeOK'
    BY <2>1, CleanupType, Lengths
  <2> QED
    BY <1>1, <2>1, <2>2, CleanupInv
<1> QED
  BY <1>2, <1>3, <1>4, <1>5

------------------------------------------------------------------------------
LEMMA StepKeeps ==
  ASSUME TypeOK, SessionInv, [Next]_vars
  PROVE  TypeOK' /\ SessionInv'
<1>1. CASE UNCHANGED vars
  BY <1>1 DEF vars, TypeOK, SessionInv, NoSession, InSession
<1>2. CASE Device
  BY <1>2, OutsideKeeps, LoopKeeps, HandshakeKeeps, ReadKeeps, WriteKeeps, EndKeeps
     DEF Device, DataStep
<1>3. CASE Reset \/ Tick
  BY <1>3, OutsideKeeps
<1>4. CASE \E c \in Conn : Peer(c)
  BY <1>4, PeerKeeps
<1> QED
  BY <1>1, <1>2, <1>3, <1>4 DEF Next

LEMMA SessionInvariant == Spec => [](TypeOK /\ SessionInv)
BY InitKeeps, StepKeeps, PTL DEF Spec

(* Every variable keeps its type and no buffer outgrows its array,         *)
(* whatever the peers send (ota_esphome.h, loop() and handle_data_).       *)
THEOREM TypeCorrect == Spec => []TypeOK
BY SessionInvariant, PTL

(* No return of handle_data_ leaves the flash slot open.                   *)
THEOREM SlotCorrect == Spec => []SlotNotLeaked
<1>1. SessionInv => SlotNotLeaked
  BY DEF SessionInv, NoSession, InSession, SlotNotLeaked, Writing, Ended
<1> QED
  BY <1>1, SessionInvariant, PTL

(* cleanup_connection_ leaves nothing to the next session, and nothing of  *)
(* a session comes into being without a client.                            *)
THEOREM IdleCorrect == Spec => []IdleIsClean
<1>1. SessionInv => IdleIsClean
  BY DEF SessionInv, NoSession, IdleIsClean
<1> QED
  BY <1>1, SessionInvariant, PTL
------------------------------------------------------------------------------
(* The listener's wake-up.                                                 *)
LEMMA CleanupWakes ==
  ASSUME InSession, CleanupConnection
  PROVE  WakeInv'
<1>1. looping' /\ pc' = "main"
  BY DEF InSession, CleanupConnection, CleanupLooping
<1> QED
  BY <1>1 DEF WakeInv, NoLostWake

LEMMA WakeStep ==
  ASSUME TypeOK, SessionInv, WakeInv, [Next]_vars
  PROVE  WakeInv'
<1>1. CASE UNCHANGED vars
  BY <1>1 DEF vars, WakeInv, NoLostWake
<1>2. CASE Setup \/ Reset \/ Tick
  BY <1>2 DEF Setup, Reset, Tick, WakeInv, NoLostWake
<1>3. ASSUME NEW c \in Conn, Peer(c)
      PROVE  WakeInv'
  <2>1. CASE wake' = TRUE /\ dev = "run" /\ UNCHANGED peerUnchanged
    BY <2>1 DEF peerUnchanged, WakeInv, NoLostWake
  <2>2. CASE UNCHANGED <<queue, wake, peerUnchanged>>
    BY <2>2 DEF peerUnchanged, WakeInv, NoLostWake
  <2> QED
    BY <1>3, <2>1, <2>2 DEF Peer, Connect, Receive, PeerCloses, PeerResets
<1>4. CASE EnablePendingLoops \/ LoopIdle \/ DisableLoop \/ AcceptNothing \/ Accept
  BY <1>4 DEF EnablePendingLoops, LoopIdle, NobodyWaits, DisableLoop, AcceptNothing,
              Accept, AtLoop, Transition, WakeInv, NoLostWake
<1>5. CASE LoopStep \/ HandshakeStep \/ DataStep
  <2>1. client # NoConn /\ InSession
    <3>1. CASE LoopStep
      BY <3>1 DEF LoopStep, SessionInv
    <3>2. CASE HandshakeStep
      <4>1. pc \in Handshake
        BY <3>2 DEF HandshakeStep, MagicRead, MagicAck, FeatureRead, FeatureAck, AuthSend,
                    AuthRead, At, Handshake
      <4> QED
        BY <4>1, AtClient, LabelSets
    <3>3. CASE DataStep
      <4>1. pc \in DataLabel
        BY <3>3 DEF DataStep, DataAck, NextOf, DataType, DataSize, ReadField, FieldRead,
                    DataBegin, DataMd5, DataFirmware, DataChunkOk, DataEnd,
                    DataFinalAck, DataReboot, DataError, At, DataLabel, Writing, Ended
      <4> QED
        BY <4>1, InData
    <3> QED
      BY <1>5, <3>1, <3>2, <3>3
  <2>2. SessionInv'
    BY <1>5, StepKeeps DEF Next, Device
  (* A session that goes on keeps the loop enabled, one that ends does too. *)
  <2>3. CASE client' # NoConn
    BY <2>2, <2>3 DEF SessionInv, InSession, WakeInv, NoLostWake
  <2>4. CASE client' = NoConn
    <3>1. CleanupConnection
      BY <1>5, <2>1, <2>4
         DEF LoopStep, HandshakeStep, MagicRead, MagicAck, FeatureRead, FeatureAck,
             AuthSend, AuthRead, ReadNothing, WriteNotAll, Refuse, DataStep, DataAck,
             DataType, DataSize, ReadField, FieldRead, DataBegin, DataMd5,
             DataFirmware, DataChunkOk, DataEnd, DataFinalAck, DataReboot, DataError,
             shakenVars
    <3> QED
      BY <2>1, <3>1, CleanupWakes
  <2> QED
    BY <2>3, <2>4
<1> QED
  BY <1>1, <1>2, <1>3, <1>4, <1>5 DEF Next, Device

LEMMA WakeInvariant == Spec => []WakeInv
<1>1. Init => WakeInv
  BY DEF Init, WakeInv, NoLostWake
<1> QED
  BY <1>1, WakeStep, SessionInvariant, PTL DEF Spec

(* A connection that waits while nobody is served is not slept on, whether *)
(* it came during a session, between the last look at the listener and     *)
(* disable_loop(), or to a component that was asleep.                      *)
THEOREM WakeCorrect == Spec => []NoLostWake
<1>1. WakeInv => NoLostWake
  BY DEF WakeInv
<1> QED
  BY <1>1, WakeInvariant, PTL
------------------------------------------------------------------------------
(* What a step can do to the update, and to what OtaUpdate sees of it.     *)

UpdateView == <<client, proved, slot, flash, total, size_acknowledged, boot>>

(* Where control goes in a step that leaves the update as it is.           *)
Moves ==
  \/ pc' = pc
  \/ pc \notin DataLabel /\ pc' \notin DataLabel
  \/ pc \in DataLabel /\ pc' = "ERROR"
  \/ pc = "AUTH_OK" /\ pc' \in {"TYPE", "SIZE"}
  \/ pc = "TYPE" /\ pc' = "SIZE"
  \/ pc = "SIZE" /\ pc' = "BEGIN"
  \/ pc = "PREPARE_OK" /\ pc' = "MD5"
  \/ pc = "MD5" /\ pc' = "MD5_OK"
  \/ pc = "MD5_OK" /\ pc' = "FIRMWARE"
  \/ pc = "CHUNK_OK" /\ ~ChunkDue /\ pc' = "FIRMWARE"
  \/ pc = "FIRMWARE" /\ total >= ota_size /\ pc' = "RECEIVE_OK"
  \/ pc = "RECEIVE_OK" /\ pc' = "END"
  \/ pc = "END_OK" /\ pc' = "ACK"
  \/ pc = "ACK" /\ pc' = "REBOOT"

Keeps ==
  /\ UNCHANGED UpdateView
  /\ Moves
  /\ slot # "closed" => UNCHANGED ota_size

Closes ==
  /\ client' = NoConn /\ pc' = "main" /\ proved' = FALSE
  /\ total' = 0 /\ size_acknowledged' = 0
  /\ UNCHANGED boot

Opens ==
  /\ client = NoConn /\ client' # NoConn
  /\ pc' = "MAGIC_READ"
  /\ UNCHANGED <<proved, slot, flash, total, size_acknowledged, boot>>

Grants ==
  /\ client # NoConn /\ pc \notin DataLabel
  /\ pc' = "AUTH_OK"
  /\ Password => proved'
  /\ UNCHANGED <<client, slot, flash, total, size_acknowledged, boot>>

Begins ==
  /\ client # NoConn /\ pc = "BEGIN" /\ pc' = "PREPARE_OK"
  /\ slot' = "open" /\ flash' = <<>>
  /\ UNCHANGED <<client, proved, ota_size, total, size_acknowledged, boot>>

Writes ==
  /\ client # NoConn /\ pc = "FIRMWARE" /\ total < ota_size
  /\ \E chunk \in Seq(Value) :
       /\ 0 < Len(chunk) /\ Len(chunk) <= ota_size - total
       /\ flash' = flash \o chunk
       /\ total' = total + Len(chunk)
  /\ pc' = IF Version = 2 THEN "CHUNK_OK" ELSE "FIRMWARE"
  /\ UNCHANGED <<client, proved, slot, ota_size, size_acknowledged, boot>>

Acknowledges ==
  /\ client # NoConn /\ pc = "CHUNK_OK" /\ ChunkDue
  /\ size_acknowledged' = size_acknowledged + BlockSize
  /\ UNCHANGED <<pc, client, proved, slot, flash, total, ota_size, boot>>

Commits ==
  /\ client # NoConn /\ pc = "END" /\ ImageAccepted
  /\ pc' = "END_OK" /\ slot' = "valid" /\ boot' = flash
  /\ UNCHANGED <<client, proved, flash, total, ota_size, size_acknowledged>>

Effect ==
  \/ Closes \/ Keeps \/ Opens \/ Grants \/ Begins \/ Writes \/ Acknowledges
  \/ Commits

LEMMA CleanupCloses == CleanupConnection => Effect
BY DEF CleanupConnection, LeaveData, Effect, Closes

LEMMA OutsideEffect ==
  ASSUME TypeOK, SessionInv,
         \/ Setup \/ Reset \/ Tick \/ EnablePendingLoops \/ LoopIdle
         \/ DisableLoop \/ AcceptNothing \/ \E c \in Conn : Peer(c)
  PROVE  Effect
<1>1. CASE Reset
  BY <1>1 DEF Reset, LeaveData, Effect, Closes
<1>2. CASE Setup \/ Tick \/ EnablePendingLoops \/ AcceptNothing
  BY <1>2 DEF Setup, Tick, EnablePendingLoops, AcceptNothing, Effect, Keeps, Moves,
              UpdateView
<1>3. CASE LoopIdle \/ DisableLoop
  <2>1. pc \notin DataLabel /\ pc' \notin DataLabel
    BY <1>3, LabelSets DEF LoopIdle, AtLoop, DisableLoop
  <2> QED
    BY <1>3, <2>1 DEF LoopIdle, DisableLoop, Effect, Keeps, Moves, UpdateView
<1>4. CASE \E c \in Conn : Peer(c)
  <2>1. UNCHANGED peerUnchanged
    BY <1>4 DEF Peer, Connect, Receive, PeerCloses, PeerResets
  <2> QED
    BY <2>1 DEF peerUnchanged, Effect, Keeps, Moves, UpdateView
<1> QED
  BY <1>1, <1>2, <1>3, <1>4

LEMMA HandshakeEffect ==
  ASSUME TypeOK, SessionInv, Accept \/ LoopStep \/ HandshakeStep
  PROVE  Effect
<1>1. CASE Refuse
  BY <1>1, CleanupCloses DEF Refuse
<1>2. CASE Accept
  <2>1. client = NoConn /\ queue # <<>> /\ pc \notin DataLabel
    BY <1>2, LabelSets DEF Accept, AtLoop
  <2>2. Head(queue) # NoConn
    BY <2>1, QueueTail, ConnAssumption
  <2> QED
    BY <1>2, <2>1, <2>2 DEF Accept, Effect, Opens, Keeps, Moves, UpdateView
(* The rest is done by a session that is not granted yet. *)
<1>3. ASSUME client # NoConn, pc \notin DataLabel,
             UNCHANGED <<client, dataVars, boot>>,
             \/ pc' \notin DataLabel /\ UNCHANGED proved
             \/ pc' = "AUTH_OK" /\ (Password => proved')
      PROVE  Effect
  BY <1>3 DEF Effect, Keeps, Moves, UpdateView, Grants
<1>4. CASE LoopStep /\ ~Refuse
  <2>1. client # NoConn /\ pc \notin DataLabel /\ InSession
    BY <1>4, LabelSets DEF LoopStep, AtLoop, SessionInv
  <2>2. \/ pc' = "AUTH_OK" /\ (Password => proved')
        \/ pc' \notin DataLabel
    BY <1>4, <2>1, LabelSets DEF LoopStep, InSession, TypeOK, OTAState
  <2> QED
    BY <1>3, <1>4, <2>1, <2>2 DEF LoopStep
<1>5. CASE HandshakeStep /\ ~Refuse
  <2>1. pc \in Handshake
    BY <1>5 DEF HandshakeStep, MagicRead, MagicAck, FeatureRead, FeatureAck, AuthSend,
                AuthRead, At, Handshake
  <2>2. client # NoConn /\ pc \notin DataLabel
    BY <2>1, AtClient, LabelSets
  <2>3. UNCHANGED <<client, dataVars, boot>>
    BY <1>5 DEF HandshakeStep, MagicRead, MagicAck, FeatureRead, FeatureAck, AuthSend,
                AuthRead, ReadNothing, WriteNotAll
  <2>4. \/ pc' \in {"main"} \cup Handshake /\ UNCHANGED proved
        \/ pc' = "AUTH_OK" /\ (Password => proved')
    <3>1. CASE MagicRead \/ MagicAck \/ FeatureRead \/ AuthSend
      BY <1>5, <3>1 DEF MagicRead, MagicAck, FeatureRead, AuthSend, ReadNothing,
                        WriteNotAll, Handshake
    <3>2. CASE FeatureAck
      BY <1>5, <3>2, SwitchAssumption
         DEF FeatureAck, WriteNotAll, AfterFeatures, Handshake
    <3>3. CASE AuthRead
      BY <1>5, <3>3 DEF AuthRead, ReadNothing, Answers, Handshake
    <3> QED
      BY <1>5, <3>1, <3>2, <3>3 DEF HandshakeStep
  <2> QED
    BY <1>3, <2>2, <2>3, <2>4, LabelSets
<1> QED
  BY <1>1, <1>2, <1>4, <1>5

LEMMA DataEffect ==
  ASSUME TypeOK, SessionInv, DataStep
  PROVE  Effect
<1>0. pc \in DataLabel /\ client # NoConn /\ client \in Conn /\ InSession
  <2>1. pc \in DataLabel
    BY DEF DataStep, DataAck, NextOf, DataType, DataSize, ReadField, FieldRead,
           DataBegin, DataMd5, DataFirmware, DataChunkOk, DataEnd,
           DataFinalAck, DataReboot, DataError, At, DataLabel, Writing, Ended
  <2> QED
    BY <2>1, InData
<1>1. CASE DataReboot \/ DataError
  BY <1>1, CleanupCloses DEF DataReboot, DataError
<1>2. CASE DataAck
  <2>1. Moves
    BY <1>2 DEF DataAck, NextOf, Moves
  <2> QED
    BY <1>2, <2>1 DEF DataAck, shakenVars, Effect, Keeps, UpdateView
<1>3. CASE DataType \/ DataSize \/ DataMd5
  <2>1. Moves
    BY <1>0, <1>3 DEF DataType, DataSize, DataMd5, ReadField, FieldRead, At, Moves
  <2>2. slot # "closed" => UNCHANGED ota_size
    BY <1>0, <1>3 DEF DataType, DataSize, DataMd5, ReadField, FieldRead, At,
                      InSession, Writing, Ended
  <2>3. UNCHANGED UpdateView
    BY <1>3 DEF DataType, DataSize, DataMd5, ReadField, FieldRead, shakenVars,
                UpdateView
  <2> QED
    BY <2>1, <2>2, <2>3 DEF Effect, Keeps
<1>4. CASE DataBegin
  BY <1>0, <1>4 DEF DataBegin, At, shakenVars, Effect, Begins, Keeps, Moves, UpdateView
<1>5. CASE DataFirmware
  <2> DEFINE n == Lesser(ota_size - total, BufSize)
  <2>0. pc = "FIRMWARE" /\ UNCHANGED <<shakenVars, slot, ota_size, size_acknowledged>>
    BY <1>5 DEF DataFirmware, At
  <2>1. CASE pc' \in {"ERROR", "RECEIVE_OK"} /\ UNCHANGED <<flash, total>>
             /\ (pc' = "RECEIVE_OK" => total >= ota_size)
    <3>1. Moves
      BY <1>0, <2>0, <2>1 DEF Moves
    <3> QED
      BY <2>0, <2>1, <3>1 DEF shakenVars, Effect, Keeps, UpdateView
  <2>2. CASE /\ total < ota_size
             /\ ReadWorks
             /\ flash' = flash \o Taken(n)
             /\ total' = total + Len(Taken(n))
             /\ pc' = IF Version = 2 THEN "CHUNK_OK" ELSE "FIRMWARE"
    <3>1. n \in Nat /\ 0 < n /\ n <= ota_size - total
      BY <2>2, LimitAssumption DEF Lesser, TypeOK
    <3>2. inbox[client] \in Seq(Value) /\ inbox[client] # <<>>
      BY <1>0, <2>2 DEF ReadWorks, TypeOK
    <3>3. Len(inbox[client]) \in Nat /\ 0 < Len(inbox[client])
      BY <3>2, EmptySeq, LenProperties
    <3>4. /\ Taken(n) \in Seq(Value) /\ Len(Taken(n)) = Lesser(n, Len(inbox[client]))
      BY <1>0, <3>1, TakenType
    <3> HIDE DEF n
    <3>5. 0 < Len(Taken(n)) /\ Len(Taken(n)) <= ota_size - total
      BY <3>1, <3>3, <3>4 DEF Lesser, TypeOK
    <3> QED
      BY <1>0, <2>0, <2>2, <3>4, <3>5 DEF shakenVars, Effect, Writes
  <2> QED
    BY <1>5, <2>1, <2>2 DEF DataFirmware
<1>6. CASE DataChunkOk
  BY <1>0, <1>6 DEF DataChunkOk, At, shakenVars, Effect, Acknowledges, Keeps, Moves,
                    UpdateView
<1>7. CASE DataEnd
  BY <1>0, <1>7 DEF DataEnd, At, Effect, Commits, Keeps, Moves, UpdateView
<1>8. CASE DataFinalAck
  BY <1>0, <1>8 DEF DataFinalAck, At, shakenVars, Effect, Keeps, Moves, UpdateView
<1> QED
  BY <1>1, <1>2, <1>3, <1>4, <1>5, <1>6, <1>7, <1>8 DEF DataStep

(* Every step of the node and of its peers has one of these effects.       *)
LEMMA StepEffect ==
  ASSUME TypeOK, SessionInv, [Next]_vars
  PROVE  Effect
<1>1. CASE UNCHANGED vars
  BY <1>1 DEF vars, Effect, Keeps, Moves, UpdateView
<1> QED
  BY <1>1, OutsideEffect, HandshakeEffect, DataEffect DEF Next, Device
------------------------------------------------------------------------------
(* Progress: what the counters say about the slot.                         *)
LEMMA ProgressStep ==
  ASSUME TypeOK, SessionInv, ProgressInv, Effect
  PROVE  ProgressInv'
<1>0. /\ total \in Nat /\ ota_size \in Nat /\ size_acknowledged \in Nat
      /\ flash \in Seq(Value) /\ Len(flash) \in Nat /\ BlockSize \in Nat \ {0}
      /\ Version \in {1, 2}
  BY LimitAssumption, LenProperties DEF TypeOK
<1> USE DEF ProgressInv, Counted, ChunksAreTrue, Full, Writing, Ended
<1>1. CASE Closes
  BY <1>1 DEF Closes
<1>2. CASE Keeps
  <2>0. UNCHANGED <<flash, total, size_acknowledged>>
    BY <1>2 DEF Keeps, UpdateView
  <2>1. pc' \in Writing \cup Ended => UNCHANGED ota_size
    <3>1. pc' \in Writing \cup Ended => pc \in Writing \cup Ended
      BY <1>2 DEF Keeps, Moves, DataLabel
    <3>2. pc \in DataLabel => client # NoConn /\ InSession
      BY InData
    <3> QED
      BY <1>2, <3>1, <3>2 DEF Keeps, InSession, DataLabel
  <2>2. CASE pc' = pc
    BY <2>0, <2>1, <2>2
  <2>3. CASE pc \notin DataLabel /\ pc' \notin DataLabel
    BY <2>0, <2>3 DEF DataLabel
  <2>4. CASE pc = "CHUNK_OK" /\ ~ChunkDue /\ pc' = "FIRMWARE"
    BY <1>0, <2>0, <2>1, <2>4 DEF ChunkDue
  <2>5. CASE pc = "FIRMWARE" /\ total >= ota_size /\ pc' = "RECEIVE_OK"
    BY <1>0, <2>0, <2>1, <2>5
  <2>6. CASE pc = "MD5_OK" /\ pc' = "FIRMWARE"
    BY <1>0, <2>0, <2>1, <2>6, EmptySeq
  <2> QED
    BY <1>2, <2>0, <2>1, <2>2, <2>3, <2>4, <2>5, <2>6 DEF Keeps, Moves
<1>3. CASE Opens
  <2>1. pc \notin Writing \cup Ended \cup {"ERROR"}
    BY <1>3 DEF Opens, SessionInv, NoSession
  <2> QED
    BY <1>3, <2>1 DEF Opens
<1>4. CASE Grants
  BY <1>4 DEF Grants, DataLabel
<1>5. CASE Begins
  BY <1>5 DEF Begins
<1>6. CASE Writes
  <2>1. PICK chunk \in Seq(Value) :
          /\ 0 < Len(chunk) /\ Len(chunk) <= ota_size - total
          /\ flash' = flash \o chunk
          /\ total' = total + Len(chunk)
    BY <1>6 DEF Writes
  <2>2. Len(flash') = Len(flash) + Len(chunk) /\ Len(chunk) \in Nat
    BY <1>0, <2>1, ConcatProperties, LenProperties
  <2>3. /\ total = Len(flash) /\ total < ota_size /\ size_acknowledged <= total
    BY <1>0, <1>6 DEF Writes
  <2>4. /\ total' = Len(flash') /\ total' <= ota_size
        /\ size_acknowledged < total'
    BY <1>0, <2>1, <2>2, <2>3
  <2> QED
    BY <1>0, <1>6, <2>4 DEF Writes
<1>7. CASE Acknowledges
  BY <1>0, <1>7 DEF Acknowledges, ChunkDue
<1>8. CASE Commits
  BY <1>8 DEF Commits
<1> QED
  BY <1>1, <1>2, <1>3, <1>4, <1>5, <1>6, <1>7, <1>8 DEF Effect

LEMMA ProgressInvariant == Spec => []ProgressInv
<1>1. Init => ProgressInv
  BY DEF Init, ProgressInv, ChunksAreTrue, Full, Writing, Ended
<1>2. TypeOK /\ SessionInv /\ ProgressInv /\ [Next]_vars => ProgressInv'
  BY StepEffect, ProgressStep
<1> QED
  BY <1>1, <1>2, SessionInvariant, PTL DEF Spec

(* total is what the slot holds, CHUNK_OK never speaks for bytes that have *)
(* not been written, and none is left to send when the image is complete.  *)
THEOREM ChunksCorrect == Spec => []ChunksAreTrue
<1>1. ProgressInv => ChunksAreTrue
  BY DEF ProgressInv
<1> QED
  BY <1>1, ProgressInvariant, PTL

------------------------------------------------------------------------------
(* Refinement: over TCP the node is an implementation of OtaUpdate.        *)

PhaseFacts ==
  /\ AbsPhase = "idle" <=> client = NoConn
  /\ AbsPhase = "greeting" <=> client # NoConn /\ pc \notin DataLabel
  /\ AbsPhase = "granted" <=> client # NoConn /\ pc \in DataLabel /\ slot = "closed"
  /\ AbsPhase = "writing" <=> client # NoConn /\ pc \in DataLabel /\ slot = "open"
  /\ AbsPhase = "ended" <=> client # NoConn /\ pc \in DataLabel /\ slot = "valid"

LEMMA PhaseCases ==
  /\ TypeOK => PhaseFacts
  /\ TypeOK' => PhaseFacts'
BY DEF TypeOK, PhaseFacts, AbsPhase

AbsSize == IF Updating THEN ota_size ELSE 0
AbsSlot == IF Updating THEN flash ELSE <<>>

LEMMA ConcatPrefix ==
  ASSUME NEW S, NEW s \in Seq(S), NEW t \in Seq(S)
  PROVE  SubSeq(s \o t, 1, Len(s)) = s
<1>1. CASE s = <<>>
  BY <1>1, SubSeqEmpty, EmptySeq
<1>2. CASE s # <<>>
  <2>1. 1 \in 1 .. Len(s) /\ Len(s) \in 1 .. Len(s)
    BY <1>2, EmptySeq
  <2> QED
    BY <2>1, SubSeqOfConcat1, SubSeqFull
<1> QED
  BY <1>1, <1>2

LEMMA EffectRefines ==
  ASSUME TypeOK, TypeOK', SessionInv, SessionInv', ProgressInv, Effect
  PROVE  [Abs!UNext]_(Abs!uvars)
<1>0. PhaseFacts /\ PhaseFacts'
  BY PhaseCases
<1>1. Abs!uvars = <<AbsPhase, proved, AbsSize, AbsSlot, boot>>
  BY DEF Abs!uvars, AbsSize, AbsSlot
<1>2. client # NoConn => InSession
  BY DEF SessionInv
<1>3. CASE Closes
  <2>1. AbsPhase' = "idle" /\ AbsSize' = 0 /\ AbsSlot' = <<>>
    BY <1>0, <1>3 DEF Closes, PhaseFacts, Updating, AbsSize, AbsSlot
  <2> QED
    BY <1>3, <2>1 DEF Closes, Abs!UNext, Abs!Close, AbsSize, AbsSlot
<1>4. CASE Keeps
  <2>1. pc \in DataLabel <=> pc' \in DataLabel
    BY <1>4 DEF Keeps, Moves, DataLabel, Writing, Ended
  <2>2. UNCHANGED <<client, slot, flash, proved, boot>>
    BY <1>4 DEF Keeps, UpdateView
  <2>3. AbsPhase' = AbsPhase
    BY <2>1, <2>2 DEF AbsPhase
  <2>4. Updating => UNCHANGED ota_size
    BY <1>0, <1>4 DEF Keeps, PhaseFacts, Updating
  <2>5. UNCHANGED <<AbsSize, AbsSlot>>
    BY <2>2, <2>3, <2>4 DEF Updating, AbsSize, AbsSlot
  <2> QED
    BY <1>1, <2>2, <2>3, <2>5 DEF Abs!uvars, AbsSize, AbsSlot
<1>5. CASE Opens
  <2>1. AbsPhase = "idle" /\ AbsPhase' = "greeting"
    BY <1>0, <1>5, LabelSets DEF Opens, PhaseFacts, Handshake
  <2>2. UNCHANGED <<proved, AbsSize, AbsSlot, boot>>
    BY <1>5, <2>1 DEF Opens, Updating, AbsSize, AbsSlot
  <2> QED
    BY <2>1, <2>2 DEF Abs!UNext, Abs!Greet, AbsSize, AbsSlot
<1>6. CASE Grants
  <2>1. slot = "closed" /\ "AUTH_OK" \in DataLabel
    BY <1>2, <1>6 DEF Grants, InSession, DataLabel, Writing, Ended
  <2>2. AbsPhase = "greeting" /\ AbsPhase' = "granted"
    BY <1>0, <1>6, <2>1 DEF Grants, PhaseFacts
  <2>3. UNCHANGED <<AbsSize, AbsSlot, boot>> /\ proved' \in BOOLEAN
    BY <1>6, <2>2 DEF Grants, Updating, AbsSize, AbsSlot, TypeOK
  <2> QED
    BY <1>6, <2>2, <2>3 DEF Grants, Abs!UNext, Abs!Grant, AbsSize, AbsSlot
<1>7. CASE Begins
  <2>1. slot = "closed" /\ pc \in DataLabel /\ pc' \in DataLabel
    BY <1>2, <1>7 DEF Begins, InSession, DataLabel, Writing, Ended
  <2>2. AbsPhase = "granted" /\ AbsPhase' = "writing"
    BY <1>0, <1>7, <2>1 DEF Begins, PhaseFacts
  <2>3. AbsSize' \in Nat /\ AbsSlot' = <<>> /\ UNCHANGED <<proved, boot>>
    BY <1>7, <2>2 DEF Begins, Updating, AbsSize, AbsSlot, TypeOK
  <2> QED
    BY <2>2, <2>3 DEF Abs!UNext, Abs!Begin, AbsSize, AbsSlot
<1>8. CASE Writes
  <2>1. slot = "open" /\ pc \in DataLabel /\ pc' \in DataLabel
    BY <1>2, <1>8 DEF Writes, InSession, DataLabel, Writing
  <2>2. AbsPhase = "writing" /\ AbsPhase' = "writing"
    BY <1>0, <1>8, <2>1 DEF Writes, PhaseFacts
  <2>3. PICK chunk \in Seq(Value) :
          /\ 0 < Len(chunk) /\ Len(chunk) <= ota_size - total
          /\ flash' = flash \o chunk
    BY <1>8 DEF Writes
  <2>4. /\ flash \in Seq(Value) /\ Len(flash) \in Nat /\ Len(chunk) \in Nat
        /\ ota_size \in Nat /\ total = Len(flash)
    BY <1>8, LenProperties DEF Writes, TypeOK, ProgressInv, Counted
  <2>5. flash' \in Seq(Value) /\ Len(flash') = Len(flash) + Len(chunk)
    BY <2>3, <2>4, ConcatProperties
  <2>6. SubSeq(flash', 1, Len(flash)) = flash
    BY <2>3, <2>4, ConcatPrefix
  <2>7. Len(flash) < Len(flash') /\ Len(flash') <= ota_size
    BY <2>3, <2>4, <2>5
  <2>8. AbsSlot = flash /\ AbsSlot' = flash' /\ AbsSize = ota_size
        /\ UNCHANGED <<proved, AbsSize, boot>>
    BY <1>8, <2>2 DEF Writes, Updating, AbsSlot, AbsSize
  <2> QED
    BY <2>2, <2>5, <2>6, <2>7, <2>8 DEF Abs!UNext, Abs!Write, AbsSize, AbsSlot
<1>9. CASE Acknowledges
  <2>1. AbsPhase' = AbsPhase
    BY <1>9 DEF Acknowledges, AbsPhase
  <2>2. UNCHANGED <<proved, AbsSize, AbsSlot, boot>>
    BY <1>9, <2>1 DEF Acknowledges, Updating, AbsSize, AbsSlot
  <2> QED
    BY <1>1, <2>1, <2>2 DEF Abs!uvars, AbsSize, AbsSlot
<1>10. CASE Commits
  <2>1. slot = "open" /\ pc \in DataLabel /\ pc' \in DataLabel
    BY <1>2, <1>10 DEF Commits, InSession, DataLabel, Writing, Ended
  <2>2. AbsPhase = "writing" /\ AbsPhase' = "ended"
    BY <1>0, <1>10, <2>1 DEF Commits, PhaseFacts
  <2>3. Len(flash) = ota_size
    BY <1>10 DEF Commits, ProgressInv, Counted, Full
  <2>4. \E digest \in DOMAIN Image : Image[digest] = flash
    BY <1>10 DEF Commits, ImageAccepted
  <2>5. AbsSlot = flash /\ AbsSize = ota_size /\ boot' = flash
        /\ UNCHANGED <<proved, AbsSize, AbsSlot>>
    BY <1>10, <2>2 DEF Commits, Updating, AbsSlot, AbsSize
  <2> QED
    BY <2>2, <2>3, <2>4, <2>5 DEF Abs!UNext, Abs!Commit, AbsSize, AbsSlot
<1> QED
  BY <1>3, <1>4, <1>5, <1>6, <1>7, <1>8, <1>9, <1>10 DEF Effect

(* The TCP server implements OtaUpdate: nothing that a peer sends, closes  *)
(* or resets, and no failure of the node, gets an image that was not       *)
(* received whole and verified to boot.                                    *)
THEOREM UpdateRefinement == Spec => ImplementsUpdate
<1>1. Init => Abs!UInit
  <2> SUFFICES ASSUME Init PROVE Abs!UInit
    OBVIOUS
  <2>1. AbsPhase = "idle"
    BY DEF Init, AbsPhase
  <2>2. ~Updating
    BY <2>1 DEF Updating
  <2> QED
    BY <2>1, <2>2 DEF Init, Abs!UInit
<1>2. TypeOK /\ TypeOK' /\ SessionInv /\ SessionInv' /\ ProgressInv /\ [Next]_vars
        => [Abs!UNext]_(Abs!uvars)
  BY StepEffect, EffectRefines
<1> QED
  BY <1>1, <1>2, SessionInvariant, ProgressInvariant, PTL
     DEF Spec, ImplementsUpdate, Abs!USpec

Promises == INSTANCE OtaUpdate_proofs WITH
  Secured <- Password,
  phase <- AbsPhase,
  size <- AbsSize,
  slot <- AbsSlot

(* So over TCP as over the mesh, whatever boots was complete and verified, *)
(* and if a password is configured only a peer that proved it in the same  *)
(* session got to write.                                                   *)
THEOREM PromiseKept == Spec => []Abs!Promise
<1>1. Abs!USpec => Promises!USpec
  <2>1. Abs!UInit => Promises!UInit
    BY DEF Abs!UInit, Promises!UInit, AbsSize, AbsSlot
  <2>2. [Abs!UNext]_(Abs!uvars) => [Promises!UNext]_(Promises!uvars)
    BY DEF Abs!UNext, Promises!UNext, Abs!uvars, Promises!uvars, Abs!Greet,
           Promises!Greet, Abs!Grant, Promises!Grant, Abs!Begin,
           Promises!Begin, Abs!Write, Promises!Write,
           Abs!Commit, Promises!Commit, Abs!Close,
           Promises!Close, AbsSize, AbsSlot
  <2> QED
    BY <2>1, <2>2, PTL DEF Abs!USpec, Promises!USpec
<1>2. Promises!Promise => Abs!Promise
  BY DEF Promises!Promise, Abs!Promise, AbsSize, AbsSlot
<1> QED
  BY <1>1, <1>2, UpdateRefinement, Promises!UpdateKeepsPromise, PTL
     DEF ImplementsUpdate
==============================================================================
