------------------------- MODULE MeshOtaSystem_proofs -------------------------
(***************************************************************************)
(* Proofs about MeshOtaSystem: the server among its clients on a mesh that *)
(* loses, repeats and reorders is the server of MeshOta, so all that was   *)
(* proved of that holds here; and what the clients may conclude.           *)
(***************************************************************************)
EXTENDS MeshOtaSystem, MeshOta_proofs

------------------------------------------------------------------------------
(* A step of the node sends one status to its peer, or none.               *)

OneReply ==
  \/ tx' = <<>>
  \/ \E code \in Response, n \in Nonce \cup {NoNonce} :
       /\ tx' = << [to |-> peer, code |-> code, nonce |-> n] >>
       /\ code = "UPDATE_END_OK" => ota_state = "DATA_END_OK"

LEMMA SendIsOne ==
  ASSUME NEW code \in Response, NEW n \in Nonce \cup {NoNonce},
         SendNonce(code, n) \/ SendFails,
         code = "UPDATE_END_OK" => ota_state = "DATA_END_OK"
  PROVE  OneReply
BY DEF SendNonce, SendFails, OneReply

LEMMA SilentIsOne == ASSUME Silent PROVE OneReply
BY DEF Silent, OneReply

LEMMA ErrorIsOne ==
  ASSUME NEW code \in ResponseError, SendErrorAndCleanup(code)
  PROVE  OneReply
<1>1. code \in Response /\ code # "UPDATE_END_OK"
  BY DEF Response, ResponseError
<1> QED
  BY <1>1, SendIsOne DEF SendErrorAndCleanup, Send

LEMMA NodeReplies ==
  ASSUME TypeOK,
         \/ Device \/ OnShutdown \/ Reset \/ Tick
         \/ \E from \in Node, data \in Datagram : HandleFrame(from, data)
  PROVE  OneReply
<1>1. \A code \in ResponseError : Fail(code) \/ SendErrorAndCleanup(code) => OneReply
  BY ErrorIsOne DEF Fail
<1>2. {"ERROR_MAGIC", "ERROR_AUTH_INVALID", "ERROR_UNKNOWN", "ERROR_BACKEND"} = ResponseError
  BY DEF ResponseError
<1>3. CASE Setup \/ OnShutdown \/ Reset \/ Tick \/ StartSession \/ LoopHandshake
  BY <1>3, SilentIsOne DEF Setup, OnShutdown, Reset, Tick, StartSession, LoopHandshake
<1>4. CASE LoopData \/ \E from \in Node, data \in Datagram : HandleFrame(from, data)
  BY <1>1, <1>2, <1>4, SilentIsOne DEF LoopData, HandleFrame
<1>5. CASE HandshakeStep
  <2>1. CASE MagicRead \/ FeatureRead \/ AuthRead
    BY <1>1, <1>2, <2>1, SilentIsOne DEF MagicRead, FeatureRead, AuthRead
  <2>2. CASE MagicAck \/ FeatureAck
    <3>1. PICK code \in {"OK", "HEADER_OK", "SUPPORTS_COMPRESSION"} : Send(code) \/ SendFails
      BY <2>2 DEF MagicAck, FeatureAck, SendThen
    <3> QED
      BY <3>1, SendIsOne DEF Send, Response
  <2>3. CASE AuthSend
    <3>1. CASE \E code \in ResponseError : Fail(code)
      BY <1>1, <3>1
    <3>2. CASE /\ auth_nonce' \in IF auth_nonce = NoNonce THEN Nonce ELSE {auth_nonce}
               /\ SendNonce("REQUEST_SHA256_AUTH", auth_nonce') \/ SendFails
      <4>1. CASE auth_nonce' \in Nonce \cup {NoNonce}
        BY <3>2, <4>1, SendIsOne DEF Response
      <4> QED
        BY <3>2, <4>1 DEF TypeOK
    <3> QED
      BY <1>2, <2>3, <3>1, <3>2 DEF AuthSend
  <2> QED
    BY <1>5, <2>1, <2>2, <2>3 DEF HandshakeStep
<1>6. CASE DataStep
  <2>1. CASE DataStatus
    <3>1. /\ ota_state \in DOMAIN Status
          /\ Send(Status[ota_state].code) \/ SendFails
      BY <2>1 DEF DataStatus, SendThen
    <3>2. Status[ota_state].code \in Response
          /\ (Status[ota_state].code = "UPDATE_END_OK" => ota_state = "DATA_END_OK")
      BY <3>1 DEF Status, Response
    <3> QED
      BY <3>1, <3>2, SendIsOne DEF Send
  <2>2. CASE DataSize \/ DataMd5
    BY <1>1, <1>2, <2>2, SilentIsOne
       DEF DataSize, DataMd5, ReadallTimesOut, ReadallYields, ReadallTakes
  <2>3. CASE DataBegin \/ DataFirmware \/ DataEnd \/ DataFinalAck \/ DataReboot
    BY <1>1, <1>2, <2>3, SilentIsOne
       DEF DataBegin, Crash, DataFirmware, DataEnd, DataFinalAck, DataReboot
  <2>4. CASE DataChunkOk
    BY <2>4, SilentIsOne, SendIsOne DEF DataChunkOk, Send, Response
  <2> QED
    BY <1>6, <2>1, <2>2, <2>3, <2>4 DEF DataStep
<1> QED
  BY <1>3, <1>4, <1>5, <1>6 DEF Device

------------------------------------------------------------------------------
(* The scripts of the clients.                                             *)

ScriptLine == [say : Seq(Value), hear : SUBSET Response]
ScriptLength(c) ==
  2 + (IF Password THEN 2 ELSE 1) + 2 + Len(ImageLines(c)) + 2

LEMMA LineType ==
  ASSUME NEW s \in Seq(Value), NEW h \in SUBSET Response
  PROVE  Line(s, h) \in ScriptLine
BY DEF Line, ScriptLine

LEMMA Quotient ==
  ASSUME NEW a \in Nat, NEW b \in Nat \ {0}
  PROVE  a \div b \in Nat
OBVIOUS

LEMMA Product ==
  ASSUME NEW a \in Nat, NEW b \in Nat
  PROVE  a * b \in Nat
OBVIOUS

LEMMA BlocksType ==
  ASSUME NEW S, NEW image \in Seq(S)
  PROVE  Blocks(image) \in Seq(Seq(S))
<1> DEFINE count == (Len(image) + BlockSize - 1) \div BlockSize
<1>1. Len(image) \in Nat /\ BlockSize \in Nat \ {0}
  BY LenProperties, LimitAssumption
<1>2. count \in Nat
  <2>1. Len(image) + BlockSize - 1 \in Nat
    BY <1>1
  <2> QED
    BY <1>1, <2>1, Quotient
<1> HIDE DEF count
<1>3. ASSUME NEW k \in 1 .. count
      PROVE  SubSeq(image, (k - 1) * BlockSize + 1, Lesser(k * BlockSize, Len(image)))
               \in Seq(S)
  <2> DEFINE first == (k - 1) * BlockSize + 1
             last == Lesser(k * BlockSize, Len(image))
  <2>1. (k - 1) * BlockSize \in Nat /\ k * BlockSize \in Nat
    BY <1>1, <1>2, Product
  <2>2. first \in Nat /\ 1 <= first /\ last \in Nat /\ last <= Len(image)
    BY <1>1, <2>1 DEF Lesser
  <2> HIDE DEF first, last
  <2>3. \A i \in first .. last : image[i] \in S
    BY <1>1, <2>2, ElementOfSeq
  <2>4. SubSeq(image, first, last) \in Seq(S)
    BY <2>2, <2>3, SubSeqProperties
  <2> QED
    BY <2>4 DEF first, last
<1>4. Blocks(image) \in [1 .. count -> Seq(S)]
  BY <1>3 DEF Blocks, count
<1> QED
  BY <1>2, <1>4, FunctionIsSeq

(* All of a script but its last two lines.                                 *)
ScriptFront(c) ==
  << Line(Magic, {"OK"}),
     Line(<<Features>>, {"HEADER_OK", "SUPPORTS_COMPRESSION"}) >>
  \o ProofLines(c)
  \o << Line(<<Len(ImageOf(c)) \div Radix, Len(ImageOf(c)) % Radix>>,
             {"UPDATE_PREPARE_OK"}),
        Line(Offer[c], {"BIN_MD5_OK"}) >>
  \o ImageLines(c)

LEMMA ImageLinesIn ==
  ASSUME NEW L, NEW c \in Client,
         \A k \in 1 .. Len(Blocks(ImageOf(c))) : Line(Blocks(ImageOf(c))[k], {"CHUNK_OK"}) \in L,
         Line(<<>>, {"RECEIVE_OK"}) \in L,
         Line(ImageOf(c), {"RECEIVE_OK"}) \in L
  PROVE  ImageLines(c) \in Seq(L)
<1> DEFINE blocks == Blocks(ImageOf(c))
           lines == [k \in 1 .. Len(blocks) |-> Line(blocks[k], {"CHUNK_OK"})]
<1>1. Len(blocks) \in Nat
  BY BlocksType, LenProperties, ClientAssumption DEF ImageOf, Client
<1>2. lines \in Seq(L)
  <2>1. lines \in [1 .. Len(blocks) -> L]
    OBVIOUS
  <2> HIDE DEF lines, blocks
  <2> QED
    BY <1>1, <2>1, FunctionIsSeq
<1>3. lines \o << Line(<<>>, {"RECEIVE_OK"}) >> \in Seq(L)
  <2> HIDE DEF lines
  <2> QED
    BY <1>2, ConcatProperties
<1> QED
  BY <1>3 DEF ImageLines

LEMMA FrontIn ==
  ASSUME NEW L, NEW c \in Client,
         Line(Magic, {"OK"}) \in L,
         Line(<<Features>>, {"HEADER_OK", "SUPPORTS_COMPRESSION"}) \in L,
         ProofLines(c) \in Seq(L),
         Line(<<Len(ImageOf(c)) \div Radix, Len(ImageOf(c)) % Radix>>,
              {"UPDATE_PREPARE_OK"}) \in L,
         Line(Offer[c], {"BIN_MD5_OK"}) \in L,
         ImageLines(c) \in Seq(L)
  PROVE  /\ ScriptFront(c) \in Seq(L)
         /\ Len(ScriptFront(c)) = ScriptLength(c) - 2
         /\ ScriptLength(c) \in Nat
<1> DEFINE first == << Line(Magic, {"OK"}),
                       Line(<<Features>>, {"HEADER_OK", "SUPPORTS_COMPRESSION"}) >>
           second == << Line(<<Len(ImageOf(c)) \div Radix, Len(ImageOf(c)) % Radix>>,
                             {"UPDATE_PREPARE_OK"}),
                        Line(Offer[c], {"BIN_MD5_OK"}) >>
<1>1. first \in Seq(L) /\ Len(first) = 2 /\ second \in Seq(L) /\ Len(second) = 2
  OBVIOUS
<1>2. Len(ProofLines(c)) = IF Password THEN 2 ELSE 1
  BY DEF ProofLines
<1>3. ScriptFront(c) = first \o ProofLines(c) \o second \o ImageLines(c)
  BY DEF ScriptFront
<1>4. Len(ImageLines(c)) \in Nat
  BY LenProperties
<1> HIDE DEF first, second
<1>5. first \o ProofLines(c) \in Seq(L)
      /\ Len(first \o ProofLines(c)) = Len(first) + Len(ProofLines(c))
  BY <1>1, ConcatProperties
<1>6. first \o ProofLines(c) \o second \in Seq(L)
      /\ Len(first \o ProofLines(c) \o second)
           = Len(first \o ProofLines(c)) + Len(second)
  BY <1>1, <1>5, ConcatProperties
<1>7. ScriptFront(c) \in Seq(L)
      /\ Len(ScriptFront(c))
           = Len(first \o ProofLines(c) \o second) + Len(ImageLines(c))
  BY <1>3, <1>6, ConcatProperties
<1> QED
  BY <1>1, <1>2, <1>4, <1>5, <1>6, <1>7 DEF ScriptLength

LEMMA ScriptEnds ==
  ASSUME NEW L, NEW c \in Client, ScriptFront(c) \in Seq(L),
         Len(ScriptFront(c)) = ScriptLength(c) - 2, ScriptLength(c) \in Nat
  PROVE  /\ Len(Script(c)) = ScriptLength(c)
         /\ \A k \in 1 .. ScriptLength(c) - 2 : Script(c)[k] \in L
         /\ Script(c)[ScriptLength(c) - 1] = Line(<<>>, {"UPDATE_END_OK"})
         /\ Script(c)[ScriptLength(c)] = Line(<<0>>, {})
<1> DEFINE front == ScriptFront(c)
           end == << Line(<<>>, {"UPDATE_END_OK"}), Line(<<0>>, {}) >>
           M == L \cup {Line(<<>>, {"UPDATE_END_OK"}), Line(<<0>>, {})}
<1>1. Script(c) = front \o end
  BY DEF Script, ScriptFront
<1>2. end \in Seq(M) /\ Len(end) = 2 /\ end[1] = Line(<<>>, {"UPDATE_END_OK"})
      /\ end[2] = Line(<<0>>, {})
  OBVIOUS
<1>3. front \in Seq(M) /\ Len(front) = ScriptLength(c) - 2 /\ Len(front) \in Nat
      /\ \A k \in 1 .. Len(front) : front[k] \in L
  <2>1. front \in Seq(M)
    BY SeqMonotonic
  <2> QED
    BY <2>1, ElementOfSeq, LenProperties
<1> HIDE DEF front, end, M
<1>4. /\ Len(front \o end) = Len(front) + Len(end)
      /\ \A k \in 1 .. Len(front) + Len(end) :
           (front \o end)[k] = IF k <= Len(front) THEN front[k] ELSE end[k - Len(front)]
  BY <1>2, <1>3, ConcatProperties
<1> DEFINE n == ScriptLength(c)
<1> HIDE DEF n
<1>5. n \in Nat /\ Len(front) = n - 2 /\ n - 2 \in Nat
  BY <1>3 DEF n
<1>6. Len(front \o end) = n
  BY <1>2, <1>4, <1>5
<1>7. \A k \in 1 .. n - 2 : (front \o end)[k] \in L
  BY <1>2, <1>3, <1>4, <1>5
<1>8. (front \o end)[n - 1] = end[1] /\ (front \o end)[n] = end[2]
  <2>1. n - 1 \in 1 .. Len(front) + Len(end) /\ n \in 1 .. Len(front) + Len(end)
        /\ ~(n - 1 <= Len(front)) /\ ~(n <= Len(front))
        /\ n - 1 - Len(front) = 1 /\ n - Len(front) = 2
    BY <1>2, <1>5
  <2> QED
    BY <1>4, <2>1
<1> QED
  BY <1>1, <1>2, <1>6, <1>7, <1>8 DEF n

(* Where control is in a script, and what its lines are.                   *)
NonceTypes == nonce \in [Client -> Nonce \cup {NoNonce}]
Asks == {l \in ScriptLine : l.hear # {}}

LEMMA ScriptType ==
  ASSUME NonceTypes, NEW c \in Client
  PROVE  /\ Len(Script(c)) = ScriptLength(c) /\ ScriptLength(c) \in Nat
         /\ 2 <= ScriptLength(c)
         /\ \A k \in 1 .. ScriptLength(c) : Script(c)[k] \in ScriptLine
         /\ \A k \in 1 .. ScriptLength(c) - 1 : Script(c)[k].hear # {}
         /\ Script(c)[ScriptLength(c) - 1].hear = {"UPDATE_END_OK"}
<1>1. \A s \in Seq(Value), h \in SUBSET Response : h # {} => Line(s, h) \in Asks
  BY DEF Line, Asks, ScriptLine
<1>2. /\ {"OK"} \in SUBSET Response
      /\ {"HEADER_OK", "SUPPORTS_COMPRESSION"} \in SUBSET Response
      /\ {"AUTH_OK"} \in SUBSET Response /\ {"REQUEST_SHA256_AUTH"} \in SUBSET Response
      /\ {"UPDATE_PREPARE_OK"} \in SUBSET Response /\ {"BIN_MD5_OK"} \in SUBSET Response
      /\ {"CHUNK_OK"} \in SUBSET Response /\ {"RECEIVE_OK"} \in SUBSET Response
      /\ {"UPDATE_END_OK"} \in SUBSET Response
  BY DEF Response
<1>3. /\ Magic \in Seq(Value) /\ <<Features>> \in Seq(Value) /\ Offer[c] \in Seq(Value)
      /\ ImageOf(c) \in Seq(Value) /\ <<>> \in Seq(Value) /\ <<0>> \in Seq(Value)
      /\ <<Len(ImageOf(c)) \div Radix, Len(ImageOf(c)) % Radix>> \in Seq(Value)
      /\ WrongReply \in Seq(Value)
  <2>1. 0 \in Value /\ Features \in Value /\ <<>> \in Seq(Value)
    BY WireAssumption, ClientAssumption, EmptySeq
  <2> DEFINE hi == Len(ImageOf(c)) \div Radix
             lo == Len(ImageOf(c)) % Radix
  <2>2. hi \in Value /\ lo \in Value
    BY ClientAssumption DEF ImageOf, Client
  <2> HIDE DEF hi, lo
  <2>3. <<hi, lo>> \in Seq(Value)
    BY <2>2
  <2>4. <<Features>> \in Seq(Value) /\ <<0>> \in Seq(Value) /\ <<>> \in Seq(Value)
    BY <2>1
  <2>5. Magic \in Seq(Value) /\ WrongReply \in Seq(Value) /\ Offer[c] \in Seq(Value)
    BY WireAssumption, ClientAssumption DEF Client
  <2>6. ImageOf(c) \in Seq(Value)
    BY ClientAssumption DEF ImageOf, Client
  <2> QED
    BY <2>3, <2>4, <2>5, <2>6 DEF hi, lo
<1>4. ProofLines(c) \in Seq(Asks)
  <2>1. nonce[c] # NoNonce => AuthReply[nonce[c]] \in Seq(Value)
    BY ClientAssumption DEF NonceTypes
  <2> DEFINE reply == IF c \in Knows /\ nonce[c] # NoNonce THEN AuthReply[nonce[c]]
                      ELSE WrongReply
  <2>2. reply \in Seq(Value)
    BY <1>3, <2>1
  <2>3. /\ Line(<<>>, {"AUTH_OK"}) \in Asks /\ Line(reply, {"AUTH_OK"}) \in Asks
        /\ Line(<<>>, {"REQUEST_SHA256_AUTH"}) \in Asks
    <3> HIDE DEF reply
    <3> QED
      BY <1>1, <1>2, <1>3, <2>2
  <2> QED
    BY <2>3 DEF ProofLines
<1>5. ImageLines(c) \in Seq(Asks)
  <2>1. \A k \in 1 .. Len(Blocks(ImageOf(c))) : Blocks(ImageOf(c))[k] \in Seq(Value)
    BY <1>3, BlocksType, ElementOfSeq
  <2> QED
    BY <1>1, <1>2, <1>3, <2>1, ImageLinesIn
<1>6. ScriptFront(c) \in Seq(Asks) /\ Len(ScriptFront(c)) = ScriptLength(c) - 2
      /\ ScriptLength(c) \in Nat
  BY <1>1, <1>2, <1>3, <1>4, <1>5, FrontIn
<1>7. /\ Len(Script(c)) = ScriptLength(c)
      /\ \A k \in 1 .. ScriptLength(c) - 2 : Script(c)[k] \in Asks
      /\ Script(c)[ScriptLength(c) - 1] = Line(<<>>, {"UPDATE_END_OK"})
      /\ Script(c)[ScriptLength(c)] = Line(<<0>>, {})
  BY <1>6, ScriptEnds
<1>8. Line(<<>>, {"UPDATE_END_OK"}) \in Asks /\ Line(<<0>>, {}) \in ScriptLine
      /\ Line(<<>>, {"UPDATE_END_OK"}).hear = {"UPDATE_END_OK"}
  BY <1>1, <1>2, <1>3 DEF Line, ScriptLine
<1>9. Len(ScriptFront(c)) \in Nat
  BY <1>6, LenProperties
<1> DEFINE n == ScriptLength(c)
<1> HIDE DEF n
<1>10. \A k \in 1 .. n : k \in 1 .. n - 2 \/ k = n - 1 \/ k = n
  BY <1>6 DEF n
<1>11. \A k \in 1 .. n - 1 : k \in 1 .. n - 2 \/ k = n - 1
  BY <1>6 DEF n
<1> QED
  BY <1>6, <1>7, <1>8, <1>9, <1>10, <1>11 DEF n, Asks

------------------------------------------------------------------------------
(* The types of the mesh and the clients.                                  *)

Flying == [from : Client, data : Datagram]
ClientTypes ==
  /\ NonceTypes
  /\ net \in Seq(Flying)
  /\ down \in [Client -> Seq(Reply)]
  /\ step \in [Client -> Nat]
  /\ said \in [Client -> Nat]
  /\ tries \in [Client -> Nat]

(* What the client that has heard UPDATE_END_OK can rely on, and why: it   *)
(* is sent of a slot that end() has made the boot slot.                    *)
Images == {Image[digest] : digest \in DOMAIN Image}
EndInv ==
  /\ update_started /\ slot = "valid" => boot \in Images
  /\ \A c \in Client : \A i \in 1 .. Len(down[c]) :
       down[c][i].code = "UPDATE_END_OK" => boot \in Images
  /\ \A c \in Client : step[c] >= ScriptLength(c) => boot \in Images

SysInv == TypeOK /\ SessionInv /\ ClientTypes /\ EndInv

(* A piece of a line is made of what the line is.                          *)
LEMMA Piece ==
  ASSUME NEW S, NEW s \in Seq(S), NEW k \in Nat, NEW n \in Nat \ {0}, k + n <= Len(s)
  PROVE  /\ SubSeq(s, k + 1, k + n) \in Seq(S)
         /\ SubSeq(s, k + 1, k + n) \in [1 .. n -> S]
<1> DEFINE first == k + 1
           last == k + n
           piece == SubSeq(s, first, last)
<1>1. Len(s) \in Nat /\ \A i \in 1 .. Len(s) : s[i] \in S
  BY ElementOfSeq, LenProperties
<1>2. first \in Nat /\ last \in Nat /\ 1 <= first /\ last <= Len(s)
      /\ first <= last /\ last - first + 1 = n
  BY <1>1
<1> HIDE DEF first, last
<1>3. \A i \in first .. last : s[i] \in S
  BY <1>1, <1>2
<1>4. piece \in Seq(S) /\ Len(piece) = n
  BY <1>2, <1>3, SubSeqProperties
<1>5. piece \in [1 .. n -> S]
  <2> HIDE DEF piece
  <2> QED
    BY <1>4, LenProperties, ElementOfSeq
<1> QED
  BY <1>4, <1>5 DEF first, last

(* What a client says next is a datagram.                                  *)
LEMMA Cut ==
  ASSUME ClientTypes, NEW c \in Client, Playing(c),
         NEW n \in 1 .. MaxDatagram, said[c] + n <= Len(Current(c).say)
  PROVE  [from |-> c, data |-> SubSeq(Current(c).say, said[c] + 1, said[c] + n)] \in Flying
<1>1. Current(c) \in ScriptLine
  BY ScriptType DEF Current, Playing, ClientTypes
<1>2. Current(c).say \in Seq(Value) /\ said[c] \in Nat /\ n \in Nat \ {0}
  BY <1>1, ClientAssumption DEF ScriptLine, ClientTypes
<1>3. SubSeq(Current(c).say, said[c] + 1, said[c] + n) \in [1 .. n -> Value]
  BY <1>2, Piece
<1> QED
  BY <1>3, ClientAssumption DEF Flying

LEMMA RouteType ==
  ASSUME ClientTypes, TypeOK', Route
  PROVE  down' \in [Client -> Seq(Reply)]
<1>1. tx' # <<>> => Head(tx') \in Reply
  BY EmptySeq, HeadTailProperties DEF TypeOK
<1>2. \A c \in Client : Reaches(c) => Append(down[c], Head(tx')) \in Seq(Reply)
  BY <1>1, AppendProperties DEF Reaches, ClientTypes
<1> QED
  BY <1>2 DEF Route, ClientTypes

LEMMA RemoveType ==
  ASSUME NEW S, NEW s \in Seq(S), NEW i \in 1 .. Len(s)
  PROVE  RemoveAt(s, i) \in Seq(S)
<1>1. Len(s) \in Nat
  BY LenProperties
<1>2. SubSeq(s, 1, i - 1) \in Seq(S)
  <2>1. \A k \in 1 .. i - 1 : s[k] \in S
    BY <1>1, ElementOfSeq
  <2> QED
    BY <1>1, <2>1, SubSeqProperties
<1>3. SubSeq(s, i + 1, Len(s)) \in Seq(S)
  <2>1. \A k \in i + 1 .. Len(s) : s[k] \in S
    BY <1>1, ElementOfSeq
  <2> QED
    BY <1>1, <2>1, SubSeqProperties
<1> QED
  BY <1>2, <1>3, ConcatProperties DEF RemoveAt

------------------------------------------------------------------------------
(* The server of the system is that of MeshOta.                            *)

NodeSteps ==
  \/ Device \/ OnShutdown \/ Reset \/ Tick
  \/ \E from \in Node, data \in Datagram : HandleFrame(from, data)

(* A step of the node, with what it sends routed to the clients, or a step *)
(* of the mesh or a client that leaves the node alone.                     *)
LEMMA SystemStep ==
  ASSUME ClientTypes, [SysNext]_sysVars
  PROVE  \/ /\ NodeSteps /\ Route /\ UNCHANGED clientVars
            /\ NodeStep \/ \E i \in 1 .. Len(net) : DeliverAt(i)
         \/ /\ UNCHANGED vars
            /\ \/ LoseFrame \/ RepeatFrame \/ UNCHANGED sysVars
               \/ \E c \in Client : ClientStep(c) \/ LoseStatus(c)
<1>1. CASE UNCHANGED sysVars
  BY <1>1 DEF sysVars
<1>2. CASE NodeStep
  BY <1>2 DEF NodeStep, NodeSteps
<1>3. ASSUME NEW i \in 1 .. Len(net), DeliverAt(i)
      PROVE  NodeSteps /\ Route /\ UNCHANGED clientVars
  <2>1. net[i] \in Flying
    BY ElementOfSeq DEF ClientTypes
  <2> QED
    BY <1>3, <2>1 DEF DeliverAt, NodeSteps, Flying, Client
<1>4. CASE Deliver
  <2>1. net \in Seq(Flying)
    BY DEF ClientTypes
  <2>2. net # <<>>
    BY <1>4 DEF Deliver
  <2>3. 1 \in 1 .. Len(net)
    BY <2>1, <2>2, EmptySeq, LenProperties
  <2> QED
    BY <1>3, <1>4, <2>3 DEF Deliver
<1>5. CASE Overtake
  <2>1. Len(net) \in Nat
    BY LenProperties DEF ClientTypes
  <2>2. PICK i \in 2 .. Len(net) : DeliverAt(i)
    BY <1>5 DEF Overtake
  <2>3. i \in 1 .. Len(net)
    BY <2>1
  <2> QED
    BY <1>3, <2>2, <2>3
<1>6. CASE LoseFrame \/ RepeatFrame \/ \E c \in Client : ClientStep(c) \/ LoseStatus(c)
  BY <1>6 DEF LoseFrame, RepeatFrame, ClientStep, ClientPlays, LoseStatus
<1> QED
  BY <1>1, <1>2, <1>4, <1>5, <1>6 DEF SysNext

LEMMA NodeStepsAreNext == ASSUME NodeSteps PROVE Next
BY DEF NodeSteps, Next

LEMMA ClientTypesStep ==
  ASSUME TypeOK', ClientTypes, [SysNext]_sysVars
  PROVE  ClientTypes'
<1> USE DEF clientVars
<1>1. CASE /\ Route /\ UNCHANGED clientVars
           /\ NodeStep \/ \E i \in 1 .. Len(net) : DeliverAt(i)
  <2>1. net' \in Seq(Flying)
    BY <1>1, RemoveType DEF ClientTypes, NodeStep, DeliverAt
  <2> QED
    BY <1>1, <2>1, RouteType DEF ClientTypes, NonceTypes
<1>2. CASE LoseFrame \/ RepeatFrame
  <2>1. net # <<>> /\ (net' = Tail(net) \/ net' = Append(net, Head(net)))
        /\ UNCHANGED <<down, clientVars>>
    BY <1>2 DEF LoseFrame, RepeatFrame
  <2>2. Tail(net) \in Seq(Flying) /\ Head(net) \in Flying
    BY <2>1, HeadTailProperties, EmptySeq DEF ClientTypes
  <2>3. Append(net, Head(net)) \in Seq(Flying)
    BY <2>2, AppendProperties DEF ClientTypes
  <2> QED
    BY <2>1, <2>2, <2>3 DEF ClientTypes, NonceTypes
<1>3. CASE UNCHANGED sysVars
  BY <1>3 DEF sysVars, ClientTypes, NonceTypes
<1>4. ASSUME NEW c \in Client, ClientStep(c) \/ LoseStatus(c)
      PROVE  ClientTypes'
  <2>0. down[c] \in Seq(Reply) /\ <<>> \in Seq(Reply)
    BY DEF ClientTypes
  <2>1. down[c] # <<>> => Head(down[c]) \in Reply /\ Tail(down[c]) \in Seq(Reply)
    BY <2>0, HeadTailProperties, EmptySeq
  <2>2. CASE ClientStart(c)
    BY <2>0, <2>2 DEF ClientStart, ClientTypes, NonceTypes
  <2>3. CASE ClientSay(c)
    <3>1. PICK n \in 1 .. MaxDatagram :
            /\ said[c] + n <= Len(Current(c).say)
            /\ net' = Append(net, [from |-> c,
                              data |-> SubSeq(Current(c).say, said[c] + 1, said[c] + n)])
            /\ \/ step' = [step EXCEPT ![c] = @ + 1] /\ said' = [said EXCEPT ![c] = 0]
               \/ step' = step /\ said' = [said EXCEPT ![c] = @ + n]
      BY <2>3 DEF ClientSay
    <3>2. net' \in Seq(Flying)
      <4> DEFINE f == [from |-> c,
                       data |-> SubSeq(Current(c).say, said[c] + 1, said[c] + n)]
      <4>1. f \in Flying /\ net' = Append(net, f)
        BY <2>3, <3>1, Cut DEF ClientSay
      <4> HIDE DEF f
      <4> QED
        BY <4>1, AppendProperties DEF ClientTypes
    <3>3. n \in Nat /\ said[c] + n \in Nat /\ step[c] + 1 \in Nat
      BY ClientAssumption DEF ClientTypes
    <3>4. step' \in [Client -> Nat] /\ said' \in [Client -> Nat]
      <4>1. step \in [Client -> Nat] /\ said \in [Client -> Nat]
        BY DEF ClientTypes
      <4>2. step' \in [Client -> Nat]
        BY <3>1, <3>3, <4>1
      <4>3. CASE said' = [said EXCEPT ![c] = 0]
        BY <4>1, <4>2, <4>3
      <4>4. CASE said' = [said EXCEPT ![c] = said[c] + n]
        BY <3>3, <4>1, <4>2, <4>4
      <4> QED
        BY <3>1, <4>3, <4>4
    <3> QED
      BY <2>3, <3>2, <3>4 DEF ClientSay, ClientTypes, NonceTypes
  <2>4. CASE ClientHear(c)
    <3>1. down[c] # <<>> /\ down' = [down EXCEPT ![c] = Tail(@)]
          /\ said' = [said EXCEPT ![c] = 0] /\ UNCHANGED <<net, tries>>
          /\ nonce' \in {nonce, [nonce EXCEPT ![c] = Head(down[c]).nonce]}
          /\ step' \in {[step EXCEPT ![c] = @ + 1], [step EXCEPT ![c] = 0]}
      BY <2>4 DEF ClientHear
    <3>2. Head(down[c]).nonce \in Nonce \cup {NoNonce}
      BY <2>1, <3>1 DEF Reply
    <3>3. NonceTypes'
      BY <3>1, <3>2 DEF ClientTypes, NonceTypes
    <3>4. down' \in [Client -> Seq(Reply)]
      BY <2>1, <3>1 DEF ClientTypes
    <3>5. step' \in [Client -> Nat] /\ said' \in [Client -> Nat]
      <4>1. step \in [Client -> Nat] /\ said \in [Client -> Nat] /\ step[c] + 1 \in Nat
        BY DEF ClientTypes
      <4>2. step' \in [Client -> Nat]
        BY <3>1, <4>1
      <4>3. said' \in [Client -> Nat]
        BY <3>1, <4>1
      <4> QED
        BY <4>2, <4>3
    <3> QED
      BY <3>1, <3>3, <3>4, <3>5 DEF ClientTypes
  <2>5. CASE ClientGiveUp(c)
    BY <2>0, <2>5 DEF ClientGiveUp, ClientTypes, NonceTypes
  <2>6. CASE LoseStatus(c)
    BY <2>1, <2>6 DEF LoseStatus, ClientTypes, NonceTypes
  <2> QED
    BY <1>4, <2>2, <2>3, <2>4, <2>5, <2>6 DEF ClientStep, ClientPlays
<1> QED
  BY <1>1, <1>2, <1>3, <1>4, SystemStep

(* A boot image is replaced by a boot image, and what end() has verified   *)
(* is one.                                                                 *)
LEMMA EndNode ==
  ASSUME TypeOK, SessionInv, EndInv, [Next]_vars
  PROVE  /\ (update_started /\ slot = "valid" => boot \in Images)'
         /\ boot \in Images => boot' \in Images
         /\ ota_state = "DATA_END_OK" => boot \in Images
<1>1. Effect
  BY StepEffect
<1>2. boot' = boot \/ boot' \in Images
  BY <1>1 DEF Effect, Closes, Keeps, UpdateView, Opens, Grants, Begins, Writes,
     Acknowledges, Commits, ImageAccepted, Images
<1>3. (update_started /\ slot = "valid" => boot \in Images)'
  <2>1. CASE Closes \/ Begins
    BY <2>1 DEF Closes, Begins
  <2>2. CASE Keeps \/ Writes \/ Acknowledges
    BY <2>2 DEF Keeps, UpdateView, Writes, Acknowledges, EndInv, Images
  <2>3. CASE Opens
    BY <2>3 DEF Opens, SessionInv, NoSession
  <2>4. CASE Grants
    BY <2>4, StateSets DEF Grants, SessionInv, InSession
  <2>5. CASE Commits
    BY <2>5 DEF Commits, ImageAccepted, Images
  <2> QED
    BY <1>1, <2>1, <2>2, <2>3, <2>4, <2>5 DEF Effect
<1>4. ota_state = "DATA_END_OK" => boot \in Images
  BY DEF SessionInv, NoSession, InSession, ValidStates, EndInv
<1> QED
  BY <1>2, <1>3, <1>4

LEMMA EndStep ==
  ASSUME TypeOK, TypeOK', SessionInv, ClientTypes, ClientTypes', EndInv, [SysNext]_sysVars
  PROVE  EndInv'
<1>0. UNCHANGED Images /\ \A c \in Client : UNCHANGED ScriptLength(c)
  BY DEF Images, ScriptLength, ImageLines, ImageOf
<1> USE DEF clientVars
<1>1. CASE NodeSteps /\ Route /\ UNCHANGED clientVars
  <2>1. [Next]_vars
    BY <1>1, NodeStepsAreNext
  <2>2. ASSUME NEW c \in Client, NEW i \in 1 .. Len(down'[c]),
               down'[c][i].code = "UPDATE_END_OK"
        PROVE  boot' \in Images
    <3>1. OneReply
      BY <1>1, NodeReplies DEF NodeSteps
    <3>2. CASE ~Reaches(c)
      <4>1. down'[c] = down[c]
        BY <1>1, <3>2 DEF Route
      <4> QED
        BY <2>1, <2>2, <4>1, EndNode DEF EndInv
    <3>3. CASE Reaches(c)
      <4>1. PICK code \in Response, n \in Nonce \cup {NoNonce} :
              /\ tx' = << [to |-> peer, code |-> code, nonce |-> n] >>
              /\ code = "UPDATE_END_OK" => ota_state = "DATA_END_OK"
        BY <3>1, <3>3 DEF OneReply, Reaches
      <4>2. Head(tx').code = code
        BY <4>1
      <4>3. down[c] \in Seq(Reply) /\ Head(tx') \in Reply
        BY <3>3, EmptySeq, HeadTailProperties DEF ClientTypes, TypeOK, Reaches
      <4>4. down'[c] = Append(down[c], Head(tx'))
        BY <1>1, <3>3 DEF Route
      <4>5. CASE i \in 1 .. Len(down[c])
        <5>1. down'[c][i] = down[c][i]
          BY <4>3, <4>4, <4>5, AppendProperties
        <5> QED
          BY <2>1, <2>2, <4>5, <5>1, EndNode DEF EndInv
      <4>6. CASE i \notin 1 .. Len(down[c])
        <5>1. i = Len(down[c]) + 1 /\ down'[c][i] = Head(tx')
          <6>1. Len(down[c]) \in Nat /\ Len(down'[c]) = Len(down[c]) + 1
                /\ down'[c][Len(down[c]) + 1] = Head(tx')
            BY <4>3, <4>4, AppendProperties, LenProperties
          <6>2. i = Len(down[c]) + 1
            BY <4>6, <6>1
          <6> QED
            BY <6>1, <6>2
        <5> QED
          BY <2>1, <2>2, <4>1, <4>2, <5>1, EndNode
      <4> QED
        BY <4>5, <4>6
    <3> QED
      BY <3>2, <3>3
  <2>3. \A c \in Client : step'[c] >= ScriptLength(c) => boot' \in Images
    BY <1>1, <2>1, EndNode DEF EndInv
  <2>4. (update_started /\ slot = "valid" => boot \in Images)'
    BY <2>1, EndNode
  <2> QED
    BY <1>0, <2>2, <2>3, <2>4 DEF EndInv
<1>2. CASE UNCHANGED <<vars, down, clientVars>>
  BY <1>0, <1>2 DEF vars, updateVars, backendVars, slotVars, EndInv
<1>3. ASSUME UNCHANGED vars, NEW c \in Client, ClientStep(c) \/ LoseStatus(c)
      PROVE  EndInv'
  <2>1. UNCHANGED <<update_started, slot, boot>>
    BY <1>3 DEF vars, updateVars, backendVars, slotVars
  <2>2. ASSUME NEW d \in Client, NEW i \in 1 .. Len(down'[d]),
               down'[d][i].code = "UPDATE_END_OK"
        PROVE  boot \in Images
    <3>1. \/ down'[d] = down[d] \/ down'[d] = <<>>
          \/ down[d] # <<>> /\ down'[d] = Tail(down[d])
      BY <1>3 DEF ClientStep, ClientPlays, ClientStart, ClientSay, ClientHear,
         ClientGiveUp, LoseStatus, ClientTypes
    <3>2. CASE down'[d] = down[d]
      BY <2>2, <3>2 DEF EndInv
    <3>3. CASE down'[d] = <<>>
      BY <2>2, <3>3, EmptySeq
    <3>4. CASE down[d] # <<>> /\ down'[d] = Tail(down[d])
      <4>1. down[d] \in Seq(Reply) /\ Len(down[d]) \in Nat
        BY LenProperties DEF ClientTypes
      <4>2. Len(Tail(down[d])) = Len(down[d]) - 1
            /\ \A k \in 1 .. Len(Tail(down[d])) : Tail(down[d])[k] = down[d][k + 1]
        BY <3>4, <4>1, HeadTailProperties
      <4>3. i + 1 \in 1 .. Len(down[d]) /\ down'[d][i] = down[d][i + 1]
        BY <3>4, <4>1, <4>2
      <4> QED
        BY <2>2, <4>3 DEF EndInv
    <3> QED
      BY <3>1, <3>2, <3>3, <3>4
  <2>3. ASSUME NEW d \in Client, step'[d] >= ScriptLength(d)
        PROVE  boot \in Images
    <3> DEFINE n == ScriptLength(d)
    <3>1. /\ Len(Script(d)) = n /\ n \in Nat /\ 2 <= n
          /\ \A k \in 1 .. n - 1 : Script(d)[k].hear # {}
          /\ Script(d)[n - 1].hear = {"UPDATE_END_OK"}
      BY ScriptType DEF ClientTypes
    <3> HIDE DEF n
    <3>2. step[d] \in Nat /\ step'[d] >= n
      BY <2>3 DEF ClientTypes, n
    <3>3. CASE step[d] >= n
      BY <3>3 DEF EndInv, n
    <3>4. CASE ~(step[d] >= n)
      <4>1. step'[d] # step[d] /\ step'[d] # 0 /\ step'[d] # 1
        BY <3>1, <3>2, <3>4
      <4>2. d = c /\ Playing(d) /\ step'[d] = step[d] + 1
            /\ \/ Current(d).hear = {}
               \/ down[d] # <<>> /\ Head(down[d]).code \in Current(d).hear
        <5>1. step \in [Client -> Nat]
          BY DEF ClientTypes
        <5>2. CASE ClientStart(c) \/ ClientGiveUp(c) \/ LoseStatus(c)
          BY <4>1, <5>1, <5>2 DEF ClientStart, ClientGiveUp, LoseStatus
        <5>3. CASE ClientSay(c)
          <6>1. Playing(c) /\ Current(c).hear = {} /\ step' = [step EXCEPT ![c] = @ + 1]
            BY <4>1, <5>3 DEF ClientSay
          <6> QED
            BY <4>1, <5>1, <6>1
        <5>4. CASE ClientHear(c)
          <6>1. \/ step' = [step EXCEPT ![c] = 0]
                \/ /\ step' = [step EXCEPT ![c] = @ + 1]
                   /\ Playing(c) /\ down[c] # <<>> /\ Head(down[c]).code \in Current(c).hear
            BY <5>4 DEF ClientHear
          <6> QED
            BY <4>1, <5>1, <6>1
        <5> QED
          BY <1>3, <5>2, <5>3, <5>4 DEF ClientStep, ClientPlays
      <4>3. step[d] = n - 1 /\ step[d] \in 1 .. n - 1
        BY <3>1, <3>2, <3>4, <4>2
      <4>4. Current(d).hear = {"UPDATE_END_OK"}
        BY <3>1, <4>3 DEF Current
      <4>5. down[d] # <<>> /\ Head(down[d]).code = "UPDATE_END_OK"
        BY <4>2, <4>4
      <4>6. down[d] \in Seq(Reply)
        BY DEF ClientTypes
      <4>7. 1 \in 1 .. Len(down[d]) /\ Head(down[d]) = down[d][1]
        BY <4>5, <4>6, HeadTailProperties, EmptySeq, LenProperties
      <4> QED
        BY <4>5, <4>7 DEF EndInv
    <3> QED
      BY <3>3, <3>4
  <2> QED
    BY <1>0, <2>1, <2>2, <2>3 DEF EndInv
<1> QED
  BY <1>1, <1>2, <1>3, SystemStep DEF LoseFrame, RepeatFrame, sysVars

------------------------------------------------------------------------------
(* The inductive invariant of the system.                                  *)

LEMMA SysInvInit == SysInit => SysInv
<1> SUFFICES ASSUME SysInit PROVE SysInv
  OBVIOUS
<1>1. TypeOK /\ SessionInv
  BY InitType, SessionInit DEF SysInit
<1>2. ClientTypes
  BY EmptySeq DEF SysInit, ClientTypes, NonceTypes
<1>3. EndInv
  <2>1. \A c \in Client : 2 <= ScriptLength(c) /\ ScriptLength(c) \in Nat
    BY <1>2, ScriptType DEF ClientTypes
  <2>2. ~update_started
    BY DEF SysInit, Init
  <2>3. \A c \in Client : Len(down[c]) = 0 /\ step[c] = 0
    BY EmptySeq DEF SysInit
  <2> QED
    BY <2>1, <2>2, <2>3 DEF EndInv
<1> QED
  BY <1>1, <1>2, <1>3 DEF SysInv

LEMMA SysInvStep == SysInv /\ [SysNext]_sysVars => SysInv' /\ [Next]_vars
<1> SUFFICES ASSUME SysInv, [SysNext]_sysVars PROVE SysInv' /\ [Next]_vars
  OBVIOUS
<1> USE DEF SysInv
<1>1. [Next]_vars
  BY SystemStep, NodeStepsAreNext
<1>2. TypeOK' /\ SessionInv'
  BY <1>1, TypeStep, SessionStep
<1>3. ClientTypes'
  BY <1>2, ClientTypesStep
<1>4. EndInv'
  BY <1>2, <1>3, EndStep
<1> QED
  BY <1>1, <1>2, <1>3, <1>4

(* However the mesh behaves, no datagram of the clients drives the server  *)
(* and its update backend out of their types, and every one they cut is    *)
(* one the server is checked with.                                         *)
THEOREM SysInvCorrect == SysSpec => []SysInv
<1> QED
  BY SysInvInit, SysInvStep, PTL DEF SysSpec

(* What the clients and the mesh do to the server is what MeshOta lets its *)
(* surroundings do: MeshOtaSystem implements MeshOta, so the properties    *)
(* proved there (MeshOta_proofs) hold of every system of clients, whatever *)
(* the mesh loses, repeats or reorders.                                    *)
THEOREM SystemImplementsServer == SysSpec => Spec
<1>1. SysInit => Init
  BY DEF SysInit
<1> QED
  BY <1>1, SysInvInit, SysInvStep, PTL DEF SysSpec, Spec

(* So among clients, too, whatever boots was complete and verified, and    *)
(* with a password was written by a peer that had proved it.               *)
THEOREM SystemKeepsPromise == SysSpec => []Abs!Promise
BY SystemImplementsServer, PromiseKept, PTL

------------------------------------------------------------------------------
(* What the clients may conclude.                                          *)

(* A client told UPDATE_END_OK is right that what the node will boot has   *)
(* passed the verification of end(), though the mesh may have lost,        *)
(* repeated or mixed what was sent, and whatever the node does after.      *)
EndIsTrue ==
  \A c \in Client : step[c] >= Len(Script(c)) => \E digest \in DOMAIN Image : boot = Image[digest]

THEOREM EndIsTrueCorrect == SysSpec => []EndIsTrue
<1>1. SysInv => EndIsTrue
  <2> SUFFICES ASSUME SysInv, NEW c \in Client, step[c] >= Len(Script(c))
               PROVE  boot \in Images
    BY DEF EndIsTrue, Images
  <2>1. Len(Script(c)) = ScriptLength(c)
    BY ScriptType DEF SysInv, ClientTypes
  <2> QED
    BY <2>1 DEF SysInv, EndInv
<1> QED
  BY <1>1, SysInvCorrect, PTL

(* When one release is what the clients offer - no digest is that of any   *)
(* other image - the client is right that it is the image it offered.      *)
OneRelease == \A c \in Client, digest \in DOMAIN Image : Image[digest] = ImageOf(c)

THEOREM AgreementCorrect == ASSUME OneRelease PROVE SysSpec => []Agreement
<1>1. EndIsTrue => Agreement
  BY DEF EndIsTrue, Agreement, OneRelease
<1> QED
  BY <1>1, EndIsTrueCorrect, PTL

(* With a password the boot image stays what it was until one who knows it *)
(* has begun: until then nothing that flies, waits or has been taken in    *)
(* has any byte that an answer needs, so nothing is proved.                *)
Unheard == Password /\ \A c \in Knows : tries[c] = 0
Guessed == [from : Node, v : Guessable]
SecretInv ==
  /\ ota_state = "AUTH_READ" => auth_nonce \in Nonce
  /\ \A c \in Client : tries[c] = 0 => step[c] = 0
  /\ HardToGuess /\ Unheard =>
       /\ \A i \in 1 .. Len(net) : net[i].data \in Seq(Guessable)
       /\ rx \in Seq(Guessed)
       /\ auth_in \in Seq(Guessed)
       /\ ~proved
       /\ boot = <<>>

LEMMA InSet ==
  ASSUME NEW S, NEW T, NEW s \in Seq(S), ToSet(s) \subseteq T
  PROVE  s \in Seq(T)
<1>1. Len(s) \in Nat /\ DOMAIN s = 1 .. Len(s) /\ s \in [1 .. Len(s) -> S]
  BY LenProperties
<1>2. \A i \in 1 .. Len(s) : s[i] \in T
  BY <1>1 DEF ToSet
<1>3. s \in [1 .. Len(s) -> T]
  BY <1>1, <1>2
<1> QED
  BY <1>1, <1>3, FunctionIsSeq

(* A client that does not know the password says only what can be guessed. *)
LEMMA StrangerSays ==
  ASSUME NonceTypes, NEW c \in Client \ Knows, NEW k \in 1 .. ScriptLength(c)
  PROVE  Script(c)[k].say \in Seq(Guessable)
<1> DEFINE L == [say : Seq(Guessable), hear : SUBSET Response]
           own == ToSet(Magic) \cup ToSet(WrongReply) \cup ToSet(Offer[c])
                    \cup ToSet(ImageOf(c))
                    \cup {Features, Len(ImageOf(c)) \div Radix, Len(ImageOf(c)) % Radix, 0}
<1>1. own \subseteq Guessable
  BY DEF Guessable
<1>2. /\ Magic \in Seq(Guessable) /\ WrongReply \in Seq(Guessable)
      /\ Offer[c] \in Seq(Guessable) /\ ImageOf(c) \in Seq(Guessable)
  <2>1. /\ Magic \in Seq(Value) /\ WrongReply \in Seq(Value)
        /\ Offer[c] \in Seq(Value) /\ ImageOf(c) \in Seq(Value)
    BY WireAssumption, ClientAssumption DEF ImageOf, Client
  <2>2. /\ ToSet(Magic) \subseteq Guessable /\ ToSet(WrongReply) \subseteq Guessable
        /\ ToSet(Offer[c]) \subseteq Guessable /\ ToSet(ImageOf(c)) \subseteq Guessable
    BY <1>1
  <2> QED
    BY <2>1, <2>2, InSet
<1>3. /\ <<Len(ImageOf(c)) \div Radix, Len(ImageOf(c)) % Radix>> \in Seq(Guessable)
      /\ <<Features>> \in Seq(Guessable) /\ <<0>> \in Seq(Guessable)
      /\ <<>> \in Seq(Guessable)
  <2> DEFINE hi == Len(ImageOf(c)) \div Radix
             lo == Len(ImageOf(c)) % Radix
  <2>1. hi \in Guessable /\ lo \in Guessable /\ Features \in Guessable /\ 0 \in Guessable
    BY <1>1
  <2> HIDE DEF hi, lo
  <2>2. <<hi, lo>> \in Seq(Guessable) /\ <<Features>> \in Seq(Guessable)
        /\ <<0>> \in Seq(Guessable) /\ <<>> \in Seq(Guessable)
    BY <2>1
  <2> QED
    BY <2>2 DEF hi, lo
<1>4. \A s \in Seq(Guessable), h \in SUBSET Response : Line(s, h) \in L
  BY DEF Line
<1>5. /\ {"OK"} \in SUBSET Response
      /\ {"HEADER_OK", "SUPPORTS_COMPRESSION"} \in SUBSET Response
      /\ {"AUTH_OK"} \in SUBSET Response /\ {"REQUEST_SHA256_AUTH"} \in SUBSET Response
      /\ {"UPDATE_PREPARE_OK"} \in SUBSET Response /\ {"BIN_MD5_OK"} \in SUBSET Response
      /\ {"CHUNK_OK"} \in SUBSET Response /\ {"RECEIVE_OK"} \in SUBSET Response
      /\ {"UPDATE_END_OK"} \in SUBSET Response /\ {} \in SUBSET Response
  BY DEF Response
<1> HIDE DEF L, own
<1>6. ProofLines(c) \in Seq(L)
  <2>1. /\ Line(<<>>, {"AUTH_OK"}) \in L /\ Line(WrongReply, {"AUTH_OK"}) \in L
        /\ Line(<<>>, {"REQUEST_SHA256_AUTH"}) \in L
    BY <1>2, <1>3, <1>4, <1>5
  <2> QED
    BY <2>1 DEF ProofLines
<1>7. ImageLines(c) \in Seq(L)
  <2>1. Blocks(ImageOf(c)) \in Seq(Seq(Guessable))
    BY <1>2, BlocksType
  <2>2. \A i \in 1 .. Len(Blocks(ImageOf(c))) : Blocks(ImageOf(c))[i] \in Seq(Guessable)
    BY <2>1, ElementOfSeq
  <2> QED
    BY <1>2, <1>3, <1>4, <1>5, <2>2, ImageLinesIn
<1>8. ScriptFront(c) \in Seq(L) /\ Len(ScriptFront(c)) = ScriptLength(c) - 2
      /\ ScriptLength(c) \in Nat
  BY <1>2, <1>3, <1>4, <1>5, <1>6, <1>7, FrontIn
<1>9. /\ \A i \in 1 .. ScriptLength(c) - 2 : Script(c)[i] \in L
      /\ Script(c)[ScriptLength(c) - 1] \in L /\ Script(c)[ScriptLength(c)] \in L
  BY <1>3, <1>4, <1>5, <1>8, ScriptEnds
<1> DEFINE n == ScriptLength(c)
<1>10. n \in Nat /\ k \in 1 .. n
  BY <1>8
<1> HIDE DEF n
<1>11. k \in 1 .. n - 2 \/ k = n - 1 \/ k = n
  BY <1>10
<1>12. Script(c)[k] \in L
  BY <1>9, <1>11 DEF n
<1> QED
  BY <1>12 DEF L

(* The node makes no bytes: what it holds came in.                         *)
LEMMA RxPieces ==
  ASSUME NEW S, rx \in Seq(S), NEW n \in Nat
  PROVE  RxTake(n) \in Seq(S) /\ RxRest(n) \in Seq(S)
<1> DEFINE k == Lesser(n, Len(rx))
<1>1. Len(rx) \in Nat /\ k \in 0 .. Len(rx) /\ \A i \in 1 .. Len(rx) : rx[i] \in S
  BY LenProperties, ElementOfSeq DEF Lesser
<1> HIDE DEF k
<1>2. (\A i \in 1 .. k : rx[i] \in S) /\ \A i \in k + 1 .. Len(rx) : rx[i] \in S
  BY <1>1
<1>3. SubSeq(rx, 1, k) \in Seq(S) /\ SubSeq(rx, k + 1, Len(rx)) \in Seq(S)
  BY <1>1, <1>2, SubSeqProperties
<1> QED
  BY <1>3 DEF RxTake, RxRest, k

LEMMA NodeGuesses ==
  ASSUME TypeOK, rx \in Seq(Guessed), auth_in \in Seq(Guessed),
         \/ Device \/ OnShutdown \/ Reset \/ Tick
         \/ \E from \in Node, data \in Seq(Guessable) : HandleFrame(from, data)
  PROVE  rx' \in Seq(Guessed) /\ auth_in' \in Seq(Guessed)
<1> USE DEF sessionVars, peerVars, authVars, heldVars
<1>0. <<>> \in Seq(Guessed)
  BY EmptySeq
<1>1. \A n \in Nat : RxTake(n) \in Seq(Guessed) /\ RxRest(n) \in Seq(Guessed)
  BY RxPieces
<1>2. ASSUME ClearSession PROVE rx' \in Seq(Guessed) /\ auth_in' \in Seq(Guessed)
  BY <1>0, <1>2 DEF ClearSession, CleanupAuth
<1>3. \A code : SendErrorAndCleanup(code) \/ Fail(code) \/ Cleanup => ClearSession
  BY DEF SendErrorAndCleanup, Fail, Cleanup
<1>4. Len(Magic) - Len(hs_buf) \in Nat /\ AuthLen - Len(auth_in) \in Nat
  BY WireAssumption, LenProperties DEF TypeOK
<1>5. CASE \/ Setup \/ OnShutdown \/ Reset \/ Tick
           \/ StartSession \/ LoopHandshake \/ LoopData
  BY <1>2, <1>3, <1>5
     DEF Setup, OnShutdown, Reset, Tick, StartSession, LoopHandshake, LoopData
<1>6. ASSUME NEW from \in Node, NEW data \in Seq(Guessable), HandleFrame(from, data)
      PROVE  rx' \in Seq(Guessed) /\ auth_in' \in Seq(Guessed)
  <2>1. Len(data) \in Nat /\ \A i \in 1 .. Len(data) : data[i] \in Guessable
    BY LenProperties, ElementOfSeq
  <2>2. Bytes(from, data) \in [1 .. Len(data) -> Guessed]
    BY <2>1 DEF Bytes, Guessed
  <2>3. Bytes(from, data) \in Seq(Guessed)
    BY <2>1, <2>2, FunctionIsSeq
  <2>4. rx \o Bytes(from, data) \in Seq(Guessed)
    BY <2>3, ConcatProperties
  <2> QED
    BY <1>2, <1>3, <1>6, <2>4 DEF HandleFrame
<1>7. CASE MagicRead \/ MagicAck \/ FeatureAck \/ AuthSend
  BY <1>1, <1>2, <1>3, <1>4, <1>7 DEF MagicRead, MagicAck, FeatureAck, AuthSend
<1>8. CASE FeatureRead
  <2>1. rx # <<>> => Tail(rx) \in Seq(Guessed)
    BY HeadTailProperties
  <2> QED
    BY <1>8, <2>1 DEF FeatureRead
<1>9. CASE AuthRead
  <2> DEFINE got == auth_in \o RxTake(AuthLen - Len(auth_in))
  <2>1. got \in Seq(Guessed)
    BY <1>1, <1>4, ConcatProperties
  <2>2. \/ Fail("ERROR_AUTH_INVALID")
        \/ rx' = RxRest(AuthLen - Len(auth_in)) /\ (auth_in' = got \/ auth_in' = <<>>)
    BY <1>9 DEF AuthRead, CleanupAuth
  <2> QED
    BY <1>0, <1>1, <1>2, <1>3, <1>4, <2>1, <2>2
<1>10. ASSUME NEW state, NEW yield \in {"size", "md5"}, NEW len \in Nat,
              len = (IF yield = "size" THEN SizeLen ELSE Md5Len),
              ReadallTimesOut(yield) \/ ReadallYields(state, yield, len)
                \/ (ReadallTakes(state, yield, len) /\ UNCHANGED auth_in)
       PROVE  rx' \in Seq(Guessed) /\ auth_in' \in Seq(Guessed)
  <2>1. CASE ReadallTimesOut(yield)
    BY <1>2, <1>3, <2>1 DEF ReadallTimesOut
  <2>2. CASE /\ Reading(state, yield) /\ rx' = RxRest(len - Len(data_buf))
             /\ UNCHANGED auth_in
    <3>1. data_buf = <<>> \/ Len(data_buf) < len
      BY <1>10, <2>2 DEF TypeOK, Reading, At
    <3>2. Len(data_buf) \in Nat /\ (data_buf = <<>> => Len(data_buf) = 0)
      BY LenProperties, EmptySeq DEF TypeOK
    <3>3. len - Len(data_buf) \in Nat
      BY <3>1, <3>2
    <3> QED
      BY <1>1, <2>2, <3>3
  <2> QED
    BY <1>10, <2>1, <2>2 DEF ReadallYields, ReadallTakes
<1>14. CASE DataSize
  <2>1. \/ ReadallTimesOut("size") \/ ReadallYields("DATA_SIZE", "size", SizeLen)
        \/ ReadallTakes("DATA_SIZE", "size", SizeLen) /\ UNCHANGED auth_in
    BY <1>14 DEF DataSize
  <2>2. SizeLen \in Nat
    BY DEF SizeLen
  <2> HIDE DEF SizeLen
  <2> QED
    BY <1>10, <2>1, <2>2
<1>15. CASE DataMd5
  <2>1. \/ ReadallTimesOut("md5") \/ ReadallYields("DATA_MD5", "md5", Md5Len)
        \/ ReadallTakes("DATA_MD5", "md5", Md5Len) /\ UNCHANGED auth_in
    BY <1>15 DEF DataMd5
  <2> QED
    BY <1>10, <2>1, WireAssumption
<1>11. CASE DataFirmware
  <2>1. firmware_total < ota_size => Lesser(ota_size - firmware_total, BufSize) \in Nat
    BY LimitAssumption DEF TypeOK, Lesser
  <2>2. \/ ClearSession \/ UNCHANGED <<rx, auth_in>>
        \/ /\ firmware_total < ota_size
           /\ rx' = RxRest(Lesser(ota_size - firmware_total, BufSize))
           /\ UNCHANGED auth_in
    BY <1>3, <1>11 DEF DataFirmware
  <2> QED
    BY <1>1, <1>2, <2>1, <2>2
<1>12. CASE DataFinalAck
  <2>1. rx # <<>> => Tail(rx) \in Seq(Guessed)
    BY HeadTailProperties
  <2> QED
    BY <1>12, <2>1 DEF DataFinalAck
<1>13. CASE DataStatus \/ DataBegin \/ DataChunkOk \/ DataEnd \/ DataReboot
  BY <1>2, <1>3, <1>13
     DEF DataStatus, DataBegin, Crash, DataChunkOk, DataEnd, DataReboot
<1> QED
  BY <1>5, <1>6, <1>7, <1>8, <1>9, <1>11, <1>12, <1>13, <1>14, <1>15
     DEF Device, HandshakeStep, DataStep

(* Where a response is awaited a challenge was sent.                       *)
LEMMA ChallengeSent ==
  ASSUME TypeOK, NodeSteps, ota_state = "AUTH_READ" => auth_nonce \in Nonce
  PROVE  (ota_state = "AUTH_READ" => auth_nonce \in Nonce)'
<1> USE DEF sessionVars, peerVars, authVars, heldVars
<1>1. ASSUME ClearSession PROVE ota_state' # "AUTH_READ"
  BY <1>1 DEF ClearSession, Transition
<1>2. \A code : SendErrorAndCleanup(code) \/ Fail(code) \/ Cleanup => ClearSession
  BY DEF SendErrorAndCleanup, Fail, Cleanup
<1>3. CASE AuthSend
  <2>1. CASE auth_nonce' \in IF auth_nonce = NoNonce THEN Nonce ELSE {auth_nonce}
    BY <2>1 DEF TypeOK
  <2> QED
    BY <1>1, <1>2, <1>3, <2>1 DEF AuthSend
<1>4. CASE ~AuthSend
  <2>1. ota_state' = "AUTH_READ" => ota_state = "AUTH_READ" /\ auth_nonce' = auth_nonce
    <3>1. CASE \/ Setup \/ OnShutdown \/ Reset \/ Tick
               \/ StartSession \/ LoopHandshake \/ LoopData
      BY <1>1, <1>2, <3>1
         DEF Setup, OnShutdown, Reset, Tick, StartSession, LoopHandshake, LoopData, Transition
    <3>2. CASE \E from \in Node, data \in Datagram : HandleFrame(from, data)
      BY <1>1, <1>2, <3>2 DEF HandleFrame
    <3>3. CASE MagicRead \/ MagicAck \/ FeatureRead \/ FeatureAck
      <4>1. AfterFeatures # "AUTH_READ" \/ ~FeatureAck
        BY DEF AfterFeatures
      <4> QED
        BY <1>1, <1>2, <3>3, <4>1
           DEF MagicRead, MagicAck, FeatureRead, FeatureAck, SendThen, Transition
    <3>4. CASE AuthRead
      BY <1>1, <1>2, <3>4 DEF AuthRead, Transition, At
    <3>5. CASE DataStatus
      <4>1. \A s \in DOMAIN Status : s # "AUTH_READ" /\ Status[s].next # "AUTH_READ"
        BY DEF Status
      <4> QED
        BY <3>5, <4>1 DEF DataStatus, SendThen, Transition
    <3>6. CASE DataSize \/ DataMd5 \/ DataFirmware
      BY <1>1, <1>2, <3>6
         DEF DataSize, DataMd5, DataFirmware, ReadallTimesOut, ReadallYields, Transition
    <3>7. CASE DataBegin \/ DataChunkOk \/ DataEnd \/ DataFinalAck \/ DataReboot
      BY <1>1, <1>2, <3>7
         DEF DataBegin, Crash, DataChunkOk, DataEnd, DataFinalAck, DataReboot, Transition
    <3> QED
      BY <1>4, <3>1, <3>2, <3>3, <3>4, <3>5, <3>6, <3>7
         DEF NodeSteps, Device, HandshakeStep, DataStep
  <2> QED
    BY <2>1
<1> QED
  BY <1>3, <1>4

(* The password is proved only by an answer to the challenge.              *)
LEMMA ProvedByAnswer ==
  ASSUME TypeOK, NodeSteps, ~proved, proved'
  PROVE  /\ ota_state = "AUTH_READ"
         /\ Answers(auth_in \o RxTake(AuthLen - Len(auth_in)))
<1> USE DEF sessionVars, peerVars, authVars, heldVars
<1>1. ASSUME ClearSession PROVE FALSE
  BY <1>1 DEF ClearSession
<1>2. \A code : SendErrorAndCleanup(code) \/ Fail(code) \/ Cleanup => ClearSession
  BY DEF SendErrorAndCleanup, Fail, Cleanup
<1>3. CASE AuthRead
  BY <1>1, <1>2, <1>3 DEF AuthRead, At
<1>4. CASE ~AuthRead
  <2>1. proved' = proved
    <3>1. CASE \/ Setup \/ OnShutdown \/ Reset \/ Tick
               \/ StartSession \/ LoopHandshake \/ LoopData
      BY <1>1, <1>2, <3>1
         DEF Setup, OnShutdown, Reset, Tick, StartSession, LoopHandshake, LoopData
    <3>2. CASE \E from \in Node, data \in Datagram : HandleFrame(from, data)
      BY <1>1, <1>2, <3>2 DEF HandleFrame
    <3>3. CASE MagicRead \/ MagicAck \/ FeatureRead \/ FeatureAck \/ AuthSend
      BY <1>1, <1>2, <3>3
         DEF MagicRead, MagicAck, FeatureRead, FeatureAck, AuthSend
    <3>4. CASE DataStatus \/ DataSize \/ DataMd5 \/ DataFirmware
      BY <1>1, <1>2, <3>4
         DEF DataStatus, DataSize, DataMd5, DataFirmware, ReadallTimesOut, ReadallYields
    <3>5. CASE DataBegin \/ DataChunkOk \/ DataEnd \/ DataFinalAck \/ DataReboot
      BY <1>1, <1>2, <3>5
         DEF DataBegin, Crash, DataChunkOk, DataEnd, DataFinalAck, DataReboot
    <3> QED
      BY <1>4, <3>1, <3>2, <3>3, <3>4, <3>5 DEF NodeSteps, Device, HandshakeStep, DataStep
  <2> QED
    BY <2>1
<1> QED
  BY <1>3, <1>4

(* What can be guessed is no answer.                                       *)
LEMMA NoGuessAnswers ==
  ASSUME HardToGuess, auth_nonce \in Nonce, NEW got \in Seq(Guessed)
  PROVE  ~Answers(got)
<1> SUFFICES ASSUME Answers(got) PROVE FALSE
  OBVIOUS
<1>1. Len(got) \in Nat /\ \A i \in 1 .. Len(got) : got[i] \in Guessed
  BY LenProperties, ElementOfSeq
<1>2. Values(got) \in [1 .. Len(got) -> Guessable]
  BY <1>1 DEF Values, Guessed
<1>3. \A i \in DOMAIN Values(got) : Values(got)[i] \in Guessable
  BY <1>2
<1>4. ToSet(Values(got)) \subseteq Guessable
  BY <1>3 DEF ToSet
<1> QED
  BY <1>4 DEF Answers, HardToGuess

LEMMA SecretNode ==
  ASSUME TypeOK, SessionInv, NodeSteps, HardToGuess, Password,
         rx \in Seq(Guessed), auth_in \in Seq(Guessed), ~proved, boot = <<>>,
         ota_state = "AUTH_READ" => auth_nonce \in Nonce
  PROVE  ~proved' /\ boot' = <<>>
<1>1. ~proved'
  <2> SUFFICES ASSUME proved' PROVE FALSE
    OBVIOUS
  <2> DEFINE got == auth_in \o RxTake(AuthLen - Len(auth_in))
  <2>1. ota_state = "AUTH_READ" /\ Answers(got)
    BY ProvedByAnswer
  <2>2. AuthLen - Len(auth_in) \in Nat
    BY WireAssumption, LenProperties DEF TypeOK
  <2>3. got \in Seq(Guessed)
    BY <2>2, RxPieces, ConcatProperties
  <2> QED
    BY <2>1, <2>3, NoGuessAnswers
<1>2. boot' = boot
  <2>1. Effect
    BY NodeStepsAreNext, StepEffect
  <2>2. ~Commits
    BY StateSets DEF Commits, SessionInv, InSession, SlotStates
  <2> QED
    BY <2>1, <2>2 DEF Effect, Closes, Keeps, UpdateView, Opens, Grants, Begins,
       Writes, Acknowledges
<1> QED
  BY <1>1, <1>2

LEMMA SecretStep ==
  ASSUME SysInv, SecretInv, [SysNext]_sysVars
  PROVE  SecretInv'
<1> USE DEF SysInv, clientVars
<1>0. /\ Unheard' => \A c \in Knows : tries'[c] = 0
      /\ HardToGuess' <=> HardToGuess
      /\ Knows \subseteq Client
  BY ClientAssumption DEF Unheard, HardToGuess, Guessable, ImageOf, Client
<1>1. CASE /\ NodeSteps /\ Route /\ UNCHANGED clientVars
           /\ NodeStep \/ \E i \in 1 .. Len(net) : DeliverAt(i)
  <2>1. (ota_state = "AUTH_READ" => auth_nonce \in Nonce)'
    BY <1>1, ChallengeSent DEF SecretInv
  <2>2. \A c \in Client : tries'[c] = 0 => step'[c] = 0
    BY <1>1 DEF SecretInv
  <2>3. ASSUME HardToGuess, Unheard'
        PROVE  /\ \A i \in 1 .. Len(net') : net'[i].data \in Seq(Guessable)
               /\ rx' \in Seq(Guessed) /\ auth_in' \in Seq(Guessed)
               /\ ~proved' /\ boot' = <<>>
    <3>1. Unheard
      BY <1>1, <2>3 DEF Unheard
    <3>2. /\ \A i \in 1 .. Len(net) : net[i].data \in Seq(Guessable)
          /\ rx \in Seq(Guessed) /\ auth_in \in Seq(Guessed) /\ ~proved /\ boot = <<>>
      BY <2>3, <3>1 DEF SecretInv
    <3>3. ~proved' /\ boot' = <<>>
      BY <1>1, <2>3, <3>1, <3>2, SecretNode DEF SecretInv, Unheard
    <3>4. CASE NodeStep
      BY <3>2, <3>3, <3>4, NodeGuesses DEF NodeStep
    <3>5. ASSUME NEW k \in 1 .. Len(net), DeliverAt(k)
          PROVE  /\ \A i \in 1 .. Len(net') : net'[i].data \in Seq(Guessable)
                 /\ rx' \in Seq(Guessed) /\ auth_in' \in Seq(Guessed)
      <4>1. net \in Seq(Flying) /\ net[k] \in Flying
        BY ElementOfSeq DEF ClientTypes
      <4>2. rx' \in Seq(Guessed) /\ auth_in' \in Seq(Guessed)
        BY <3>2, <3>5, <4>1, NodeGuesses DEF DeliverAt, Flying, Client
      <4> DEFINE G == {f \in Flying : f.data \in Seq(Guessable)}
      <4>3. Len(net) \in Nat /\ \A i \in 1 .. Len(net) : net[i] \in G
        BY <3>2, <4>1, ElementOfSeq, LenProperties
      <4>4. net \in Seq(G)
        <5>1. net \in [1 .. Len(net) -> G]
          BY <4>1, <4>3, LenProperties
        <5> QED
          BY <4>3, <5>1, FunctionIsSeq
      <4>5. net' \in Seq(G)
        <5> HIDE DEF G
        <5> QED
          BY <3>5, <4>4, RemoveType DEF DeliverAt
      <4>6. \A i \in 1 .. Len(net') : net'[i] \in G
        BY <4>5, ElementOfSeq
      <4> QED
        BY <4>2, <4>6
    <3> QED
      BY <1>1, <3>3, <3>4, <3>5
  <2> QED
    BY <1>0, <2>1, <2>2, <2>3 DEF SecretInv
<1>2. CASE UNCHANGED <<vars, down, clientVars>> /\ (LoseFrame \/ RepeatFrame \/ UNCHANGED sysVars)
  <2>1. UNCHANGED <<ota_state, auth_nonce, rx, auth_in, proved, boot, tries, step>>
    BY <1>2 DEF vars, authVars
  <2>2. Unheard' <=> Unheard
    BY <2>1 DEF Unheard
  <2>3. ASSUME \A i \in 1 .. Len(net) : net[i].data \in Seq(Guessable),
               NEW i \in 1 .. Len(net')
        PROVE  net'[i].data \in Seq(Guessable)
    <3>1. net \in Seq(Flying) /\ Len(net) \in Nat
      BY LenProperties DEF ClientTypes
    <3>2. CASE net' = net
      BY <2>3, <3>2
    <3>3. CASE net # <<>> /\ net' = Tail(net)
      <4>1. Len(net') = Len(net) - 1 /\ \A k \in 1 .. Len(net') : net'[k] = net[k + 1]
        BY <3>1, <3>3, HeadTailProperties
      <4>2. i + 1 \in 1 .. Len(net) /\ net'[i] = net[i + 1]
        BY <3>1, <4>1
      <4> QED
        BY <2>3, <4>2
    <3>4. CASE net # <<>> /\ net' = Append(net, Head(net))
      <4>1. Head(net) = net[1] /\ 1 \in 1 .. Len(net) /\ Head(net) \in Flying
        BY <3>1, <3>4, HeadTailProperties, EmptySeq
      <4>2. /\ Len(net') = Len(net) + 1
            /\ \A k \in 1 .. Len(net) : net'[k] = net[k]
            /\ net'[Len(net) + 1] = net[1]
        BY <3>1, <3>4, <4>1, AppendProperties
      <4>3. i \in 1 .. Len(net) \/ i = Len(net) + 1
        BY <3>1, <4>2
      <4> QED
        BY <2>3, <4>1, <4>2, <4>3
    <3> QED
      BY <1>2, <3>2, <3>3, <3>4 DEF LoseFrame, RepeatFrame, sysVars
  <2> QED
    BY <1>0, <2>1, <2>2, <2>3 DEF SecretInv
<1>3. ASSUME UNCHANGED vars, NEW c \in Client, ClientStep(c) \/ LoseStatus(c)
      PROVE  SecretInv'
  <2>1. UNCHANGED <<ota_state, auth_nonce, rx, auth_in, proved, boot>>
    BY <1>3 DEF vars, authVars
  <2>2. /\ \A d \in Client : tries'[d] = 0 => tries[d] = 0
        /\ \A d \in Client : tries'[d] = 0 => step'[d] = 0
    <3>1. tries \in [Client -> Nat] /\ step \in [Client -> Nat]
      BY DEF ClientTypes
    <3>2. CASE ClientStart(c)
      BY <3>1, <3>2 DEF ClientStart, SecretInv
    <3>3. CASE ClientSay(c) \/ ClientHear(c) \/ ClientGiveUp(c)
      <4>1. /\ tries' = tries /\ Playing(c)
            /\ \A d \in Client : d # c => step'[d] = step[d]
        BY <3>1, <3>3 DEF ClientSay, ClientHear, ClientGiveUp
      <4>2. step[c] # 0
        BY <4>1 DEF Playing
      <4>3. tries[c] # 0
        BY <4>2 DEF SecretInv
      <4> QED
        BY <4>1, <4>3 DEF SecretInv
    <3>4. CASE LoseStatus(c)
      BY <3>4 DEF LoseStatus, SecretInv
    <3> QED
      BY <1>3, <3>2, <3>3, <3>4 DEF ClientStep, ClientPlays
  <2>3. Unheard' => Unheard
    BY <1>0, <2>2 DEF Unheard
  <2>4. ASSUME Unheard, \A i \in 1 .. Len(net) : net[i].data \in Seq(Guessable),
               NEW i \in 1 .. Len(net')
        PROVE  net'[i].data \in Seq(Guessable)
    <3>1. CASE net' = net
      BY <2>4, <3>1
    <3>2. CASE ClientSay(c)
      <4>1. PICK n \in 1 .. MaxDatagram :
              /\ said[c] + n <= Len(Current(c).say)
              /\ net' = Append(net, [from |-> c,
                                data |-> SubSeq(Current(c).say, said[c] + 1, said[c] + n)])
        BY <3>2 DEF ClientSay
      <4> DEFINE f == [from |-> c,
                       data |-> SubSeq(Current(c).say, said[c] + 1, said[c] + n)]
      <4>2. Playing(c)
        BY <3>2 DEF ClientSay
      <4>3. c \notin Knows
        BY <2>4, <4>2 DEF Playing, Unheard, SecretInv
      <4>4. step[c] \in 1 .. ScriptLength(c)
        BY <4>2, ScriptType DEF Playing, ClientTypes
      <4>5. Current(c).say \in Seq(Guessable)
        BY <4>3, <4>4, StrangerSays DEF Current, ClientTypes
      <4>6. said[c] \in Nat /\ n \in Nat \ {0}
        BY ClientAssumption DEF ClientTypes
      <4>7. f.data \in Seq(Guessable)
        BY <4>1, <4>5, <4>6, Piece
      <4>8. f \in Flying /\ net \in Seq(Flying) /\ net' = Append(net, f)
        BY <4>1, <4>2, Cut DEF ClientTypes
      <4> HIDE DEF f
      <4>9. /\ Len(net) \in Nat /\ Len(net') = Len(net) + 1
            /\ \A k \in 1 .. Len(net) : net'[k] = net[k]
            /\ net'[Len(net) + 1] = f
        BY <4>8, AppendProperties, LenProperties
      <4>10. i \in 1 .. Len(net) \/ i = Len(net) + 1
        BY <4>9
      <4> QED
        BY <2>4, <4>7, <4>9, <4>10
    <3> QED
      BY <1>3, <3>1, <3>2 DEF ClientStep, ClientPlays, ClientStart, ClientHear,
         ClientGiveUp, LoseStatus
  <2> QED
    BY <1>0, <2>1, <2>2, <2>3, <2>4 DEF SecretInv
<1> QED
  <2>1. UNCHANGED sysVars => UNCHANGED <<vars, down, clientVars>>
    BY DEF sysVars
  <2>2. LoseFrame \/ RepeatFrame => UNCHANGED <<vars, down, clientVars>>
    BY DEF LoseFrame, RepeatFrame
  <2> QED
    BY <1>1, <1>2, <1>3, <2>1, <2>2, SystemStep

THEOREM OnlyAfterKnowingCorrect == SysSpec => []OnlyAfterKnowing
<1>1. SysInit => SecretInv
  BY EmptySeq DEF SysInit, Init, SecretInv
<1>2. SysInv /\ SecretInv /\ [SysNext]_sysVars => SecretInv'
  BY SecretStep
<1>3. SysInv /\ SecretInv => OnlyAfterKnowing
  <2> SUFFICES ASSUME SysInv, SecretInv, HardToGuess, Password, boot # <<>>
               PROVE  \E c \in Knows : tries[c] > 0
    BY DEF OnlyAfterKnowing
  <2>1. ~Unheard
    BY DEF SecretInv
  <2>2. PICK c \in Knows : tries[c] # 0
    BY <2>1 DEF Unheard
  <2>3. tries[c] \in Nat
    BY ClientAssumption DEF SysInv, ClientTypes, Client
  <2> QED
    BY <2>2, <2>3
<1> QED
  BY <1>1, <1>2, <1>3, SysInvCorrect, PTL DEF SysSpec
==============================================================================
