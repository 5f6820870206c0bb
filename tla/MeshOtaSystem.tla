---------------------------- MODULE MeshOtaSystem ----------------------------
(***************************************************************************)
(* The OTA server of MeshOta together with what it talks to, none of which *)
(* is in this repository: the clients, which follow the protocol that the  *)
(* server's README and its state machine prescribe, and the mesh between   *)
(* them, which carries datagrams.                                          *)
(*                                                                         *)
(* A client plays a script: say some bytes, cut into datagrams of any      *)
(* size, then hear one status before it says more.  It gives up on any     *)
(* status it does not expect, and may give up at any time.                 *)
(***************************************************************************)
EXTENDS MeshOta, SequencesExt

CONSTANTS
  Offer,        \* client -> digest of the image it offers
  Knows,        \* the clients that know the password
  Features,     \* the feature byte clients send
  WrongReply,   \* what a client that does not know the password answers
  MaxDatagram,  \* bound: bytes in one datagram
  MaxNet,       \* bound: datagrams in flight to the node
  MaxTries,     \* bound: how many times each client starts
  Timed,        \* time passes: the server's deadlines can be met or missed
  Lossy,        \* datagrams may be lost, in either direction
  Unordered,    \* datagrams to the node may overtake each other
  MaxRepeats,   \* bound: how many datagrams are delivered twice
  Impatient     \* clients may give up

(* The digest, features and answers of the clients are made of bytes, the  *)
(* size of an image fits its field, and the mesh can carry what they cut.  *)
ASSUME ClientAssumption ==
  /\ \A c \in Node :
       LET image == Image[Offer[c]] IN
       /\ Offer[c] \in Seq(Value) /\ Offer[c] \in DOMAIN Image
       /\ image \in Seq(Value)
       /\ Len(image) \div Radix \in Value /\ Len(image) % Radix \in Value
  /\ \A n \in Nonce : AuthReply[n] \in Seq(Value)
  /\ WrongReply \in Seq(Value) /\ Features \in Value
  /\ Knows \subseteq Node
  /\ MaxDatagram \in Nat
  /\ \A n \in 1 .. MaxDatagram : [1 .. n -> Value] \subseteq Datagram

VARIABLES
  net,    \* datagrams in flight to the node
  down,   \* client -> statuses in flight to it
  step,   \* client -> place in its script; 0 when it is not running
  said,   \* client -> bytes of that step already sent
  nonce,  \* client -> challenge received
  tries,  \* client -> how many times it has started
  repeats \* how many datagrams have been delivered twice

clientVars == <<step, said, nonce, tries>>
sysVars == <<vars, net, down, clientVars, repeats>>

Client == Node
ImageOf(c) == Image[Offer[c]]

(* The image in the blocks the client sends before it waits for CHUNK_OK.  *)
Blocks(image) ==
  LET count == (Len(image) + BlockSize - 1) \div BlockSize
  IN  [k \in 1 .. count |->
         SubSeq(image, (k - 1) * BlockSize + 1, Lesser(k * BlockSize, Len(image)))]

Line(bytes, answers) == [say |-> bytes, hear |-> answers]

ProofLines(c) ==
  IF ~Password THEN << Line(<<>>, {"AUTH_OK"}) >>
  ELSE << Line(<<>>, {"REQUEST_SHA256_AUTH"}),
          Line(IF c \in Knows /\ nonce[c] # NoNonce THEN AuthReply[nonce[c]]
                                                    ELSE WrongReply,
               {"AUTH_OK"}) >>

ImageLines(c) ==
  IF Version = 2
  THEN LET blocks == Blocks(ImageOf(c))
       IN  [k \in 1 .. Len(blocks) |-> Line(blocks[k], {"CHUNK_OK"})]
             \o << Line(<<>>, {"RECEIVE_OK"}) >>
  ELSE << Line(ImageOf(c), {"RECEIVE_OK"}) >>

Script(c) ==
  << Line(Magic, {"OK"}),
     Line(<<Features>>, {"HEADER_OK", "SUPPORTS_COMPRESSION"}) >>
  \o ProofLines(c)
  \o << Line(<<Len(ImageOf(c)) \div Radix, Len(ImageOf(c)) % Radix>>,
             {"UPDATE_PREPARE_OK"}),
        Line(Offer[c], {"BIN_MD5_OK"}) >>
  \o ImageLines(c)
  \o << Line(<<>>, {"UPDATE_END_OK"}), Line(<<0>>, {}) >>

(* Past its last line a client has done all it has to.                     *)
Finished(c) == step[c] = Len(Script(c)) + 1
Playing(c) == step[c] \in 1 .. Len(Script(c))
Current(c) == Script(c)[step[c]]

------------------------------------------------------------------------------
(* On a mesh that loses nothing nobody updates a node that is not up yet.  *)
ClientStart(c) ==
  /\ step[c] = 0 /\ tries[c] < MaxTries
  /\ Lossy \/ dev = "run"
  /\ step' = [step EXCEPT ![c] = 1]
  /\ said' = [said EXCEPT ![c] = 0]
  /\ nonce' = [nonce EXCEPT ![c] = NoNonce]
  /\ tries' = [tries EXCEPT ![c] = @ + 1]
  /\ down' = [down EXCEPT ![c] = <<>>]
  /\ UNCHANGED net

ClientSay(c) ==
  /\ Playing(c) /\ Len(net) < MaxNet
  /\ \E n \in 1 .. MaxDatagram :
       /\ said[c] + n <= Len(Current(c).say)
       /\ net' = Append(net, [from |-> c,
                              data |-> SubSeq(Current(c).say, said[c] + 1, said[c] + n)])
       /\ IF said[c] + n = Len(Current(c).say) /\ Current(c).hear = {}
          THEN /\ step' = [step EXCEPT ![c] = @ + 1]
               /\ said' = [said EXCEPT ![c] = 0]
          ELSE /\ said' = [said EXCEPT ![c] = @ + n]
               /\ UNCHANGED step
  /\ UNCHANGED <<down, nonce, tries>>

ClientHear(c) ==
  /\ Playing(c) /\ said[c] = Len(Current(c).say) /\ down[c] # <<>>
  /\ IF Head(down[c]).code \in Current(c).hear
     THEN /\ step' = [step EXCEPT ![c] = @ + 1]
          /\ nonce' = IF Head(down[c]).nonce = NoNonce THEN nonce
                      ELSE [nonce EXCEPT ![c] = Head(down[c]).nonce]
     ELSE /\ step' = [step EXCEPT ![c] = 0]
          /\ UNCHANGED nonce
  /\ said' = [said EXCEPT ![c] = 0]
  /\ down' = [down EXCEPT ![c] = Tail(@)]
  /\ UNCHANGED <<net, tries>>

ClientGiveUp(c) ==
  /\ Impatient /\ Playing(c)
  /\ step' = [step EXCEPT ![c] = 0]
  /\ said' = [said EXCEPT ![c] = 0]
  /\ down' = [down EXCEPT ![c] = <<>>]
  /\ UNCHANGED <<net, nonce, tries>>

ClientPlays(c) ==
  /\ ClientStart(c) \/ ClientSay(c) \/ ClientHear(c)
  /\ UNCHANGED <<vars, repeats>>

ClientStep(c) ==
  ClientPlays(c) \/ (ClientGiveUp(c) /\ UNCHANGED <<vars, repeats>>)

------------------------------------------------------------------------------
(* What a step of the node handed to the mesh, one status at most, goes to *)
(* the client it names, if that is still listening.                        *)
Reaches(c) == Playing(c) /\ tx' # <<>> /\ Head(tx').to = c
Route ==
  down' = [c \in Client |-> IF Reaches(c) THEN Append(down[c], Head(tx')) ELSE down[c]]

DeliverAt(i) ==
  /\ HandleFrame(net[i].from, net[i].data)
  /\ net' = RemoveAt(net, i)
  /\ Route
  /\ UNCHANGED <<clientVars, repeats>>

Deliver == net # <<>> /\ DeliverAt(1)
Overtake == Unordered /\ \E i \in 2 .. Len(net) : DeliverAt(i)

(* A node that is not running hears nothing.                               *)
LoseFrame ==
  /\ net # <<>>
  /\ Lossy \/ dev # "run"
  /\ net' = Tail(net)
  /\ UNCHANGED <<vars, down, clientVars, repeats>>

RepeatFrame ==
  /\ net # <<>> /\ repeats < MaxRepeats
  /\ net' = Append(net, Head(net))
  /\ repeats' = repeats + 1
  /\ UNCHANGED <<vars, down, clientVars>>

LoseStatus(c) ==
  /\ Lossy /\ down[c] # <<>>
  /\ down' = [down EXCEPT ![c] = Tail(@)]
  /\ UNCHANGED <<vars, net, clientVars, repeats>>

NodeStep ==
  /\ Device \/ OnShutdown \/ Reset \/ (Timed /\ Tick)
  /\ Route
  /\ UNCHANGED <<net, clientVars, repeats>>

SysInit ==
  /\ Init
  /\ net = <<>>
  /\ down = [c \in Client |-> <<>>]
  /\ step = [c \in Client |-> 0]
  /\ said = [c \in Client |-> 0]
  /\ nonce = [c \in Client |-> NoNonce]
  /\ tries = [c \in Client |-> 0]
  /\ repeats = 0

SysNext ==
  \/ NodeStep \/ Deliver \/ Overtake \/ LoseFrame \/ RepeatFrame
  \/ \E c \in Client : ClientStep(c) \/ LoseStatus(c)

SysSpec == SysInit /\ [][SysNext]_sysVars

(* The node's loop runs, the mesh delivers, and a client that is playing   *)
(* its script goes on with it.  Delivery is strongly fair because the mesh *)
(* component's loop() runs between any two calls of the server's loop().   *)
SysFairSpec ==
  /\ SysSpec
  /\ WF_sysVars(NodeStep)
  /\ SF_sysVars(Deliver)
  /\ \A c \in Client : WF_sysVars(ClientPlays(c))
------------------------------------------------------------------------------
(* The bytes client c has on their way to the node, each by its datagram's *)
(* place and its own.                                                      *)
BytesOf(flying, c) ==
  UNION {{i} \X DOMAIN flying[i].data : i \in {k \in DOMAIN flying : flying[k].from = c}}
InFlight(c) == Cardinality(BytesOf(net, c))

(* With version 2 the receive buffer cannot overflow: what the session's   *)
(* client has in flight fits beside what waits to be read, because CHUNK_OK *)
(* is sent only for what has been taken out of the buffer, and the buffer  *)
(* holds a block (RX_RING_MAX = OTA_BLOCK_SIZE).                           *)
ReceiveWindow == has_peer => Len(rx) + InFlight(peer) <= RxRingMax

(* No client that follows the protocol can bring the node down.            *)
NoCrash == dev # "crash"

(* A client that has been told UPDATE_END_OK is right that the node will   *)
(* boot its image, whatever happened to the datagrams before and whatever  *)
(* happens to the node after.                                              *)
Agreement ==
  \A c \in Client : step[c] >= Len(Script(c)) => boot = ImageOf(c)

(* Only somebody who knows the password, and has begun an update, decides  *)
(* what the node boots.                                                    *)
OnlyKnowing ==
  Password => boot = <<>> \/ \E c \in Knows : boot = ImageOf(c) /\ tries[c] > 0

(* The byte values of all that clients who do not know the password say,   *)
(* and that the password is not made of them: every answer to a challenge  *)
(* has a byte that none of them ever sends.                                *)
Guessable ==
  UNION {ToSet(Magic) \cup ToSet(WrongReply) \cup ToSet(Offer[c]) \cup ToSet(ImageOf(c))
           \cup {Features, Len(ImageOf(c)) \div Radix, Len(ImageOf(c)) % Radix, 0}
         : c \in Client \ Knows}
HardToGuess == \A n \in Nonce : ~(ToSet(AuthReply[n]) \subseteq Guessable)

(* With a password the node boots what it did for as long as nobody who    *)
(* knows it has begun an update, whatever the others send and however the  *)
(* mesh cuts, loses, repeats and mixes it.                                 *)
OnlyAfterKnowing ==
  HardToGuess /\ Password /\ boot # <<>> => \E c \in Knows : tries[c] > 0

(* On a mesh that delivers, and in time, every transfer is completed: the  *)
(* client is told so and the node restarts into the image.                 *)
TransferCompletes ==
  \A c \in Client : <>(Finished(c) /\ boot = ImageOf(c) /\ dev = "boot")

(* A session is made of its peer's bytes: no field of it is completed with *)
(* what another node sent.                                                 *)
SessionBytesFromPeer ==
  dev = "run" /\ has_peer =>
    \A b \in ToSet(rx) \cup ToSet(hs_buf) \cup ToSet(auth_in) \cup ToSet(data_buf) :
      b.from = peer

(* Before RECEIVE_OK is sent, CHUNK_OK has covered the whole image.        *)
EveryBlockAcknowledged ==
  Version = 2 /\ ota_state = "DATA_RECEIVE_OK" => size_acknowledged >= ota_size
==============================================================================
