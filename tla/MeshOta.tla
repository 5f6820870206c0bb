------------------------------- MODULE MeshOta -------------------------------
(***************************************************************************)
(* The datagram OTA server of a mesh node (meshmesh/ota): one session at a *)
(* time, driven from two places.  handle_frame_ is the mesh socket's       *)
(* callback: it runs while the mesh component's loop() runs, that is       *)
(* between two calls of loop() here, and inside one call when that call    *)
(* yields.  loop() runs one step of the session's state machine.           *)
(*                                                                         *)
(* A call of loop() is cut into one action per case label of the two       *)
(* switch statements.  pc = "step" is control inside a switch, about to    *)
(* execute the label ota_state: no other action of the node can run there, *)
(* so a fall-through stays atomic.  pc = "main" is control outside loop(); *)
(* "size" and "md5" are the yield inside the blocking readall_() of those  *)
(* two fields, where frames, time and a reset can intervene; "chunks" is   *)
(* the CHUNK_OK loop.                                                      *)
(*                                                                         *)
(* Time is counted from the start that check_timeout_ subtracts: elapsed   *)
(* is millis() - start, saturating once it exceeds every timeout.          *)
(*                                                                         *)
(* A byte carries, besides its value, the node that sent it: the program   *)
(* cannot see that, the properties can.                                    *)
(***************************************************************************)
EXTENDS Integers, Sequences

CONSTANTS
  Node,              \* addresses of the nodes that may send datagrams
  NoNode,            \* the address of a cleared MeshAddress
  Value,             \* values of a byte
  Magic,             \* MAGIC_BYTES
  Radix,             \* number of byte values, in the big-endian size field
  Image,             \* digest bytes -> the image with that digest
  Md5Len,            \* bytes of the digest field (32)
  Nonce,             \* challenges random_bytes() can produce
  NoNonce,           \* auth_buf_ is null
  AuthLen,           \* bytes of client nonce and response (128)
  AuthReply,         \* nonce -> the bytes that answer it with the password
  Password,          \* a non-empty password is configured
  Version,           \* USE_OTA_VERSION
  BlockSize,         \* OTA_BLOCK_SIZE
  BufSize,           \* OTA_BUFFER_SIZE
  RxRingMax,         \* RX_RING_MAX
  SlotSize,          \* largest image the backend's begin() accepts
  HandshakeTimeout,  \* OTA_TIMEOUT_HANDSHAKE_MS, in ticks
  DataTimeout,       \* OTA_TIMEOUT_DATA_MS, in ticks
  Datagram,          \* payloads a datagram to the OTA port can have
  SendMayFail,       \* sendDatagram() may return an error
  FaultsMayHappen    \* backend, RNG or socket may fail, the node may reset

SizeLen == 2  \* bytes of the size field (4)

ASSUME NodeAssumption == NoNode \notin Node

ASSUME WireAssumption ==
  /\ Value \subseteq Nat
  /\ 0 \in Value
  /\ Datagram \subseteq Seq(Value) \ {<<>>}
  /\ Magic \in Seq(Value) \ {<<>>}
  /\ Radix \in Nat
  /\ Md5Len \in Nat \ {0}
  /\ AuthLen \in Nat \ {0}
  /\ NoNonce \notin Nonce

ASSUME LimitAssumption ==
  /\ Version \in {1, 2}
  /\ BlockSize \in Nat \ {0}
  /\ BufSize \in Nat \ {0}
  /\ RxRingMax \in Nat
  /\ SlotSize \in Nat

ASSUME TimeAssumption ==
  /\ HandshakeTimeout \in Nat
  /\ DataTimeout \in Nat
  /\ HandshakeTimeout <= DataTimeout

ASSUME SwitchAssumption ==
  /\ Password \in BOOLEAN
  /\ SendMayFail \in BOOLEAN
  /\ FaultsMayHappen \in BOOLEAN

VARIABLES
  dev,                \* life of the node: boot, run, failed, off, crash
  pc,                 \* where control is, see above
  ota_state,          \* ota_state_
  has_peer,           \* has_peer_
  peer,               \* peer_.address
  rx,                 \* unread bytes of rx_buf_, from rx_read_pos_ on
  hs_buf,             \* handshake_buf_[0 .. handshake_buf_pos_) while reading
  ota_features,       \* ota_features_
  auth_nonce,         \* challenge held in auth_buf_, NoNonce if that is null
  auth_in,            \* auth_buf_ after the challenge, up to auth_buf_pos_
  proved,             \* history: the password was proved in this session
  backend,            \* backend_ is not null
  update_started,     \* update_started_
  slot,               \* inactive flash slot: closed, open, valid (ended)
  md5,                \* what set_update_md5 was given
  flash,              \* what was written to the slot since begin
  ota_size,           \* ota_size_
  firmware_total,     \* firmware_total_
  size_acknowledged,  \* size_acknowledged_
  data_buf,           \* data_buf_[0 .. at) of the running readall_
  elapsed,            \* millis() minus the start check_timeout_ takes
  uptime,             \* millis(), saturating like elapsed
  boot,               \* the image the boot loader starts: survives a reset
  tx                  \* the datagrams this step handed to the mesh

peerVars    == <<has_peer, peer>>
shakeVars   == <<hs_buf, ota_features>>
authVars    == <<auth_nonce, auth_in, proved>>
backendVars == <<backend, update_started>>
slotVars    == <<slot, md5, flash>>
countVars   == <<ota_size, firmware_total, size_acknowledged>>
updateVars  == <<backendVars, slotVars, countVars>>
timeVars    == <<elapsed, uptime>>

vars == <<dev, pc, ota_state, peerVars, rx, shakeVars, authVars, updateVars,
          data_buf, timeVars, boot, tx>>

OTAHandshake ==
  {"IDLE", "MAGIC_READ", "MAGIC_ACK", "FEATURE_READ", "FEATURE_ACK",
   "AUTH_SEND", "AUTH_READ"}
OTAData ==
  {"DATA_AUTH_OK", "DATA_SIZE", "DATA_BEGIN", "DATA_PREPARE_OK", "DATA_MD5",
   "DATA_MD5_OK", "DATA_FIRMWARE", "DATA_RECEIVE_OK", "DATA_END",
   "DATA_END_OK", "DATA_FINAL_ACK", "DATA_REBOOT"}
OTAState == OTAHandshake \cup OTAData

ResponseError ==
  {"ERROR_MAGIC", "ERROR_AUTH_INVALID", "ERROR_UNKNOWN", "ERROR_BACKEND"}
Response ==
  {"OK", "HEADER_OK", "SUPPORTS_COMPRESSION", "REQUEST_SHA256_AUTH", "AUTH_OK",
   "UPDATE_PREPARE_OK", "BIN_MD5_OK", "CHUNK_OK", "RECEIVE_OK", "UPDATE_END_OK"}
    \cup ResponseError

Byte == [from : Node, v : Value]
Reply ==
  [to : Node \cup {NoNode}, code : Response, nonce : Nonce \cup {NoNonce}]

Values(s) == [i \in 1 .. Len(s) |-> s[i].v]
Bytes(from, data) == [i \in 1 .. Len(data) |-> [from |-> from, v |-> data[i]]]
SizeOf(s) == s[1].v * Radix + s[2].v

SupportsCompression == ota_features % 2 = 1
SupportsSha256 == (ota_features \div 2) % 2 = 1

Lesser(a, b) == IF a <= b THEN a ELSE b
TimeCap == DataTimeout + 1

------------------------------------------------------------------------------
(* Helpers the handlers are built from.                                    *)

(* rx_read_: at most n bytes leave the head of the receive buffer.         *)
RxTake(n) == SubSeq(rx, 1, Lesser(n, Len(rx)))
RxRest(n) == SubSeq(rx, Lesser(n, Len(rx)) + 1, Len(rx))

RxOverflowOffByOne(n) == Len(rx) + n > RxRingMax + 1
RxOverflowWhenFull(n) == Len(rx) + n >= RxRingMax
RxOverflow(n) == Len(rx) + n > RxRingMax

(* send_to_peer_: true is "handed to the mesh", not "delivered".           *)
SendNonce(code, n) ==
  /\ has_peer
  /\ tx' = << [to |-> peer, code |-> code, nonce |-> n] >>
Send(code) == SendNonce(code, NoNonce)
SendFails ==
  /\ SendMayFail \/ ~has_peer
  /\ tx' = <<>>
Silent == tx' = <<>>

(* Control leaves the handler it is in: the caller of loop() goes on.      *)
Return ==
  /\ pc' = "main"
  /\ data_buf' = <<>>

(* transition_ota_state_, which also rewinds handshake_buf_.               *)
Transition(next) ==
  /\ ota_state' = next
  /\ hs_buf' = <<>>

(* check_timeout_ *)
TimedOutNever(t) == FALSE
TimedOut(t) == elapsed > t

(* cleanup_auth_ *)
CleanupAuthKeepsPosition ==
  /\ auth_nonce' = NoNonce
  /\ UNCHANGED auth_in
CleanupAuth ==
  /\ auth_nonce' = NoNonce
  /\ auth_in' = <<>>

(* What cleanup_session_ clears.  Dropping backend_ does not close a slot   *)
(* its begin() opened: only abort() and end() do.                          *)
ClearSession ==
  /\ has_peer' = FALSE
  /\ peer' = NoNode
  /\ rx' = <<>>
  /\ Transition("IDLE")
  /\ ota_features' = 0
  /\ CleanupAuth
  /\ proved' = FALSE
  /\ backend' = FALSE
  /\ update_started' = FALSE
  /\ ota_size' = 0
  /\ firmware_total' = 0
  /\ size_acknowledged' = 0

(* cleanup_session_: with the starts of both timers zeroed, millis() minus *)
(* start is the uptime.                                                    *)
Cleanup ==
  /\ ClearSession
  /\ elapsed' = uptime
  /\ UNCHANGED uptime

CloseSlot ==
  /\ slot' = "closed"
  /\ md5' = <<>>
  /\ flash' = <<>>

(* send_error_and_cleanup_ *)
MustAbortNever == FALSE
MustAbort == backend /\ update_started

SendErrorAndCleanup(code) ==
  /\ Send(code) \/ SendFails
  /\ IF MustAbort THEN CloseSlot ELSE UNCHANGED slotVars
  /\ Cleanup

(* The digest backend_->end() computes over what was written is the one    *)
(* set_update_md5 announced.                                               *)
ImageAcceptedUnverified == TRUE
ImageAccepted == md5 \in DOMAIN Image /\ Image[md5] = flash

------------------------------------------------------------------------------
Init ==
  /\ dev = "boot"
  /\ pc = "main"
  /\ ota_state = "IDLE"
  /\ has_peer = FALSE
  /\ peer = NoNode
  /\ rx = <<>>
  /\ hs_buf = <<>>
  /\ ota_features = 0
  /\ auth_nonce = NoNonce
  /\ auth_in = <<>>
  /\ proved = FALSE
  /\ backend = FALSE
  /\ update_started = FALSE
  /\ slot = "closed"
  /\ md5 = <<>>
  /\ flash = <<>>
  /\ ota_size = 0
  /\ firmware_total = 0
  /\ size_acknowledged = 0
  /\ data_buf = <<>>
  /\ elapsed = 0
  /\ uptime = 0
  /\ boot = <<>>
  /\ tx = <<>>

sessionVars == <<ota_state, peerVars, rx, shakeVars, authVars, updateVars>>

(* setup(): without an open socket the component is marked failed and its  *)
(* loop() is never called.                                                 *)
Setup ==
  /\ dev = "boot"
  /\ \/ dev' = "run"
     \/ FaultsMayHappen /\ dev' = "failed"
  /\ Silent
  /\ UNCHANGED <<pc, sessionVars, data_buf, timeVars, boot>>

(* on_shutdown() when something else than an update restarts the node.     *)
OnShutdown ==
  /\ FaultsMayHappen
  /\ dev = "run" /\ pc = "main"
  /\ dev' = "off"
  /\ Silent
  /\ UNCHANGED <<pc, sessionVars, data_buf, timeVars, boot>>

(* Power loss, watchdog or the restart that follows a shutdown: everything *)
(* in RAM is lost, and the boot slot is what it was.                       *)
Reset ==
  /\ FaultsMayHappen \/ dev \in {"off", "crash"}
  /\ dev' = "boot"
  /\ Return
  /\ ClearSession
  /\ CloseSlot
  /\ elapsed' = 0
  /\ uptime' = 0
  /\ Silent
  /\ UNCHANGED boot

(* millis() advances while control is outside the handlers or in a yield.  *)
Tick ==
  /\ dev = "run"
  /\ pc \in {"main", "size", "md5"}
  /\ elapsed < TimeCap \/ uptime < TimeCap
  /\ elapsed' = Lesser(elapsed + 1, TimeCap)
  /\ uptime' = Lesser(uptime + 1, TimeCap)
  /\ Silent
  /\ UNCHANGED <<dev, pc, sessionVars, data_buf, boot>>

------------------------------------------------------------------------------
(* handle_frame_: a datagram from another node than the session's peer is  *)
(* dropped; outside a session every datagram makes its sender the peer,    *)
(* but it is loop() that opens the session.                                *)
FrameOpensSessionAtOnce == TRUE
FrameOpensSession == has_peer

HandleFrame(from, data) ==
  /\ dev = "run"
  /\ pc \in {"main", "size", "md5"}
  /\ \/ /\ has_peer /\ from # peer
        /\ Silent
        /\ UNCHANGED <<sessionVars, timeVars>>
     \/ /\ has_peer => from = peer
        /\ RxOverflow(Len(data))
        /\ SendErrorAndCleanup("ERROR_UNKNOWN")
     \/ /\ has_peer => from = peer
        /\ ~RxOverflow(Len(data))
        /\ peer' = from
        /\ has_peer' = FrameOpensSession
        /\ rx' = rx \o Bytes(from, data)
        /\ Silent
        /\ UNCHANGED <<ota_state, shakeVars, authVars, updateVars, timeVars>>
  /\ UNCHANGED <<dev, pc, data_buf, boot>>

------------------------------------------------------------------------------
(* loop(): the session begins with the first byte found in the receive     *)
(* buffer; a session past its deadline ends before its step is taken.      *)
AtLoop == dev = "run" /\ pc = "main"

StartSession ==
  /\ AtLoop
  /\ ota_state = "IDLE"
  /\ rx # <<>>
  /\ has_peer' = TRUE
  /\ elapsed' = 0
  /\ Transition("MAGIC_READ")
  /\ pc' = "step"
  /\ Silent
  /\ UNCHANGED <<dev, peer, rx, ota_features, authVars, updateVars, data_buf,
                 uptime, boot>>

LoopHandshake ==
  /\ AtLoop
  /\ ota_state \in OTAHandshake \ {"IDLE"}
  /\ Silent
  /\ \/ /\ TimedOut(HandshakeTimeout)
        /\ Cleanup
        /\ UNCHANGED <<pc, slotVars>>
     \/ /\ ~TimedOut(HandshakeTimeout)
        /\ pc' = "step"
        /\ UNCHANGED <<sessionVars, timeVars>>
  /\ UNCHANGED <<dev, data_buf, boot>>

LoopData ==
  /\ AtLoop
  /\ ota_state \in OTAData
  /\ \/ /\ TimedOut(DataTimeout)
        /\ SendErrorAndCleanup("ERROR_UNKNOWN")
        /\ UNCHANGED pc
     \/ /\ ~TimedOut(DataTimeout)
        /\ pc' = "step"
        /\ Silent
        /\ UNCHANGED <<sessionVars, timeVars>>
  /\ UNCHANGED <<dev, data_buf, boot>>

At(state) == dev = "run" /\ pc = "step" /\ ota_state = state

(* Abandon the session from inside a handler, then return.                 *)
Fail(code) ==
  /\ SendErrorAndCleanup(code)
  /\ Return
  /\ UNCHANGED <<dev, boot>>

(* Send a status and go to the next state, or return and send it again at  *)
(* the next call.                                                          *)
SendThen(code, next, control) ==
  \/ /\ Send(code)
     /\ Transition(next)
     /\ pc' = control
  \/ /\ SendFails
     /\ pc' = "main"
     /\ UNCHANGED <<ota_state, hs_buf>>

------------------------------------------------------------------------------
(* handle_handshake_                                                       *)
MagicRead ==
  LET got == hs_buf \o RxTake(Len(Magic) - Len(hs_buf)) IN
  /\ At("MAGIC_READ")
  /\ \/ /\ Len(got) = Len(Magic) /\ Values(got) # Magic
        /\ Fail("ERROR_MAGIC")
     \/ /\ \/ /\ Len(got) < Len(Magic)
              /\ hs_buf' = got
              /\ Return
              /\ UNCHANGED ota_state
           \/ /\ Values(got) = Magic
              /\ Transition("MAGIC_ACK")
              /\ UNCHANGED <<pc, data_buf>>
        /\ rx' = RxRest(Len(Magic) - Len(hs_buf))
        /\ Silent
        /\ UNCHANGED <<dev, peerVars, ota_features, authVars, updateVars,
                       timeVars, boot>>

MagicAck ==
  /\ At("MAGIC_ACK")
  /\ SendThen("OK", "FEATURE_READ", "step")
  /\ backend' = (backend \/ ota_state' = "FEATURE_READ")
  /\ UNCHANGED <<dev, peerVars, rx, ota_features, authVars, update_started,
                 slotVars, countVars, data_buf, timeVars, boot>>

FeatureRead ==
  /\ At("FEATURE_READ")
  /\ \/ /\ rx = <<>>
        /\ pc' = "main"
        /\ UNCHANGED <<ota_state, rx, shakeVars>>
     \/ /\ rx # <<>>
        /\ ota_features' = Head(rx).v
        /\ rx' = Tail(rx)
        /\ Transition("FEATURE_ACK")
        /\ UNCHANGED pc
  /\ Silent
  /\ UNCHANGED <<dev, peerVars, authVars, updateVars,
                 data_buf, timeVars, boot>>

(* Whether the backend can inflate a compressed image is the platform's.   *)
AfterFeatures == IF Password THEN "AUTH_SEND" ELSE "DATA_AUTH_OK"

FeatureAck ==
  /\ At("FEATURE_ACK")
  /\ \/ SendThen("HEADER_OK", AfterFeatures, "main")
     \/ /\ SupportsCompression
        /\ SendThen("SUPPORTS_COMPRESSION", AfterFeatures, "main")
  /\ elapsed' = IF ota_state' = "DATA_AUTH_OK" THEN 0 ELSE elapsed
  /\ UNCHANGED <<dev, peerVars, rx, ota_features, authVars, updateVars,
                 data_buf, uptime, boot>>

(* handle_auth_send_: the challenge is drawn once and sent until it leaves. *)
AuthSend ==
  /\ At("AUTH_SEND")
  /\ \/ /\ auth_nonce = NoNonce /\ ~SupportsSha256
        /\ Fail("ERROR_AUTH_INVALID")
     \/ /\ auth_nonce = NoNonce /\ SupportsSha256 /\ FaultsMayHappen
        /\ Fail("ERROR_UNKNOWN")
     \/ /\ auth_nonce = NoNonce => SupportsSha256
        /\ auth_nonce' \in IF auth_nonce = NoNonce THEN Nonce ELSE {auth_nonce}
        /\ \/ /\ SendNonce("REQUEST_SHA256_AUTH", auth_nonce')
              /\ Transition("AUTH_READ")
              /\ UNCHANGED pc
           \/ /\ SendFails
              /\ pc' = "main"
              /\ UNCHANGED <<ota_state, hs_buf>>
        /\ UNCHANGED <<dev, peerVars, rx, ota_features, auth_in, proved,
                       updateVars, data_buf, timeVars, boot>>

AnswersPrefix(got) == got[1].v = AuthReply[auth_nonce][1]
Answers(got) == Values(got) = AuthReply[auth_nonce]

(* handle_auth_read_: the response is compared once all of it is there.    *)
AuthRead ==
  LET got == auth_in \o RxTake(AuthLen - Len(auth_in)) IN
  /\ At("AUTH_READ")
  /\ \/ /\ Len(got) = AuthLen /\ ~Answers(got)
        /\ Fail("ERROR_AUTH_INVALID")
     \/ /\ \/ /\ Len(got) < AuthLen
              /\ auth_in' = got
              /\ UNCHANGED <<ota_state, hs_buf, auth_nonce, proved, elapsed>>
           \/ /\ Len(got) = AuthLen /\ Answers(got)
              /\ CleanupAuth
              /\ proved' = TRUE
              /\ Transition("DATA_AUTH_OK")
              /\ elapsed' = 0
        /\ rx' = RxRest(AuthLen - Len(auth_in))
        /\ Return
        /\ Silent
        /\ UNCHANGED <<dev, peerVars, ota_features, updateVars, uptime, boot>>

------------------------------------------------------------------------------
(* handle_data_step_                                                       *)
heldVars == <<dev, peerVars, ota_features, authVars, timeVars, boot>>

(* The labels that only send a status, and those that return after it.     *)
Status ==
  [DATA_AUTH_OK    |-> [code |-> "AUTH_OK",           next |-> "DATA_SIZE"],
   DATA_PREPARE_OK |-> [code |-> "UPDATE_PREPARE_OK", next |-> "DATA_MD5"],
   DATA_MD5_OK     |-> [code |-> "BIN_MD5_OK",        next |-> "DATA_FIRMWARE"],
   DATA_RECEIVE_OK |-> [code |-> "RECEIVE_OK",        next |-> "DATA_END"],
   DATA_END_OK     |-> [code |-> "UPDATE_END_OK",     next |-> "DATA_FINAL_ACK"]]
Returning == {"DATA_MD5_OK", "DATA_END_OK"}

DataStatus ==
  /\ ota_state \in DOMAIN Status
  /\ At(ota_state)
  /\ SendThen(Status[ota_state].code, Status[ota_state].next,
              IF ota_state \in Returning THEN "main" ELSE "step")
  /\ UNCHANGED <<heldVars, rx, updateVars, data_buf>>

(* readall_: the part of the field that has arrived is taken, and while it *)
(* is not the whole the handler yields; after each yield the deadline is   *)
(* checked before anything more is taken.  The yield lets handle_frame_    *)
(* run, so the session may be gone when control comes back.                *)
Reading(state, yield) == At(state) \/ (dev = "run" /\ pc = yield)

ReadallTimesOut(yield) ==
  /\ dev = "run" /\ pc = yield
  /\ TimedOut(DataTimeout)
  /\ Fail("ERROR_UNKNOWN")

ReadallYields(state, yield, len) ==
  LET got == data_buf \o RxTake(len - Len(data_buf)) IN
  /\ Reading(state, yield)
  /\ pc = yield => ~TimedOut(DataTimeout)
  /\ Len(got) < len
  /\ pc = "step" \/ rx # <<>>
  /\ data_buf' = got
  /\ rx' = RxRest(len - Len(data_buf))
  /\ pc' = yield
  /\ Silent
  /\ UNCHANGED <<heldVars, ota_state, hs_buf, updateVars>>

ReadallTakes(state, yield, len) ==
  /\ Reading(state, yield)
  /\ pc = yield => ~TimedOut(DataTimeout)
  /\ Len(data_buf) + Len(rx) >= len
  /\ rx' = RxRest(len - Len(data_buf))
  /\ data_buf' = <<>>
  /\ Silent

DataSize ==
  \/ ReadallTimesOut("size")
  \/ ReadallYields("DATA_SIZE", "size", SizeLen)
  \/ /\ ReadallTakes("DATA_SIZE", "size", SizeLen)
     /\ ota_size' = SizeOf(data_buf \o RxTake(SizeLen - Len(data_buf)))
     /\ Transition("DATA_BEGIN")
     /\ pc' = "step"
     /\ UNCHANGED <<heldVars, backendVars, slotVars,
                    firmware_total, size_acknowledged>>

(* A call through a null backend_ ends the program.                        *)
Crash ==
  /\ dev' = "crash"
  /\ Return
  /\ Silent
  /\ UNCHANGED <<sessionVars, timeVars, boot>>

DataBegin ==
  /\ At("DATA_BEGIN")
  /\ \/ ~backend /\ Crash
     \/ /\ backend
        /\ ota_size > SlotSize \/ slot = "open" \/ FaultsMayHappen
        /\ Fail("ERROR_BACKEND")
     \/ /\ backend
        /\ ota_size <= SlotSize /\ slot # "open"
        /\ slot' = "open"
        /\ md5' = <<>>
        /\ flash' = <<>>
        /\ update_started' = TRUE
        /\ firmware_total' = 0
        /\ size_acknowledged' = 0
        /\ Transition("DATA_PREPARE_OK")
        /\ Silent
        /\ UNCHANGED <<heldVars, pc, rx, backend, ota_size, data_buf>>

DataMd5 ==
  \/ ReadallTimesOut("md5")
  \/ ReadallYields("DATA_MD5", "md5", Md5Len)
  \/ /\ ReadallTakes("DATA_MD5", "md5", Md5Len)
     /\ \/ /\ ~backend
           /\ dev' = "crash"
           /\ pc' = "main"
           /\ UNCHANGED <<ota_state, hs_buf, md5>>
        \/ /\ backend
           /\ md5' = Values(data_buf \o RxTake(Md5Len - Len(data_buf)))
           /\ Transition("DATA_MD5_OK")
           /\ pc' = "step"
           /\ UNCHANGED dev
     /\ UNCHANGED <<peerVars, ota_features, authVars, timeVars, boot,
                    backendVars, slot, flash, countVars>>

(* One read of at most a buffer is written per call of loop().             *)
DataFirmware ==
  LET chunk == RxTake(Lesser(ota_size - firmware_total, BufSize)) IN
  /\ At("DATA_FIRMWARE")
  /\ \/ /\ firmware_total >= ota_size
        /\ Transition("DATA_RECEIVE_OK")
        /\ pc' = "main"
        /\ Silent
        /\ UNCHANGED <<heldVars, rx, updateVars, data_buf>>
     \/ /\ firmware_total < ota_size /\ rx = <<>>
        /\ pc' = "main"
        /\ Silent
        /\ UNCHANGED <<heldVars, rx, ota_state, hs_buf, updateVars, data_buf>>
     \/ /\ firmware_total < ota_size /\ rx # <<>>
        /\ FaultsMayHappen
        /\ Fail("ERROR_BACKEND")
     \/ /\ firmware_total < ota_size /\ rx # <<>>
        /\ rx' = RxRest(Lesser(ota_size - firmware_total, BufSize))
        /\ flash' = flash \o Values(chunk)
        /\ firmware_total' = firmware_total + Len(chunk)
        /\ pc' = IF Version = 2 THEN "chunks" ELSE "main"
        /\ Silent
        /\ UNCHANGED <<heldVars, ota_state, hs_buf, backendVars, slot,
                       md5, ota_size, size_acknowledged, data_buf>>

ChunkDueEarly ==
  \/ size_acknowledged + BlockSize <= firmware_total + BufSize
  \/ firmware_total = ota_size /\ size_acknowledged < ota_size
ChunkDueFullBlocksOnly == size_acknowledged + BlockSize <= firmware_total
ChunkDue ==
  \/ size_acknowledged + BlockSize <= firmware_total
  \/ firmware_total = ota_size /\ size_acknowledged < ota_size

(* One turn of the CHUNK_OK loop.  A failed send leaves the loop: what was *)
(* not acknowledged is looked at again only after the next write.          *)
DataChunkOk ==
  /\ dev = "run" /\ pc = "chunks"
  /\ \/ /\ ChunkDue
        /\ Send("CHUNK_OK")
        /\ size_acknowledged' = size_acknowledged + BlockSize
        /\ UNCHANGED pc
     \/ /\ ChunkDue
        /\ SendFails
        /\ pc' = "main"
        /\ UNCHANGED size_acknowledged
     \/ /\ ~ChunkDue
        /\ Silent
        /\ pc' = "main"
        /\ UNCHANGED size_acknowledged
  /\ UNCHANGED <<heldVars, ota_state, rx, hs_buf, backendVars, slotVars,
                 ota_size, firmware_total, data_buf>>

(* backend_->end() verifies the digest and makes the slot the boot slot.   *)
DataEnd ==
  /\ At("DATA_END")
  /\ \/ /\ ~ImageAccepted \/ FaultsMayHappen
        /\ Fail("ERROR_BACKEND")
     \/ /\ ImageAccepted
        /\ slot' = "valid"
        /\ boot' = flash
        /\ Transition("DATA_END_OK")
        /\ Silent
        /\ UNCHANGED <<dev, pc, peerVars, rx, ota_features, authVars,
                       backendVars, md5, flash, countVars, data_buf, timeVars>>

(* Whatever the byte is, the client has answered.                          *)
DataFinalAck ==
  /\ At("DATA_FINAL_ACK")
  /\ \/ /\ rx = <<>>
        /\ pc' = "main"
        /\ UNCHANGED <<ota_state, rx, hs_buf>>
     \/ /\ rx # <<>>
        /\ rx' = Tail(rx)
        /\ Transition("DATA_REBOOT")
        /\ UNCHANGED pc
  /\ Silent
  /\ UNCHANGED <<heldVars, updateVars, data_buf>>

(* safe_reboot() runs on_shutdown() and does not return.                   *)
DataReboot ==
  /\ At("DATA_REBOOT")
  /\ Cleanup
  /\ Return
  /\ dev' = "off"
  /\ Silent
  /\ UNCHANGED <<slotVars, boot>>

------------------------------------------------------------------------------
HandshakeStep ==
  MagicRead \/ MagicAck \/ FeatureRead \/ FeatureAck \/ AuthSend \/ AuthRead

DataStep ==
  \/ DataStatus \/ DataSize \/ DataBegin \/ DataMd5 \/ DataFirmware
  \/ DataChunkOk \/ DataEnd \/ DataFinalAck \/ DataReboot

(* What the node's scheduler runs: setup() once, loop() again and again.   *)
Device ==
  \/ Setup \/ StartSession \/ LoopHandshake \/ LoopData
  \/ HandshakeStep \/ DataStep

(* The node among nodes that may send it anything at any time.             *)
Next ==
  \/ Device \/ OnShutdown \/ Reset \/ Tick
  \/ \E from \in Node, data \in Datagram : HandleFrame(from, data)

Spec == Init /\ [][Next]_vars

(* The main loop keeps calling loop(), and time passes between the calls   *)
(* (strongly fair, for a tick has to wait while a handler runs).           *)
Fairness == WF_vars(Device) /\ SF_vars(Tick)
FairSpec == Spec /\ Fairness

------------------------------------------------------------------------------
(* Every variable has its type, and no buffer of the component ever holds  *)
(* more than it was allocated for.                                         *)
TypeOK ==
  /\ dev \in {"boot", "run", "failed", "off", "crash"}
  /\ pc \in {"main", "step", "size", "md5", "chunks"}
  /\ ota_state \in OTAState
  /\ has_peer \in BOOLEAN
  /\ peer \in Node \cup {NoNode}
  /\ rx \in Seq(Byte) /\ Len(rx) <= RxRingMax
  /\ hs_buf \in Seq(Byte) /\ Len(hs_buf) < Len(Magic)
  /\ ota_features \in Nat
  /\ auth_nonce \in Nonce \cup {NoNonce}
  /\ auth_in \in Seq(Byte) /\ Len(auth_in) < AuthLen
  /\ proved \in BOOLEAN
  /\ backend \in BOOLEAN
  /\ update_started \in BOOLEAN
  /\ slot \in {"closed", "open", "valid"}
  /\ md5 \in Seq(Value)
  /\ flash \in Seq(Value)
  /\ ota_size \in Nat
  /\ firmware_total \in Nat
  /\ size_acknowledged \in Nat
  /\ data_buf \in Seq(Byte)
  /\ \/ data_buf = <<>>
     \/ pc = "size" /\ Len(data_buf) < SizeLen
     \/ pc = "md5" /\ Len(data_buf) < Md5Len
  /\ elapsed \in 0 .. TimeCap
  /\ uptime \in 0 .. TimeCap
  /\ boot \in Seq(Value)
  /\ tx \in Seq(Reply)

BackendStates == OTAState \ {"IDLE", "MAGIC_READ", "MAGIC_ACK"}
SlotStates ==
  {"DATA_PREPARE_OK", "DATA_MD5", "DATA_MD5_OK", "DATA_FIRMWARE",
   "DATA_RECEIVE_OK", "DATA_END"}
ValidStates == {"DATA_END_OK", "DATA_FINAL_ACK", "DATA_REBOOT"}

(* While there is a peer, every label that calls through backend_ finds    *)
(* one.  (A session torn down by handle_frame_ inside the yield of         *)
(* readall_ leaves the handler running without a peer; Crash is that.)     *)
BackendInSession == has_peer /\ ota_state \in BackendStates => backend

(* A slot that begin() opened is open only as long as the session that     *)
(* opened it is writing: every way out of it - timeout, overflow, refusal, *)
(* failed write, failed end() - has called abort(), or no later session    *)
(* could begin() again.                                                    *)
SlotNotLeaked == slot = "open" => has_peer /\ ota_state \in SlotStates

(* Between sessions nothing of the last one is left for the next: not its  *)
(* partial field, features, challenge, backend, counters or write flag.    *)
(* Only the receive buffer may hold bytes, and they open the next one.     *)
IdleIsClean ==
  dev = "run" /\ pc = "main" /\ ~has_peer =>
    /\ ota_state = "IDLE"
    /\ hs_buf = <<>> /\ ota_features = 0
    /\ auth_nonce = NoNonce /\ auth_in = <<>> /\ ~proved
    /\ ~backend /\ ~update_started
    /\ ota_size = 0 /\ firmware_total = 0 /\ size_acknowledged = 0

(* firmware_total_ is what the slot holds and never exceeds the announced  *)
(* size, and no CHUNK_OK speaks for bytes not yet written: it has covered  *)
(* whole blocks, or the shorter last one once the image is complete.       *)
ProgressIsTrue ==
  update_started =>
    /\ firmware_total = Len(flash)
    /\ firmware_total <= ota_size
    /\ \/ size_acknowledged <= firmware_total
       \/ /\ firmware_total = ota_size
          /\ size_acknowledged < ota_size + BlockSize

(* The session as OtaUpdate sees it.                                       *)
AbsPhase ==
  CASE ~has_peer -> "idle"
    [] has_peer /\ ota_state \in OTAHandshake -> "greeting"
    [] has_peer /\ ota_state \in OTAData /\ ~update_started -> "granted"
    [] OTHER -> IF slot = "open" THEN "writing" ELSE "ended"

Abs == INSTANCE OtaUpdate WITH
  Secured <- Password,
  phase <- AbsPhase,
  size <- IF update_started THEN ota_size ELSE 0,
  slot <- IF update_started THEN flash ELSE <<>>

(* Whatever is sent to the node by whomever, lost or repeated, and         *)
(* wherever it fails, times out or is reset, it updates as promised.       *)
ImplementsUpdate == Abs!USpec

(* A peer cannot hold the node's only session for ever, whatever it sends  *)
(* or stops sending: the session ends, or the whole node goes down.        *)
SessionEnds == has_peer ~> ~has_peer \/ dev # "run"
==============================================================================
