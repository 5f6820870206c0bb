----------------------------- MODULE EspHomeOta -----------------------------
(***************************************************************************)
(* The TCP OTA server (esphome/ota): the update protocol of MeshOta over a *)
(* connection.  The handshake is non-blocking, one pass of the switch per  *)
(* call of loop(); the data phase is one blocking call, handle_data_, that *)
(* reads and writes until the update is over.                              *)
(*                                                                         *)
(* pc is the label control is at: "main" outside loop(); "disable" between *)
(* the listener check of loop() and disable_loop(), where a connection can *)
(* still arrive; a handshake state while the switch executes its case,     *)
(* which is not always ota_state because of the fall-throughs; and one     *)
(* label per read, write or backend call of handle_data_.                  *)
(*                                                                         *)
(* elapsed is the time since the start that the running deadline counts    *)
(* from: the connection, the last data, or the entry of readall_; it       *)
(* saturates.  What is written to the peer is not kept: the program never  *)
(* looks at the result of a write in the data phase.                       *)
(***************************************************************************)
EXTENDS Integers, Sequences

CONSTANTS
  Conn,              \* connections to the OTA port
  NoConn,            \* client_ is null
  Value,             \* values of a byte
  Magic,             \* MAGIC_BYTES
  Radix,             \* number of byte values, in the big-endian size field
  Image,             \* digest bytes -> the image with that digest
  Md5Len,            \* bytes of the digest field (32)
  Nonce,             \* challenges random_bytes() can produce
  NoNonce,           \* auth_buf_ is null
  AuthLen,           \* bytes of client nonce and response (128)
  AuthReply,         \* nonce -> the bytes that answer it with the password
  AuthCompiled,      \* USE_OTA_PASSWORD
  Password,          \* the password is not empty
  Version,           \* USE_OTA_VERSION
  BlockSize,         \* OTA_BLOCK_SIZE
  BufSize,           \* OTA_BUFFER_SIZE
  Backlog,           \* connections the listener queues
  Window,            \* bytes a connection holds for the server
  SlotSize,          \* largest image the backend's begin() accepts
  HandshakeTimeout,  \* OTA_SOCKET_TIMEOUT_HANDSHAKE, in ticks
  DataTimeout,       \* OTA_SOCKET_TIMEOUT_DATA, in ticks
  Segment,           \* connection -> payloads its segments can have
  FaultsMayHappen    \* writes, backend, RNG, socket may fail; resets

SizeLen == 2  \* bytes of the size field (4)
UpdateApp == 0  \* ota::OTA_TYPE_UPDATE_APP

ASSUME ConnAssumption == NoConn \notin Conn /\ NoNonce \notin Nonce

ASSUME WireAssumption ==
  /\ Value \subseteq Nat
  /\ Segment \in [Conn -> SUBSET (Seq(Value) \ {<<>>})]
  /\ Magic \in Seq(Value) \ {<<>>}
  /\ Radix \in Nat
  /\ Md5Len \in Nat \ {0}
  /\ AuthLen \in Nat \ {0}

ASSUME LimitAssumption ==
  /\ Version \in {1, 2}
  /\ BlockSize \in Nat \ {0} /\ BufSize \in Nat \ {0}
  /\ Backlog \in Nat \ {0} /\ Window \in Nat /\ SlotSize \in Nat
  /\ HandshakeTimeout \in Nat /\ DataTimeout \in Nat
  /\ HandshakeTimeout <= DataTimeout

ASSUME SwitchAssumption ==
  /\ AuthCompiled \in BOOLEAN /\ Password \in BOOLEAN
  /\ Password => AuthCompiled
  /\ FaultsMayHappen \in BOOLEAN

VARIABLES
  dev,                \* life of the node: boot, run, failed, off
  looping,            \* the component's loop is enabled
  wake,               \* enable_loop_soon_any_context() was called
  queue,              \* connections the listener has not handed out
  link,               \* connection -> new, up, fin (peer closed), reset, gone
  inbox,              \* connection -> received bytes not yet read
  pc,                 \* where control is, see above
  client,             \* client_
  ota_state,          \* ota_state_
  hs_buf,             \* handshake_buf_[0 .. handshake_buf_pos_) while reading
  out,                \* part of the response being sent that has left
  ota_features,       \* ota_features_
  auth_nonce,         \* challenge held in auth_buf_, NoNonce if that is null
  auth_in,            \* auth_buf_ after the challenge, up to auth_buf_pos_
  proved,             \* history: the password was proved in this session
  backend,            \* backend_ is not null
  slot,               \* inactive flash slot: closed, open, valid (ended)
  md5,                \* what set_update_md5 was given
  flash,              \* what was written to the slot since begin
  ota_type,           \* ota_type
  ota_size,           \* ota_size
  total,              \* total
  size_acknowledged,  \* size_acknowledged
  data_buf,           \* buf[0 .. at) of the running readall_
  elapsed,            \* time since the start of the running deadline
  boot                \* the image the boot loader starts: survives a reset

netVars     == <<queue, link, inbox>>
wakeVars    == <<looping, wake>>
shakeVars   == <<hs_buf, out, ota_features>>
authVars    == <<auth_nonce, auth_in, proved>>
slotVars    == <<slot, md5, flash>>
countVars   == <<ota_type, ota_size, total, size_acknowledged>>
dataVars    == <<slotVars, countVars, data_buf>>
sessionVars == <<client, ota_state, shakeVars, authVars, backend>>

vars == <<dev, wakeVars, netVars, pc, sessionVars, dataVars, elapsed, boot>>

Handshake ==
  {"MAGIC_READ", "MAGIC_ACK", "FEATURE_READ", "FEATURE_ACK", "AUTH_SEND",
   "AUTH_READ"}
OTAState == Handshake \cup {"IDLE", "DATA"}

(* The labels of handle_data_, and those at which the slot is being used.  *)
Writing == {"PREPARE_OK", "MD5", "MD5_OK", "FIRMWARE", "CHUNK_OK",
            "RECEIVE_OK", "END"}
Ended == {"END_OK", "ACK", "REBOOT"}
DataLabel ==
  {"AUTH_OK", "TYPE", "SIZE", "BEGIN", "ERROR"} \cup Writing \cup Ended

SupportsSha256 == (ota_features \div 2) % 2 = 1
ExtendedProto == (ota_features \div 4) % 2 = 1
SizeOf(s) == s[1] * Radix + s[2]

Lesser(a, b) == IF a <= b THEN a ELSE b
TimeCap == DataTimeout + 1
TimedOutNever(t) == FALSE
TimedOut(t) == elapsed > t

------------------------------------------------------------------------------
(* read() on client_: at most n bytes; -1 with EWOULDBLOCK while there are *)
(* none; 0 once the peer has closed; -1 after a reset, whatever is there.  *)
Taken(n) == SubSeq(inbox[client], 1, Lesser(n, Len(inbox[client])))
Take(n) ==
  inbox' = [inbox EXCEPT ![client] =
              SubSeq(@, Lesser(n, Len(@)) + 1, Len(@))]
ReadFails ==
  \/ link[client] = "reset"
  \/ link[client] = "fin" /\ inbox[client] = <<>>
ReadBlocks == link[client] = "up" /\ inbox[client] = <<>>
ReadWorks == link[client] \in {"up", "fin"} /\ inbox[client] # <<>>

(* Has a read that goes on from call to call got all it waits for?         *)
CompleteLate(got, len) == Len(got) > len
Complete(got, len) == Len(got) >= len

WriteFails == link[client] = "reset" \/ FaultsMayHappen

(* transition_ota_state_, which also rewinds handshake_buf_.               *)
Transition(next) ==
  /\ ota_state' = next
  /\ hs_buf' = <<>>
  /\ out' = 0

(* cleanup_auth_ *)
CleanupAuthKeepsPosition ==
  /\ auth_nonce' = NoNonce
  /\ UNCHANGED auth_in
CleanupAuth ==
  /\ auth_nonce' = NoNonce
  /\ auth_in' = <<>>

(* What is local to handle_data_ is gone when it returns.                  *)
LeaveData ==
  /\ ota_type' = UpdateApp
  /\ ota_size' = 0
  /\ total' = 0
  /\ size_acknowledged' = 0
  /\ data_buf' = <<>>

(* cleanup_connection_: the listener is looked at once more before loop()  *)
(* disables itself.                                                        *)
CleanupDisables == looping' = FALSE
CleanupLooping == looping' = looping
CleanupConnection ==
  /\ link' = [link EXCEPT ![client] = "gone"]
  /\ inbox' = [inbox EXCEPT ![client] = <<>>]
  /\ client' = NoConn
  /\ Transition("IDLE")
  /\ ota_features' = 0
  /\ backend' = FALSE
  /\ CleanupAuth
  /\ proved' = FALSE
  /\ elapsed' = 0
  /\ CleanupLooping
  /\ LeaveData
  /\ pc' = "main"
  /\ UNCHANGED <<wake, queue, boot>>

CloseSlot ==
  /\ slot' = "closed"
  /\ md5' = <<>>
  /\ flash' = <<>>

(* Leave the handshake for good (send_error_and_cleanup_: the status is    *)
(* written at best effort).                                                *)
Refuse == CleanupConnection /\ UNCHANGED <<dev, slotVars>>

------------------------------------------------------------------------------
Init ==
  /\ dev = "boot"
  /\ looping = TRUE
  /\ wake = FALSE
  /\ queue = <<>>
  /\ link = [c \in Conn |-> "new"]
  /\ inbox = [c \in Conn |-> <<>>]
  /\ pc = "main"
  /\ client = NoConn
  /\ ota_state = "IDLE"
  /\ hs_buf = <<>>
  /\ out = 0
  /\ ota_features = 0
  /\ auth_nonce = NoNonce
  /\ auth_in = <<>>
  /\ proved = FALSE
  /\ backend = FALSE
  /\ slot = "closed"
  /\ md5 = <<>>
  /\ flash = <<>>
  /\ ota_type = UpdateApp
  /\ ota_size = 0
  /\ total = 0
  /\ size_acknowledged = 0
  /\ data_buf = <<>>
  /\ elapsed = 0
  /\ boot = <<>>

(* setup(): server_failed_ marks the component failed, and its loop() is   *)
(* never called.                                                           *)
Setup ==
  /\ dev = "boot"
  /\ \/ dev' = "run"
     \/ FaultsMayHappen /\ dev' = "failed"
  /\ UNCHANGED <<wakeVars, netVars, pc, sessionVars, dataVars, elapsed, boot>>

(* Power loss, watchdog, or the restart after an update.  Connections do   *)
(* not outlive it.                                                         *)
Reset ==
  /\ FaultsMayHappen \/ dev = "off"
  /\ dev' = "boot"
  /\ looping' = TRUE
  /\ wake' = FALSE
  /\ queue' = <<>>
  /\ link' = [c \in Conn |-> IF link[c] = "new" THEN "new" ELSE "gone"]
  /\ inbox' = [c \in Conn |-> <<>>]
  /\ pc' = "main"
  /\ client' = NoConn
  /\ Transition("IDLE")
  /\ ota_features' = 0
  /\ CleanupAuth
  /\ proved' = FALSE
  /\ backend' = FALSE
  /\ CloseSlot
  /\ LeaveData
  /\ elapsed' = 0
  /\ UNCHANGED boot

(* Time passes between calls of loop() and wherever handle_data_ blocks.   *)
Tick ==
  /\ dev = "run" /\ client # NoConn
  /\ pc = "main" \/ pc \in DataLabel
  /\ elapsed < TimeCap
  /\ elapsed' = elapsed + 1
  /\ UNCHANGED <<dev, wakeVars, netVars, pc, sessionVars, dataVars, boot>>

------------------------------------------------------------------------------
(* The network and the peers.  They are seen by the component between any  *)
(* two of its steps: on some platforms their callbacks preempt it.         *)
peerUnchanged == <<dev, looping, pc, sessionVars, dataVars, elapsed, boot>>

(* The listener's callback queues the connection and wakes the component.  *)
Connect(c) ==
  /\ dev = "run"
  /\ link[c] = "new" /\ Len(queue) < Backlog
  /\ link' = [link EXCEPT ![c] = "up"]
  /\ queue' = Append(queue, c)
  /\ wake' = TRUE
  /\ UNCHANGED <<inbox, peerUnchanged>>

Receive(c, data) ==
  /\ link[c] = "up" /\ Len(inbox[c]) + Len(data) <= Window
  /\ inbox' = [inbox EXCEPT ![c] = @ \o data]
  /\ UNCHANGED <<queue, link, wake, peerUnchanged>>

PeerCloses(c) ==
  /\ link[c] = "up"
  /\ link' = [link EXCEPT ![c] = "fin"]
  /\ UNCHANGED <<queue, inbox, wake, peerUnchanged>>

PeerResets(c) ==
  /\ link[c] \in {"up", "fin"}
  /\ link' = [link EXCEPT ![c] = "reset"]
  /\ UNCHANGED <<queue, inbox, wake, peerUnchanged>>

(* App.enable_pending_loops_(), before the components' loops are called: a *)
(* request that finds the loop enabled is dropped.                         *)
EnablePendingLoops ==
  /\ dev = "run" /\ pc = "main" /\ wake
  /\ wake' = FALSE
  /\ looping' = TRUE
  /\ UNCHANGED <<dev, netVars, pc, sessionVars, dataVars, elapsed, boot>>

------------------------------------------------------------------------------
(* loop(): without a client and with nobody waiting it disables itself.    *)
AtLoop == dev = "run" /\ pc = "main" /\ looping

NobodyWaits == client = NoConn /\ queue = <<>>

LoopIdle ==
  /\ AtLoop
  /\ NobodyWaits
  /\ pc' = "disable"
  /\ UNCHANGED <<dev, wakeVars, netVars, sessionVars, dataVars, elapsed, boot>>

DisableLoop ==
  /\ dev = "run" /\ pc = "disable"
  /\ looping' = FALSE
  /\ pc' = "main"
  /\ UNCHANGED <<dev, wake, netVars, sessionVars, dataVars, elapsed, boot>>

(* A connection that was reset while it waited: some listeners drop it.    *)
AcceptNothing ==
  /\ AtLoop
  /\ client = NoConn /\ queue # <<>>
  /\ link[Head(queue)] = "reset"
  /\ link' = [link EXCEPT ![Head(queue)] = "gone"]
  /\ inbox' = [inbox EXCEPT ![Head(queue)] = <<>>]
  /\ queue' = Tail(queue)
  /\ UNCHANGED <<dev, wakeVars, pc, sessionVars, dataVars, elapsed, boot>>

Accept ==
  /\ AtLoop
  /\ client = NoConn /\ queue # <<>>
  /\ queue' = Tail(queue)
  /\ \/ /\ client' = Head(queue)
        /\ Transition("MAGIC_READ")
        /\ pc' = "MAGIC_READ"
        /\ elapsed' = 0
        /\ UNCHANGED <<link, inbox>>
     \/ /\ FaultsMayHappen
        /\ link' = [link EXCEPT ![Head(queue)] = "gone"]
        /\ inbox' = [inbox EXCEPT ![Head(queue)] = <<>>]
        /\ UNCHANGED <<pc, client, ota_state, hs_buf, out, elapsed>>
  /\ UNCHANGED <<dev, wakeVars, ota_features, authVars, backend, dataVars, boot>>

(* The data phase, once entered, does not return to loop(): ota_state DATA *)
(* is seen there only after a challenge that could not be sent at once.    *)
LoopStep ==
  /\ AtLoop
  /\ client # NoConn
  /\ \/ TimedOut(HandshakeTimeout) /\ Refuse
     \/ /\ ~TimedOut(HandshakeTimeout)
        /\ pc' = IF ota_state = "DATA" THEN "AUTH_OK" ELSE ota_state
        /\ UNCHANGED <<dev, wakeVars, netVars, sessionVars, dataVars, elapsed,
                       boot>>

------------------------------------------------------------------------------
(* handle_handshake_                                                       *)
At(label) == dev = "run" /\ pc = label

(* A read that blocks or fails (try_read_, handle_read_error_).            *)
ReadNothing ==
  \/ /\ ReadBlocks
     /\ pc' = "main"
     /\ UNCHANGED <<dev, wakeVars, netVars, sessionVars, dataVars, elapsed, boot>>
  \/ ReadFails /\ Refuse

(* A write that leaves a part or all of the response for the next call, or *)
(* fails (try_write_, handle_write_error_).                                *)
WriteNotAll(bytes) ==
  \/ /\ pc' = "main"
     /\ out' \in {out, bytes - 1}
     /\ UNCHANGED <<dev, wakeVars, netVars, client, ota_state, hs_buf,
                    ota_features, authVars, backend, dataVars, elapsed, boot>>
  \/ WriteFails /\ Refuse

MagicRead ==
  LET got == hs_buf \o Taken(Len(Magic) - Len(hs_buf)) IN
  /\ At("MAGIC_READ")
  /\ \/ ReadNothing
     \/ ReadWorks /\ Complete(got, Len(Magic)) /\ got # Magic /\ Refuse
     \/ /\ ReadWorks
        /\ \/ /\ ~Complete(got, Len(Magic))
              /\ hs_buf' = got
              /\ pc' = "main"
              /\ UNCHANGED <<ota_state, out>>
           \/ /\ Complete(got, Len(Magic)) /\ got = Magic
              /\ Transition("MAGIC_ACK")
              /\ pc' = "MAGIC_ACK"
        /\ Take(Len(Magic) - Len(hs_buf))
        /\ UNCHANGED <<dev, wakeVars, queue, link, client, ota_features,
                       authVars, backend, dataVars, elapsed, boot>>

MagicAck ==
  /\ At("MAGIC_ACK")
  /\ \/ WriteNotAll(2)
     \/ /\ backend' = TRUE
        /\ Transition("FEATURE_READ")
        /\ pc' = "FEATURE_READ"
        /\ UNCHANGED <<dev, wakeVars, netVars, client, ota_features, authVars,
                       dataVars, elapsed, boot>>

FeatureRead ==
  /\ At("FEATURE_READ")
  /\ \/ ReadNothing
     \/ /\ ReadWorks
        /\ ota_features' = Head(inbox[client])
        /\ Take(1)
        /\ Transition("FEATURE_ACK")
        /\ pc' = "FEATURE_ACK"
        /\ UNCHANGED <<dev, wakeVars, queue, link, client, authVars, backend,
                       dataVars, elapsed, boot>>

(* Without a password the state is DATA, but the case falls through to the *)
(* next label that is compiled in: with USE_OTA_PASSWORD, AUTH_SEND.       *)
AfterFeatures == IF AuthCompiled THEN "AUTH_SEND" ELSE "AUTH_OK"
FeatureAck ==
  /\ At("FEATURE_ACK")
  /\ \/ WriteNotAll(IF ExtendedProto THEN 2 ELSE 1)
     \/ /\ Transition(IF Password THEN "AUTH_SEND" ELSE "DATA")
        /\ pc' = AfterFeatures
        /\ UNCHANGED <<dev, wakeVars, netVars, client, ota_features, authVars,
                       backend, dataVars, elapsed, boot>>

(* handle_auth_send_: the challenge is drawn once and written until it has *)
(* all left.                                                               *)
AuthSend ==
  /\ At("AUTH_SEND")
  /\ \/ auth_nonce = NoNonce /\ ~SupportsSha256 /\ Refuse
     \/ auth_nonce = NoNonce /\ SupportsSha256 /\ FaultsMayHappen /\ Refuse
     \/ (auth_nonce = NoNonce => SupportsSha256) /\ WriteFails /\ Refuse
     \/ /\ auth_nonce = NoNonce => SupportsSha256
        /\ auth_nonce' \in IF auth_nonce = NoNonce THEN Nonce ELSE {auth_nonce}
        /\ \/ Transition("AUTH_READ") /\ pc' = "AUTH_READ"
           \/ /\ out' \in {out, 1}
              /\ pc' = "main"
              /\ UNCHANGED <<ota_state, hs_buf>>
        /\ UNCHANGED <<dev, wakeVars, netVars, client, ota_features, auth_in,
                       proved, backend, dataVars, elapsed, boot>>

AnswersPrefix(got) == got[1] = AuthReply[auth_nonce][1]
Answers(got) == got = AuthReply[auth_nonce]

(* handle_auth_read_: the response is compared once all of it is there.    *)
AuthRead ==
  LET got == auth_in \o Taken(AuthLen - Len(auth_in)) IN
  /\ At("AUTH_READ")
  /\ \/ ReadNothing
     \/ ReadWorks /\ Complete(got, AuthLen) /\ ~Answers(got) /\ Refuse
     \/ /\ ReadWorks
        /\ \/ /\ ~Complete(got, AuthLen)
              /\ auth_in' = got
              /\ pc' = "main"
              /\ UNCHANGED <<ota_state, hs_buf, out, auth_nonce, proved>>
           \/ /\ Complete(got, AuthLen) /\ Answers(got)
              /\ CleanupAuth
              /\ proved' = (got = AuthReply[auth_nonce])
              /\ Transition("DATA")
              /\ pc' = "AUTH_OK"
        /\ Take(AuthLen - Len(auth_in))
        /\ UNCHANGED <<dev, wakeVars, queue, link, client, ota_features,
                       backend, dataVars, elapsed, boot>>

------------------------------------------------------------------------------
(* handle_data_.  A status byte is written until it has left or the write  *)
(* is given up; either way the next label is entered and its deadline      *)
(* starts.                                                                 *)
shakenVars == <<dev, wakeVars, sessionVars, boot>>

NextOf ==
  [AUTH_OK    |-> IF ExtendedProto THEN "TYPE" ELSE "SIZE",
   PREPARE_OK |-> "MD5",
   MD5_OK     |-> "FIRMWARE",
   RECEIVE_OK |-> "END",
   END_OK     |-> "ACK"]

DataAck ==
  /\ dev = "run" /\ pc \in DOMAIN NextOf
  /\ pc' = NextOf[pc]
  /\ elapsed' = 0
  /\ UNCHANGED <<shakenVars, netVars, dataVars>>

(* readall_: its deadline, from the first byte to the last, is checked     *)
(* before each read; a close or a reset ends it too.                       *)
ReadallFails == TimedOut(DataTimeout) \/ ReadFails

ReadField(label, len) ==
  /\ At(label)
  /\ \/ /\ ReadallFails
        /\ pc' = "ERROR"
        /\ UNCHANGED <<netVars, data_buf>>
     \/ /\ ~TimedOut(DataTimeout) /\ ReadWorks
        /\ Len(data_buf) + Len(inbox[client]) < len
        /\ data_buf' = data_buf \o inbox[client]
        /\ Take(len)
        /\ UNCHANGED <<queue, link, pc>>
  /\ UNCHANGED <<shakenVars, slotVars, countVars, elapsed>>

FieldRead(label, len) ==
  /\ At(label)
  /\ ~TimedOut(DataTimeout) /\ ReadWorks
  /\ Len(data_buf) + Len(inbox[client]) >= len
  /\ Take(len - Len(data_buf))
  /\ data_buf' = <<>>
  /\ elapsed' = 0
  /\ UNCHANGED <<shakenVars, queue, link>>
Field(len) == data_buf \o Taken(len - Len(data_buf))

DataType ==
  \/ ReadField("TYPE", 1)
  \/ /\ FieldRead("TYPE", 1)
     /\ ota_type' = Head(inbox[client])
     /\ pc' = "SIZE"
     /\ UNCHANGED <<slotVars, ota_size, total, size_acknowledged>>

(* Partition updates are not compiled in: any other type is an error.      *)
DataSize ==
  \/ ReadField("SIZE", SizeLen)
  \/ /\ FieldRead("SIZE", SizeLen)
     /\ ota_size' = SizeOf(Field(SizeLen))
     /\ pc' = IF ota_type = UpdateApp THEN "BEGIN" ELSE "ERROR"
     /\ UNCHANGED <<slotVars, ota_type, total, size_acknowledged>>

DataBegin ==
  /\ At("BEGIN")
  /\ \/ /\ ota_size > SlotSize \/ slot = "open" \/ FaultsMayHappen
        /\ pc' = "ERROR"
        /\ UNCHANGED slotVars
     \/ /\ ota_size <= SlotSize /\ slot # "open"
        /\ slot' = "open"
        /\ md5' = <<>>
        /\ flash' = <<>>
        /\ pc' = "PREPARE_OK"
  /\ UNCHANGED <<shakenVars, netVars, countVars, data_buf, elapsed>>

DataMd5 ==
  \/ ReadField("MD5", Md5Len)
  \/ /\ FieldRead("MD5", Md5Len)
     /\ md5' = Field(Md5Len)
     /\ pc' = "MD5_OK"
     /\ UNCHANGED <<slot, flash, countVars>>

DataFirmware ==
  LET n == Lesser(ota_size - total, BufSize) IN
  /\ At("FIRMWARE")
  /\ \/ /\ total >= ota_size
        /\ pc' = "RECEIVE_OK"
        /\ UNCHANGED <<inbox, flash, total, elapsed>>
     \/ /\ total < ota_size
        /\ ReadallFails \/ (ReadWorks /\ FaultsMayHappen)
        /\ pc' = "ERROR"
        /\ UNCHANGED <<inbox, flash, total, elapsed>>
     \/ /\ total < ota_size
        /\ ~TimedOut(DataTimeout) /\ ReadWorks
        /\ flash' = flash \o Taken(n)
        /\ total' = total + Len(Taken(n))
        /\ Take(n)
        /\ elapsed' = 0
        /\ pc' = IF Version = 2 THEN "CHUNK_OK" ELSE "FIRMWARE"
  /\ UNCHANGED <<shakenVars, queue, link, slot, md5, ota_type, ota_size,
                 size_acknowledged, data_buf>>

ChunkDueEarly ==
  \/ size_acknowledged + BlockSize <= total + 1
  \/ total = ota_size /\ size_acknowledged < ota_size
ChunkDue ==
  \/ size_acknowledged + BlockSize <= total
  \/ total = ota_size /\ size_acknowledged < ota_size

DataChunkOk ==
  /\ At("CHUNK_OK")
  /\ \/ /\ ChunkDue
        /\ size_acknowledged' = size_acknowledged + BlockSize
        /\ UNCHANGED pc
     \/ /\ ~ChunkDue
        /\ pc' = "FIRMWARE"
        /\ UNCHANGED size_acknowledged
  /\ UNCHANGED <<shakenVars, netVars, slotVars, ota_type, ota_size, total,
                 data_buf, elapsed>>

ImageAccepted == md5 \in DOMAIN Image /\ Image[md5] = flash

(* backend_->end() verifies the digest and makes the slot the boot slot.   *)
DataEnd ==
  /\ At("END")
  /\ \/ /\ ~ImageAccepted \/ FaultsMayHappen
        /\ pc' = "ERROR"
        /\ UNCHANGED <<slot, boot>>
     \/ /\ ImageAccepted
        /\ slot' = "valid"
        /\ boot' = flash
        /\ pc' = "END_OK"
  /\ UNCHANGED <<dev, wakeVars, sessionVars, netVars, md5, flash, countVars,
                 data_buf, elapsed>>

(* Whatever the client answers, or fails to, the update is complete.       *)
DataFinalAck ==
  /\ At("ACK")
  /\ \/ ReadallFails /\ UNCHANGED inbox
     \/ ~TimedOut(DataTimeout) /\ ReadWorks /\ Take(1)
  /\ pc' = "REBOOT"
  /\ UNCHANGED <<shakenVars, queue, link, dataVars, elapsed>>

DataReboot ==
  /\ At("REBOOT")
  /\ CleanupConnection
  /\ dev' = "off"
  /\ UNCHANGED slotVars

(* The error: label.  abort() is called whether or not begin() was.        *)
AbortNever == UNCHANGED slotVars
Abort == CloseSlot
DataError ==
  /\ At("ERROR")
  /\ Abort
  /\ CleanupConnection
  /\ UNCHANGED dev

------------------------------------------------------------------------------
HandshakeStep ==
  MagicRead \/ MagicAck \/ FeatureRead \/ FeatureAck \/ AuthSend \/ AuthRead

DataStep ==
  \/ DataAck \/ DataType \/ DataSize \/ DataBegin \/ DataMd5 \/ DataFirmware
  \/ DataChunkOk \/ DataEnd \/ DataFinalAck \/ DataReboot \/ DataError

(* What the node's main loop runs.                                         *)
Device ==
  \/ Setup \/ EnablePendingLoops \/ LoopIdle \/ DisableLoop
  \/ AcceptNothing \/ Accept \/ LoopStep \/ HandshakeStep \/ DataStep

Peer(c) ==
  \/ Connect(c) \/ PeerCloses(c) \/ PeerResets(c)
  \/ \E data \in Segment[c] : Receive(c, data)

Next == Device \/ Reset \/ Tick \/ \E c \in Conn : Peer(c)

Spec == Init /\ [][Next]_vars

(* The main loop runs, time passes, and a restart that was asked for comes; *)
(* nothing is assumed about peers.                                         *)
Fairness ==
  WF_vars(Device) /\ SF_vars(Tick) /\ WF_vars(dev = "off" /\ Reset)
FairSpec == Spec /\ Fairness

------------------------------------------------------------------------------
(* Every variable has its type, and no buffer holds more than it was       *)
(* allocated for.                                                          *)
TypeOK ==
  /\ dev \in {"boot", "run", "failed", "off"}
  /\ looping \in BOOLEAN /\ wake \in BOOLEAN
  /\ queue \in Seq(Conn) /\ Len(queue) <= Backlog
  /\ link \in [Conn -> {"new", "up", "fin", "reset", "gone"}]
  /\ inbox \in [Conn -> Seq(Value)]
  /\ pc \in {"main", "disable"} \cup Handshake \cup DataLabel
  /\ client \in Conn \cup {NoConn}
  /\ ota_state \in OTAState
  /\ hs_buf \in Seq(Value) /\ Len(hs_buf) < Len(Magic)
  /\ out \in {0, 1}
  /\ ota_features \in Nat
  /\ auth_nonce \in Nonce \cup {NoNonce}
  /\ auth_in \in Seq(Value) /\ Len(auth_in) < AuthLen
  /\ proved \in BOOLEAN /\ backend \in BOOLEAN
  /\ slot \in {"closed", "open", "valid"}
  /\ md5 \in Seq(Value) /\ flash \in Seq(Value)
  /\ ota_type \in Nat /\ ota_size \in Nat
  /\ total \in Nat /\ size_acknowledged \in Nat
  /\ data_buf \in Seq(Value)
  /\ elapsed \in 0 .. TimeCap
  /\ boot \in Seq(Value)

(* A slot that begin() opened is open only while handle_data_ is at work   *)
(* between begin() and end(), or on its way to the abort() of the error    *)
(* label: no return leaves it open.                                        *)
SlotNotLeaked == slot = "open" => pc \in Writing \cup {"ERROR"}

(* Without a client nothing of the last session is left for the next one.  *)
IdleIsClean ==
  client = NoConn =>
    /\ pc \in {"main", "disable"} /\ ota_state = "IDLE"
    /\ hs_buf = <<>> /\ out = 0 /\ ota_features = 0
    /\ auth_nonce = NoNonce /\ auth_in = <<>> /\ ~proved
    /\ ~backend /\ data_buf = <<>> /\ ota_type = UpdateApp

(* A connection that is waiting with nobody being served is never asleep   *)
(* on: the loop is enabled, or about to be.  (The listener wakes the       *)
(* component only once, possibly in the middle of a session, or between    *)
(* the idle check of loop() and disable_loop().)                           *)
NoLostWake ==
  dev = "run" /\ client = NoConn /\ queue # <<>> => looping \/ wake

(* No CHUNK_OK speaks for bytes that are not in the slot, and the whole of *)
(* the image has been acknowledged before RECEIVE_OK.                      *)
ChunksAreTrue ==
  pc \in {"FIRMWARE", "RECEIVE_OK"} =>
    /\ total = Len(flash) /\ total <= ota_size
    /\ \/ size_acknowledged <= total
       \/ total = ota_size /\ size_acknowledged < ota_size + BlockSize
    /\ Version = 2 /\ total = ota_size => size_acknowledged >= ota_size

(* The session as OtaUpdate sees it.                                       *)
AbsPhase ==
  CASE client = NoConn -> "idle"
    [] client # NoConn /\ pc \notin DataLabel -> "greeting"
    [] OTHER -> CASE slot = "closed" -> "granted"
                  [] slot = "open" -> "writing"
                  [] slot = "valid" -> "ended"
Updating == AbsPhase \in {"writing", "ended"}

Abs == INSTANCE OtaUpdate WITH
  Secured <- Password,
  phase <- AbsPhase,
  size <- IF Updating THEN ota_size ELSE 0,
  slot <- IF Updating THEN flash ELSE <<>>

(* Over TCP the node updates as promised too, whatever the peers send and  *)
(* whenever they close, reset or fall silent.                              *)
ImplementsUpdate == Abs!USpec

(* Whoever connects is served or gone in the end, for no session lasts for *)
(* ever and none that follows is slept through.                            *)
Served ==
  \A c \in Conn :
    (dev = "run" /\ \E i \in 1 .. Len(queue) : queue[i] = c)
      ~> (client = c \/ link[c] = "gone")

(* Without a password the handshake goes from the features to the data     *)
(* phase: the peer is not asked for a response.                            *)
DirectlyToData == ~Password => pc \notin {"AUTH_SEND", "AUTH_READ"}
==============================================================================
