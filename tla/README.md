# esphome-meshmesh, specified in TLA+

`src/` holds ESPHome components that let microcontrollers talk over the
ESPMeshMesh radio mesh: over-the-air (OTA) updates, sockets, a ping, a remote
entity protocol, a self-test, audio. The mesh protocol itself (routing, retries,
the radio) is the external library `espmeshmesh` and is not in the repository;
here it appears only through what the components call and what calls them back.

This directory models the parts where an error costs most: the two OTA servers
that replace a node's firmware, one fed by unordered, lossy datagrams of the mesh
and one by TCP connections, and the raw lwIP sockets under the second, whose
callbacks may interrupt the main loop anywhere. Around them it models the
services of a node: remote switches and the entity protocol they use, the ping,
the self-test of two nodes, the sockets of the mesh, and the audio path from the
network to the sink.

## Inventory

| Component | State it keeps | Operations | What is hard | What makes it correct |
|---|---|---|---|---|
| mesh OTA server, `meshmesh/ota` | session state, peer, receive buffer, challenge, backend, counters, deadlines | `setup`, `loop` (19 states), `handle_frame_`, `on_shutdown` | callback against loop, a callback inside a handler's yield, loss and reordering, timeouts, power loss | boots only whole verified images, access needs the password, sessions end, buffers and flow control hold |
| TCP OTA server, `esphome/ota` | connection, handshake and data buffers, auth state | `loop`, handshake steps, the blocking `handle_data_`, `readall_`, `writeall_` | listener wake-ups, partial reads and writes, errno, deadlines | as above; a closed peer never leaves a slot open |
| raw lwIP TCP sockets, `socket/lwip_raw_tcp_impl` | pcb, pending receive buffer, FIN flag; accept queue of two | `accept`, `read`, `write`, `close`, the lwIP callbacks | callbacks run between any two main-loop calls, pcbs die under the socket | no callback reaches a freed slot, bytes are read once and in order, no connection is lost or leaked |
| mesh stream sockets, `socket/meshmesh_socket_impl` | map of fake descriptors, accept slot | `accept`, `read`, `write`, `close` | one map for all sockets, 16-bit keys, lookups that throw, close from three places | every open object finds its own socket, no other, and none is leaked |
| BSD / lwIP wrappers, `socket/*` | none | one system call each | none | none |
| ping, `ping` | time of the last ping, latency, presence | `loop`, `update`, `recvDatagram` | late or repeated PONG, clock wrap | a dead target is noticed, a live one is seen |
| direct protocol, `meshmesh_direct` | entity table, handlers | one handler per command, replies | no request identifiers, replies of anybody, states that are published on | a reply is taken from its target, traffic comes to rest |
| remote switch, `meshmesh_direct/switch` | optimistic state, target | `loop`, `write_state`, `onCommandReply` | a stale reply after a write, restarts | it shows the state of its target |
| packet transport | none | `send_packet`, `recvDatagram` | a length off by one | the payload is what was sent |
| mesh component, `meshmesh` | settings, log channel | `setup`, `loop`, `handleFrame` | re-entered by the OTA's yield | each command answered once |
| self-test, `meshmesh_test` | test step, counters, timers on two nodes | director and responder steps | both sides advance on datagrams and timeouts | the test passes on a good mesh and ends on any |
| audio, `audio` | ring buffer source, transfer buffers, reader, decoder | `fill`, `consume`, `read`, `decode`, `transfer_data_to_sink` | two tasks, storage read in place, frames across its end, partial transfers, failing streams | bytes and samples pass once and in order, FINISHED means all was heard, playback ends |
| network, Python generators, protobuf | none | formatting, code generation | none | none |

How they interact: ESPHome's main loop calls every component's `loop()`. The
mesh component's `loop()` runs the mesh library, which calls the datagram
callbacks (`handle_frame_`, `recvDatagram`, `handleFrame`) there and nowhere
else; so callbacks never preempt a `loop()`, with one exception that matters:
the OTA's `readall_` calls the mesh component's `loop()` itself. lwIP's callbacks
run in its own context and are serialised with the main loop by a lock or by
disabled interrupts.

`PROJECT.json` lists the hazards of this code at their lines, with the property
that covers each or the reason why none does.

## Modules

| Module | Models |
|---|---|
| `OtaUpdate` | Abstract specification: greeting, grant, begin, write, commit, close. `Promise` states what it is worth. |
| `OtaUpdate_proofs` | `USpec => []Promise`. |
| `MeshOta` | The mesh OTA server, one action per handler or case label, among arbitrary senders. Invariants, and its refinement of `OtaUpdate`. |
| `MeshOta_proofs` | The theorems about `MeshOta`, for every value of the constants. |
| `MeshOtaSystem` | `MeshOta` with scripted clients and a datagram mesh that may lose, repeat and reorder. |
| `MeshOtaSystem_proofs` | What holds for any number of clients and any behaviour of the mesh, and the refinement of `MeshOta`. |
| `MeshOtaReliable_proofs` | One client on a mesh that delivers: the receive window, no crash, and whose image boots. |
| `EspHomeOta` | The TCP OTA server over an abstract connection: the non-blocking handshake, the blocking data phase, the loop that disables itself. Invariants, refinement of the same `OtaUpdate`, liveness. |
| `EspHomeOta_proofs` | The theorems about `EspHomeOta`, for every value of the constants. |
| `LwipSockets` | The raw lwIP sockets: a listener with its accept queue, connected sockets, the callbacks of both, the destructors. |
| `LwipSockets_proofs` | Types and callbacks of `LwipSockets`, its byte streams in both directions, the receive window, the pbufs and the wake-ups, for every value of the constants. |
| `MeshDirect` | The entity protocol of any number of nodes, with local and remote switches, publications, faults of the mesh and restarts. |
| `MeshDirect_proofs` | That remote switches show their targets, for any number of nodes, entities and moves. |
| `Ping` | Pinging nodes and their targets, in ticks, with crashes and a mesh that loses, repeats and delays. |
| `MeshTest` | Director and responder of the self-test, step by step. |
| `MeshSockets` | The objects and the shared descriptor map of the mesh's stream sockets. |
| `NodeServices_proofs` | The descriptors of the sockets, for any number of objects and any width of the keys; of the ping, that a dead target is noticed and a live one seen, for any nodes, intervals and delays; of the self-test, that it passes on a mesh that delivers, for any timing; and the theorems about `AudioSource` and `AudioPipeline`, for any sizes of rings, chunks, frames and buffers, with the refinement of the one by the other. |
| `AudioSource` | `RingBufferAudioSource`: frames of any alignment read in place from a ring another task fills. |
| `AudioPipeline` | Extends `AudioSource` (with byte alignment) by `AudioReader`, the sink transfer buffer, `AudioDecoder` and what its codec may do. |
| `MCNodeServices` | The six services, five by extension and one as an instance, of which a behaviour exercises one. `AudioSource` is checked as an instance with frames of three bytes, and again inside the pipeline. |
| `MCMeshOta`, `MCMeshOtaSystem`, `MCEspHomeOta`, `MCLwipSockets`, `MCMeshDirect` | Values for the constants. |

The two OTA servers are separate modules because they are separate code; what
they share is the specification, `OtaUpdate`. `EspHomeOta` sees a socket as what
`LwipSockets` and the BSD wrappers have in common: bytes in order, a close or a
reset, reads that block or do not. Operators with names like `ChunkDueEarly`,
`QueueFullLate` or `AbortNever` are no part of a specification: each is a
plausible bug of the definition below it, put in its place to see that a
property notices.

### MeshOta and the code

The variables have the names of the fields (`ota_state_`, `has_peer_`,
`firmware_total_`, ...) without the final underscore, with these exceptions.
`rx` is the unread part of `rx_buf_`; compaction at `rx_read_pos_ >= 4096` does
not change it. `hs_buf` is `handshake_buf_` up to its position while it is being
read; while writing, the position is 0 or the whole (a datagram is sent whole or
not at all). `auth_nonce` and `auth_in` are the two parts of `auth_buf_`.
`elapsed` is `millis()` minus whichever start `check_timeout_` subtracts, and
`uptime` is `millis()`; both saturate above the largest timeout. `slot`, `flash`,
`md5` and `boot` are what the external backend and the boot loader hold. `proved`
is a history variable. `tx` is what a step handed to the mesh.

`loop()` is cut at the case labels of the two switches: `pc = "step"` means
control is at the label `ota_state`, and no other action of the node is enabled
then, so a fall-through is as atomic as in the code. Frames, time and resets
happen at `pc = "main"` (outside `loop()`) and at `pc \in {"size", "md5"}`: the
yield inside `readall_`. `Status` holds the five labels that only send a status
byte. `Crash` is a call through a null `backend_`.

A byte is a record of its value and the node that sent it; the code never looks
at the sender, the properties do. The size field is two bytes in base `Radix`
instead of four in base 256. The SHA-256 challenge is a value of `Nonce` and the
answer to it the bytes `AuthReply[nonce]`; a client nonce, which the client
chooses freely, is not distinguished. The MD5 is ideal: `Image` maps a digest to
the one image that has it. `millis()` does not wrap (the code's subtraction is
modulo 2^32 and a session is far shorter).

### EspHomeOta and the code

The variables again have the fields' names. `client` is `client_`, `hs_buf` and
`auth_in` the filled parts of `handshake_buf_` and `auth_buf_`, `out` the bytes
already sent of the one-byte answer in the buffer, `data_buf` the local `buf` of
`handle_data_`. `looping` is the component's loop flag and `wake` the pending
`enable_loop_soon_any_context()`. `queue` and `inbox` belong to the TCP stack, as
does `link`, which says what the peer has done to the connection.

In the handshake, `pc` is the case label the switch executes; it differs from
`ota_state` where the code falls through. Each `try_read_` and `try_write_` that
does not complete ends the call of `loop()`. `handle_data_` is cut at its reads,
writes and backend calls; the peer and the clock act between them, because
`yield_and_feed_watchdog_` and the socket's wait let them. `pc = "disable"` is
the point between the listener check of `loop()` and `disable_loop()`, where the
listener's callback may set the flag that the next pass of the main loop reads.
A tick of the clock is a whole timeout: within it, a deadline has either passed
or not. The MD5, the challenge and the size field are as in `MeshOta`.

The model is of a build without `USE_OTA_ENCRYPTION` (the Noise handshake is
partly in code outside the repository) and without `USE_OTA_PARTITIONS`.

### LwipSockets and the code

Whatever the code does between `LWIP_LOCK()` and the end of its scope is one
action; `Interrupt` is the condition under which lwIP may call back: always
where `Preempt` (the RP2040's interrupt), only where the main loop yields
otherwise (ESP8266). `pc` names the five places where the main loop is without
the lock: between calls, before and in the wait of `wait_for_data_`, between that
wait and `read_locked_`, and between the destructors of a socket. Where an
ESP8266 yields inside `read()` or `write()` a callback has the effect of one just
before or just after the call, because nothing read earlier is used later.

`accepted_pcbs` is the used part of the array, `arg` the index the argument of a
queued pcb points to, `callback` which functions are registered on it. `AcceptAt`
is one `accept()` that finds its first live entry at `k`: the loop that discards
the dead ones, the shift with its `tcp_arg` updates, the construction of the
socket and `init`. A pbuf chain is the sequence of its unread bytes, numbered in
the order the peer sent them; `unacked` is lwIP's side of the window, and `pbufs`
counts, for each connection, the bytes in the pbufs that the program has still to
free. `pbufs`, `sent`, `got` and `told` are histories, and so is the field `from`
of a slot: the connection it was filled for, which the code forgets when it sets
the slot's `pcb` to null; no guard reads it.
`write` and `writev`, and `read` and `readv`, differ in how the bytes are
scattered only. The user of a socket gives up after an error other than
`EWOULDBLOCK`, as `writeall_` of the OTA server does.

### MeshDirect and the code

A frame is a record of the fields its handler reads; values are 16 bits wide
(`Half` is 2^15), and signed where the code casts. `state` is the published state
of every entity of every node, `Entity` what the YAML of each node declares. A
remote switch is an entry with an `addr`: the node its target lives on. An
`on_state` automation that calls `publishRemoteSwitchState` is the field `pub`.
Whatever a handler sends, it sends in its own step: the acknowledgement, the
request a remote switch passes on, a publication. `findSensor` is as in the code,
which returns the last sensor when no hash fits. `spoiled` and `heard` are history
variables: `spoiled` holds the remote switches that the protocol gives up on (one
written while its query is under way, one whose target somebody else changes
without publishing), and `RemoteShowsTarget` says that all others are right when
the mesh is quiet. The query of a remote switch is sent once, after its start;
its timeout only logs. A lost frame is never sent again by anybody, so the
property is claimed for behaviours without faults; restarts of the node with the
remote switch are no faults. The run has one remote switch for each node; what
`Distinct` is for, several on one node, is left to the theorem.

`FallsSilent` says what comes to rest and names what does not. A publication is
passed on only by a switch whose state it changes, so one state that goes round a
circle of automations stops where it is known, but two opposite ones chase each
other, each changing back what the other has changed (`Chase`). A request to a
remote switch is always passed on, so remote switches that order one another must
not form a circle (`OrdersEnd`). The code prevents neither.

### Ping and the code

A tick is a fraction of a second; the main loop goes round between any two.
`mLastPingTime` is kept as an age, `Never` for 0, and `uptime` is `millis()` until it
exceeds a second: a PONG that is no answer counts as one while the node is that
young. A node whose target is address 1 only answers (`NoNode`); one with address 0
opens no socket and is not in `Node`. Late answers, repeated answers and
answers of anybody reach `RecvPong` as they reach `recvDatagram`. `DeadIsNoticed`
leaves the target the time in which answers given before its crash may still
arrive (`Horizon`). The model assumes an interval longer than the 1 s timeout:
with a shorter one every ping restarts the timeout of the one before, and no
absence is ever noticed. The latency sensor is not modelled; a PONG that comes
late or unasked publishes the time since the ping, or since boot, as latency.

### MeshTest and the code

`mState` and `mSubState` are the phase and the step, and each step of the four
functions is one disjunct of `Works`: the phases share their layout, and
`Pauses`, `Wrong`, `Heard` and `Patience` say where they differ. The fourth phase
answers from the callback, so there the packet moves the step in `Arrive`.
`skew` says how much faster one loop may be than the other. `StartsClose` is what
the delays of `wait_start()` (2000 and 500 ms) must have in common with the pause and
the first timeout for the two nodes to meet at all.

### MeshSockets and the code

A `MeshSocket` is known by a serial number; `Keys` is 2^16. `getSocket` is
`sockets_.at(fd)`, which throws where the callers test for a null pointer (`Throws`).
Only `close()` and the destructor look at `closed_`; all other methods may be called on an
object in any state (`Uses`), and after `close()` or `shutdown()` they look up key
65535, which is -1 as a `uint16_t`. The histories say what went wrong and whose fault
it was: `late` that an object was used after its close, `crossed` that a lookup found
the socket of another object, `outlived` that an object has stayed open while 65536
others were created. A listener that lives that long finds, or deletes, another
connection's socket. `SocketsMatch` says that until then every open object has its
socket, that only uses after a close throw, and that even these find somebody
else's socket only when key 65535 has been given.

### AudioSource, AudioPipeline and the code

A byte is its place in the stream, a sample its place in the output. The ring buffer
is outside the repository: `receive_acquire` yields a contiguous piece of its
storage, and the room for the writer is what is neither stored nor acquired.
`current`, `queued`, `item_trailing` and `splice` are the four regions of
`RingBufferAudioSource`, with `acquired` for the item they point into.

In `AudioPipeline` the reader's calls are atomic against the decoder's, which is cut at
the points where it waits: the sink, the source, the codec. `pc` is the place in
`decode()`. A codec is any component that consumes input at its own pace,
outputs whole frames when there is room, and may skip, stall, fail or know the
end of the file; the four wrappers `decode_flac_`, `decode_mp3_`, `decode_opus_`,
`decode_wav_` differ in which of these results they map to which
`FileDecoderState`, and the model has their union. A read timeout is one unit of
`silence`; `last_data_read_ms_` is not refreshed while the sink is full, so the
unit may also pass then. The file is started only while no HTTP client is open:
`start(uri)` leaves `client_` set when there is no memory for the buffer, and
`read()` would go on with that client.

### The clients

Nothing in the repository is a client of the mesh OTA server. `Script(c)` is what the README's protocol
table and the server's own order of reads and writes require: say some bytes, in
datagrams of any size up to `MaxDatagram`, hear one status, go on; with version 2
wait for `CHUNK_OK` after each block. A client stops at any status it does not
expect, and may stop and start again at any time when `Impatient`.

## Runs

| Run | Question | Bounds |
|---|---|---|
| `any_sender` | Does the server keep its invariants, implement `OtaUpdate` and end each session whatever it is sent? | one sender, a datagram of one or two bytes from a set that holds prefixes of the magic and of the answer; buffer of 2; blocks of 1; images of 1 and 2 bytes; deadlines of one and two ticks. Faults, failed sends, timeouts and resets at any point. Frames in the yield of both fields occur, and `Crash` is reached. |
| `reliable` | Does a transfer complete, and does the window hold? | an image of 7 bytes, so a full block of 4 and a short one of 3; the buffer is exactly a block (as in the code); two starts; loss, faults and time off: this is the run about what must happen when nothing goes wrong. |
| `disorder` | Do client and node agree on the image? | 1 client, datagrams of up to two bytes, 2 in flight, each possibly lost or overtaken, one delivered twice; faults, resets, timeouts. The client starts once: a restart inside an old session is met through the reset and the repeated datagrams. |
| `stranger` | Does only the knowing client decide? | 2 clients with different images, one without the password; loss, faults, timeouts and resets. |
| `esphome_ota` | Does the TCP server keep its invariants, implement `OtaUpdate`, and serve or drop whoever waits? | two connections on a backlog of one: the peer of one sends any of three bytes, closes or resets, the other is silent; an image of 3 bytes in blocks of 2, so a full and a short one; two bytes of challenge response, so a read cuts it; both timeouts one tick; failing writes, backend and restarts at any point. |
| `lwip` | Do callbacks, data, windows and memory stay in step? | three connections on the queue of two (the code's size), peers that send two bytes, one and none, two bytes written to the third; FIN and reset at any point; callbacks preempt; `nodelay_` set. |
| `services` | Do the six services keep their promises? | `MeshDirect`: three nodes, a remote switch that orders a remote switch that orders a switch, which publishes back; two switches that publish to each other; a sensor and a light; two commands, questions, faults or restarts. `Ping`: two nodes, interval 5, timeout 3, delays of 1 and 3 more; two faults, one crash. `MeshTest`: one loop up to four times as fast, one fault. `MeshSockets`: a listener and two connections, three keys, six sockets. `AudioSource`: frames of 3 in a ring of 5, chunks of 4, 14 bytes. `AudioPipeline`: a file of 5 bytes, ring of 3, buffers of 2 and 1, codec frames of 2, one glitch, one pause, one failed start. |
| `peers` | (violation) Is a session made of its peer's bytes? | as `stranger`, without faults. |
| `acks` | (violation) Is each block acknowledged? | one client, sends may fail. |
| `esphome_open` | (violation) Does an empty password lead directly to the data phase? | one connection, `USE_OTA_PASSWORD` compiled in, no password set, no faults. |
| `direct_reply` | (violation) Does a remote switch take answers from its own address only? | three nodes, two of them with the same configuration; one command, no faults. |
| `lwip_leak` | (violation) Do the destructors of a socket free what it received? | as `lwip`. |

The parts of `services` share no state (a node's components meet in the mesh
library only), so exploring them in one run, with the variable `part` choosing,
checks what six runs would. Each has its own bounds: the smallest at which a
frame lies across the end of the ring and is completed from two chunks, a key is
used again, an answer arrives after the next ping, a packet meets a closed socket,
a publication meets a command, two opposite publications chase each other, an object
is used after its close, before and after the last key is given, and a codec's frame needs more output than there is.

The bounds are the smallest at which every field is cut in two by a datagram
boundary, the image needs a full and a short block, and the buffer can overflow;
for the sockets, at which the queue overflows, a slot is shifted while its pcb has
data, a dead slot lies before a live one, and a read takes part of a chain.
`MCView` leaves `tx` out of the state identity: it is overwritten in every step
and read only in the step that writes it. The two violation runs and the runs
over `MeshOtaSystem` switch deadlock checking off because clients stop: once
every client has used its `MaxTries` the system is at rest. So do the runs of the
sockets, which stop when the listener is gone and every connection over. The
silent connection of `esphome_ota` is the one that `Served` is about: it must be
accepted behind a session that need not be polite. The properties
of `lwip` are also proved.

### Fairness

`Fairness` of `MeshOta`: ESPHome calls `loop()` again and again (weak fairness
of `Device`) and time passes (strong fairness of `Tick`: a tick waits while
control is inside a handler). Nothing is assumed about senders. `SysFairSpec`
adds that the mesh delivers (strong fairness of `Deliver`: the mesh component's
`loop()` runs between any two calls of the server's `loop()`) and that a client
goes on with its script; a client giving up, loss and repetition are never fair.

`Fairness` of `EspHomeOta` is the same, and a restart the code has asked for
(`App.safe_reboot`) comes. Nothing is assumed about peers, so `Served` rests on
the server's own deadlines. `LwipSockets` states no fairness: it has safety
properties only.

`services`: `FallsSilent` (checked as `RequestsEnd`) needs only that the mesh delivers
what it does not lose and that loops go round (`MCNodeServices` writes this weak
fairness with its ENABLED spelt out, not `Quiet`, which TLC evaluates faster); `TestEnds` that time passes and each loop and delivery
happens. `PlaybackEnds` needs that the reader's and the decoder's task call again
and again, that a pause ends, and that the sink, whenever it is offered samples
over and over, takes some (strong fairness: between two offers it is not
enabled). Commands, questions, faults, pauses, failing starts and crashes are
never fair. `AudioSource`, `Ping` and `MeshSockets` are checked for safety.

### Findings

* `peers`: until the next `loop()` after a session's first datagram `has_peer_`
  is false, and every datagram overwrites `peer_` and is appended to the same
  buffer. Two clients that start within one loop interval spoil each other's
  session, and replies go to the last one. With a password neither gains access
  by it (`stranger`).
* `acks`: a `CHUNK_OK` whose send fails is not tried again until the next write.
  After the last byte there is none, and the client waits until the server's
  deadline. (Handshake statuses and the statuses of the data phase are retried.)
* `esphome_open`: with `USE_OTA_PASSWORD` compiled in and the password empty,
  `FEATURE_ACK` sets the state to `DATA` under the comment "No password, move
  directly to data phase" and then falls through into `AUTH_SEND`, which
  challenges the client (or refuses one without SHA256).
* `direct_reply`: a remote switch is configured with the address of its node, but a
  reply is matched by the hash of its target alone, and the first switch that
  takes it ends the search. Nodes flashed with one configuration have the same
  hashes: with a remote switch for each, the first takes the answers of all and
  the others stay unknown.
* `lwip_leak`: `~LWIPRawImpl` frees the receive buffer under the lock and releases
  it; `~LWIPRawCommon` takes it again and only then clears the callbacks. On an
  RP2040 a segment that arrives in between is stored in the freed-up `rx_buf_` and
  leaks. By `FreedWithoutPreemption` nothing leaks where callbacks do not preempt.

What the models show without a run of its own: only the second phase of the self-test
can fail on a mesh that delivers, because the director says hello there without a
pause while the responder may still be closing the socket of the first
(`BothPass`). And `PlaybackEnds` needs a ring with room for what trails the audio
of a file (tags, other chunks) besides one chunk: having seen the end of the audio
the decoder reads no more and says FINISHED only when told to stop, which its
caller learns from the reader, and the reader cannot bring a longer tail into the
ring. With `FileLength` 9, audio to byte 5 and a ring of 3 both wait for ever.

Two more are exceptions that the properties themselves name. Two switches of
different nodes whose `on_state` automations publish to each other never come to rest
after two quick commands: with the run's configuration `<>[]Quiet` alone is violated,
by a lasso in which the states 1 and 0 circulate. Remote switches that are each
other's targets pass a request round for ever after one command. And on the
sockets, `read`, `write`, `send`, `getpeername`, `bind`, `listen` or `accept_loop_monitored`
after `close()` or `shutdown()` throws out of `getSocket`, although each of them tests the
result for `nullptr` and has an error to return: `~aborted` is violated by creating a
socket, closing it and reading. The OTA server of the repository drops its pointer
with the close and does not run into this.

## Proofs

`MeshOta_proofs` proves, from the named assumptions on the constants only:

| Theorem | Statement |
|---|---|
| `TypeCorrect` | `Spec => []TypeOK`, which includes the buffers' allocations |
| `SessionInvariant` | `Spec => []SessionInv` |
| `BackendCorrect`, `SlotCorrect`, `IdleCorrect` | `[]BackendInSession`, `[]SlotNotLeaked`, `[]IdleIsClean` |
| `ProgressCorrect` | `[]ProgressIsTrue` |
| `UpdateRefinement` | `Spec => ImplementsUpdate` |
| `PromiseKept` | `Spec => []Abs!Promise` |

None of the three session invariants is inductive. `BackendInSession` fails to
be: a step in the middle of a yield would be free to find a peer in a state the
session cannot be in. `SessionInv` is the strengthening: either there is no peer
and every session field has its cleared value (`NoSession`, which still allows
the orphaned handler of a torn-down session to be at work with bytes of its
buffer and a state of its own), or there is one, and backend, slot, challenge,
`update_started` and the place in a yield are functions of `ota_state`
(`InSession`). `ProgressInv` adds the arithmetic of the counters. Both are stated
over `TypeOK`, which is inductive by itself.

The counters and the refinement are not proved action by action. Lemma
`StepEffect` first classifies every step by what it does to the update: it
`Closes`, `Keeps`, `Opens`, `Grants`, `Begins`, `Writes`, `Acknowledges` or
`Commits`; then `ProgressStep` and `EffectRefines` have eight cases each instead
of forty. `PromiseKept` is the abstract theorem `UpdateKeepsPromise`, instantiated
through the refinement.

`MeshOtaSystem_proofs`, from `ClientAssumption` besides:

| Theorem | Statement |
|---|---|
| `SysInvCorrect` | `SysSpec => []SysInv`, the inductive invariant |
| `SystemImplementsServer` | `SysSpec => Spec` of `MeshOta`, so all theorems above hold among clients |
| `SystemKeepsPromise` | `SysSpec => []Abs!Promise` |
| `EndIsTrueCorrect` | `[]EndIsTrue`: a client told `UPDATE_END_OK` is right that the node boots a verified image |
| `AgreementCorrect` | `OneRelease` implies `[]Agreement` |
| `OnlyAfterKnowingCorrect` | `[]OnlyAfterKnowing` |

They hold for any number of clients, datagram sizes, losses, repetitions and orders
of arrival. `MeshOta` lets senders send anything in `Datagram`; `ClientAssumption`
says that whatever the clients cut is in it, and lemma `Cut`, by way of the form of
the scripts (`ScriptType`, `ScriptEnds`), that they cut nothing else. `EndInv` follows
`UPDATE_END_OK` back: a client past the line that hears it has heard it, one in
flight was sent in `DATA_END_OK` (`NodeReplies`), and there the slot is valid and
`boot` an image. What the bytes of a session were meant to be cannot be told from them
when datagrams are lost, so which of several releases it is cannot be concluded from
the digest's place in a stream: `OneRelease`, that no digest but those of the
offered image is the digest of an image, is the hypothesis of `AgreementCorrect`. In
the run `disorder` a second image exists that no mixture of the client's datagrams yields.

`OnlyAfterKnowing` is the half of `OnlyKnowing` that does not depend on the images: until a
client that knows the password has started, the node boots what it did. Its hypothesis
`HardToGuess` is the model's form of a secret: every answer has a byte that the others
never send (6 in the runs). `SecretInv` then says that everything in flight, in the
receive buffer and in the half-read response is made of the others' bytes, across every cut
and mixture (`NodeGuesses`), so that the comparison in `AUTH_READ` fails
(`NoGuessAnswers`) and nothing else sets `proved` (`ProvedByAnswer`).

`MeshOtaReliable_proofs`, from `ClientAssumption` and three hypotheses, that there is one
client (`\E c \in Node : Node = {c}`), `Reliable` and `Protocol`:

| Theorem | Statement |
|---|---|
| `ReceiveWindowCorrect` | `SysSpec => []ReceiveWindow` |
| `NoCrashCorrect` | `[]NoCrash` |
| `OnlyKnowingCorrect` | `Unforgeable` implies `[]OnlyKnowing` |

The image, the sizes of blocks, buffers and datagrams, the number of datagrams in
flight and of retries are arbitrary. `Reliable` is the setting of the run `reliable`:
no datagram is lost, repeated or overtaken, no deadline passes, no call of the backend
fails and the client does not give up. It is what the protocol relies on, not a
convenience of the proof. A session that ends on a timeout or a fault leaves
datagrams in flight, and those of a client that starts again come on top of them: the
window is then exceeded, and the server's answer is `ERROR_UNKNOWN`. (Failures that
need no fault, a wrong password, an image larger than the slot or a digest that does not
verify, are in the theorems.) `Protocol` says what a client of version 2 sends: fields of
the length the server reads, none longer than the receive buffer, which holds a block
(`RX_RING_MAX = OTA_BLOCK_SIZE`). `Unforgeable` says that the answer of a client that does
not know the password is wrong.

The argument is that client and server follow one script, and where each of them is in
it determines what is between them. A table gives the length and the answers of each
line (`SayLen`, `Hear`; lemma `ScriptTable` shows that `Script` is that table, whatever the
image). `ServerAt(c, s, t)` is where the server is: in line `s`, of which it has
taken `t` bytes. `Way` says that what has been said of the line and not been taken
is, in order, the receive buffer and the datagrams in flight. The server's 17
labels are then classified once, by lemma `ServerMoves`: a step takes bytes of the
line, answers it, refuses it, or restarts the node (`Moves`). The inductive
invariant `Joint` has five cases: the client is saying the line that the server reads
(`Saying`), or has answers to hear up to it (`Ahead`: the server goes on over lines
that say nothing, as from the features to the challenge), or is through (`Leaving`), or
there is no session, with nothing on the way or the answers up to a refusal
(`Quiet`). `NodeKeeps`, `DeliverKeeps`, `StartKeeps`, `SayKeeps` and `HearKeeps` show that
it is kept. It gives the three theorems: all that is in flight is part of one line, and no line is
longer than the buffer (`WindowHolds`); no datagram ever overflows it, so `readall_`
never finds its session gone; and whoever came as far as `DATA_BEGIN` has answered the
challenge. Cardinalities count the bytes in flight (`WayInFlight`), by
way of the least counterexample, since a fold cannot be reasoned about.

`EspHomeOta_proofs`, likewise:

| Theorem | Statement |
|---|---|
| `TypeCorrect` | `Spec => []TypeOK` |
| `SlotCorrect`, `IdleCorrect` | `[]SlotNotLeaked`, `[]IdleIsClean` |
| `ChunksCorrect` | `[]ChunksAreTrue` |
| `WakeCorrect` | `[]NoLostWake` |
| `UpdateRefinement` | `Spec => ImplementsUpdate` |
| `PromiseKept` | `Spec => []Abs!Promise` |

The argument is that of `MeshOta_proofs` over other code. `SessionInv` has again
two halves: without a client every field of a session has its cleared value and
the slot is closed (`NoSession`; or valid, once a restart is on its way), with
one the label of the data phase says what the slot is and whether the password has
been proved (`InSession`). `SlotNotLeaked` and `IdleIsClean` follow from it.
`ProgressInv` adds to `ChunksAreTrue` the counters at the labels before and after
the loop: that nothing is counted before `begin()`, and that `total = ota_size`
from `RECEIVE_OK` on. `WakeInv` adds to `NoLostWake` what happens around
`disable_loop()`: with the idle check made (`pc = "disable"`) a connection that
comes has already asked for the loop. `StepEffect` classifies the steps by what they do to the
update, and `ProgressStep` and `EffectRefines` have a case for each effect.
Two servers that share no code thus implement one specification.

`LwipSockets_proofs`, from the assumptions on the constants:

| Theorem | Statement |
|---|---|
| `TypeCorrect` | `Spec => []TypeOK`: the accept queue fits its array |
| `CallbacksCorrect` | `[]CallbacksMatch` |
| `FreedWithoutPreemption` | `~Preempt` implies `[]ReceivedFreed` |
| `StreamCorrect` | `[]StreamIntact` |
| `WindowCorrect` | `[]WindowTrue` |
| `SentCorrect` | `[]SentOnce` |
| `WakeCorrect` | `[]DataWakes` |
| `PbufsCorrect` | `[]PbufsAccounted` |

`CallbacksMatch` says that each queued pcb points to its slot; it is inductive
only with the converse, that each slot with a pcb is pointed to by that pcb (two
pcbs could otherwise share a slot and part at a shift), and with what the
destructors leave half done. That is `Match`. `TypeOK` bounds `arg`, from which
`accept()` subtracts, so it is not inductive alone: `WeakTypes` leaves the bound
to `Match`. `Data(c)` states the stream of one connection in terms of indices
(`Flow`), with the window, and the facts that a connection not yet accepted has
no socket and a new one no history; without them an error on a queued pcb could
expose an old buffer. Most steps leave a connection's data where it is, which
lemma `Kept` handles once; `Arrived` and `FlowTaken` are the two that move bytes,
and `IntactAccept` shows that a shift moves each slot together with its pcb.
`SentOnce` needs that what `write()` has told its caller is what lies in lwIP's
buffer (`Known`); `DataWakes` is inductive. `PbufsAccounted` needs who a slot is
for (`Filled`: a slot with a pcb is that pcb's, and its connection is no longer
new), that a connection has one slot at most (`OneSlot`), so that discarding the
dead slots in front takes the bytes of nobody else, and that nothing is buffered
for a connection without a socket (`Bare`), which a hand-over would overwrite.

`NodeServices_proofs`, of the sockets, from `SocketConstants`:

| Theorem | Statement |
|---|---|
| `SocketsCorrect` | `SocketsSpec => []SocketsMatch` |
| `FewSockets` | `MaxSockets < Keys` implies `[](~outlived /\ ~crossed /\ (aborted => late))` |

The run has three keys and six sockets; the theorems have the code's 2^16. `IInv`
adds to `SocketsMatch` that an open object's descriptor is its own serial number,
which no other open object has (`Objects`), and that none is older than `Keys`
sockets (`Window`). Two numbers within such a window differ modulo `Keys` (lemma
`Apart`), so `addSocket` overwrites no entry in use and `close` erases its own. A lookup
of an open object therefore succeeds and finds its own; one of a closed object has
the key of -1, which nobody has before `Keys` sockets were created (`LastKey`,
`LookupBlame`). `FewSockets` covers what a node does in practice: its first 65535
sockets, with any use of them, a use after a close being the only thing that throws.

`NodeServices_proofs`, of the ping, from `PingConstants`:

| Theorem | Statement |
|---|---|
| `TypeCorrect` | `PingSpec => []PingTypeOK` |
| `DeadCorrect` | `[]DeadIsNoticed` |
| `AliveCorrect` | `2 * MaxDelay < Second` implies `[]AliveIsSeen` |

Both are bounds on time, so their invariants relate ages. An answer of a dead target
that is still under way is no younger than its death, but for what the mesh has
postponed (`LastAnswers`); and as long as the node shows the target present, the time
since its death and the time to the next ping, or the age of the open one, stay within
a common bound (`Shown`). With a living target (`AliveInv`) a conversation has at most
one datagram under way, question or answer, sent no earlier than the last update
(`OneAtATime`), and the last ping is either open with such a datagram under way or
answered (`Seen`). The hypothesis of `AliveCorrect` is one about the mesh: where both
ways take longer a live target misses the timeout of every ping. In the run one
way takes at most 1 of the timeout's 3 ticks.

`NodeServices_proofs`, of the self-test, from `TestConstants` and `StartsClose`:

| Theorem | Statement |
|---|---|
| `BothPassCorrect` | `TestSpec => []BothPass` |

It holds for any delays, pauses, timeouts and any `skew`. The inductive invariant
`Together` says in which stage the two nodes are: `Begins`, where their clocks agree
until the director says hello; then phase by phase `Greets`, `Talks`, with exactly
one packet under way or none, and `Leaving`, where both close a socket and open
another; and, for the second phase, `Early` and `Missed`, which need a loop that is
faster than the other. `Ahead` is the count that keeps loops which take turns out of
these two: before the responder has opened its socket the director has not had the
loops it takes to say hello. The proof needs `Early` to hold also of a hello that reaches
the responder's socket of the *first* phase and is thrown away when that is closed: this
takes a director four times as fast, which the run therefore allows for.

`MeshDirect_proofs`, from `DirectConstants` and `Wired`:

| Theorem | Statement |
|---|---|
| `DirectTypeCorrect` | `DirectSpec => [](Sound /\ Histories)`: `DirectTypeOK` but for the length of links, and what links carry |
| `RemoteShowsTargetCorrect` | `[]RemoteShowsTarget` |

The run has three nodes and two moves; the theorem any number of nodes, entities,
questions, commands and restarts. `Wired` says what the protocol needs of the
configuration and does not check: a remote switch stands for a switch of another
node and is found under its own hash, only its target publishes to it, and the software
that asks questions (`Hub`) sends no publications or replies and shares its node with no
remote switch. The run assumes it, too.

What is shown when the mesh is at rest follows from what may be under way before.
`Carried(l)` names the cause of every frame that link `l` may carry (a question, the query
or an order of a remote switch, a publication, an answer), so that a frame which matters
to a remote switch `r` can only come from `r`'s node or its target's (`Requests`,
`Tellers`, `Telling`). Of these two links the invariant says what their last frames
promise (`Showing`, over `ShownAt`). If the target publishes to `r`, the last word under
way to `r` is the target's state, and when there is none `r` agrees with it, or is about
to ask, or has asked, or has last ordered its own state (`MirrorAt`). If it does not
publish, the order of requests has to do the work: while a query or its answer is under
way no order follows the query, an answer that no query follows is the target's state,
and after it `r` agrees with the target or has last ordered its own state (`CopyAt`). That is
where `spoiled` comes from: a write during a query, or a change by somebody else, breaks
it. `StepAsks`, `StepWrites`, `StepObeys`, `StepAnswers`, `StepTold`, `StepHears` and
`StepRestarts` are the ways a step can touch `r`, `StepStill` and `Idle` say that
nothing else does, and each handler has a lemma (`KeptSetEntityState` and so on) that
finds the one which applies. The restart of a node with remote switches needs no more
than that it queries again.

`NodeServices_proofs`, of the audio: the source's from `SourceConstants`, the pipeline's from
`PipelineConstants`:

| Theorem | Statement |
|---|---|
| `SourceStream` | `SourceSpec => []StreamInOrder` |
| `SourceHeld`, `SourceFrames` | `[]HeldAsNeeded`, `[]WholeFrames` |
| `SourceTypeCorrect` | `[]SourceTypeOK` |
| `SamplesCorrect` | `PipelineSpec => []SamplesInOrder` |
| `FinishedCorrect` | `[]FinishedMeansAll` |
| `PipelineTypeCorrect` | `[]PipelineTypeOK` |
| `PipelineImplementsSource` | `PipelineSpec => SourceSpec` |

`SourceInv` says of each of the five pieces of the stream where it begins and that
its bytes follow on (`Order`, over `Run`), which the concatenation in
`StreamInOrder` does not let a prover see; that there is no tail while a splice is
kept (`Held`), without which the release of an item would overwrite one; and what
space there is (`Space`). `WholeFrames` needs that sums and differences of multiples
of `Alignment` are multiples, proved from the definition of `%`.

`PipelineInv` adds the two transfer buffers (`Reading`, `Samples`) and two
arguments. `Accounting`: what the codec has taken is the header, decoded or lost
frames, and less than a frame besides, so with the last byte of the audio all of it
is accounted for. `Ending`: without a glitch `decode()` takes nothing for a failure
before the audio is over, except, once, an output buffer too small for a frame; so
neither `end_of_file_` nor `MAX_POTENTIALLY_FAILED_COUNT` ends it early. That needs the
latter to be above 0 (it is 10), and that nothing is decoded before the last samples are
with the sink (`output.data = <<>>` where the codec is called). The
assumptions on the constants are the code's: its limits are not 0, raw files are
byte aligned, and a file has a header and audio after it.

Only model-checked:

* liveness (`SessionEnds`, `TransferCompletes`, `Served`, `FallsSilent`,
  `TestEnds`, `PlaybackEnds`): fairness and `ENABLED` are beyond the prover;
* of the mesh OTA server with several clients or with faults, `NoCrash` and `OnlyKnowing`
  beyond `OnlyAfterKnowing`: the run `stranger` checks them with two clients, losses,
  timeouts and faults. There a session is made of whatever bytes arrive, so which image
  it is depends on the bytes of all scripts, and `NoCrash` on how much the clients may
  have in flight: arbitrary senders can reach `Crash` in `MeshOta`, by a flood that
  overflows the buffer inside one yield of `readall_` followed by more bytes;
* how many packets the self-test may have under way when the mesh repeats them, and how
  many frames a link of the entity protocol (the bounds in `TestTypeOK` and
  `DirectTypeOK`; the second follows from the bounds of a run, not from the code).

## Plan

1. Done: `OtaUpdate`, `MeshOta`, `MeshOtaSystem`, their runs and theorems.
2. Done: `EspHomeOta`, its runs and theorems.
3. Done: `LwipSockets`, its runs and theorems.
4. Done: `MeshDirect` with the remote switch, `Ping`, `MeshTest`, `MeshSockets`,
   `AudioSource`, `AudioPipeline`, their run and the finding; `MeshSockets`, `Ping`,
   `MeshTest`, `MeshDirect` and the audio modules proved.
5. Both OTA servers over one flash slot: `handle_data_` of the TCP server pumps
   the mesh, whose OTA server may begin an update of its own.

## Not modelled

* The external library, lwIP, ESPHome's ring buffer and the codecs themselves, beyond
  what the modelled code needs of them.
* The Noise handshake (partly outside the repository) and the partition updates of
  the TCP server.
* Outgoing TCP connections, binding, names and options of sockets, the listener's
  error callback before `listen()`, `shutdown()` of the raw sockets.
* The thin BSD and lwIP socket wrappers: each method is one system call.
* The mesh component, `meshmesh.cpp`: it wires the library into ESPHome, and its
  commands read or set one setting each; its `loop()`, as far as it delivers
  datagrams, is in the modules of those who receive them.
* The packet transport, a stateless forwarder. (`recvDatagram` drops the last byte of a
  packet, meshmesh_transport.cpp:65-72; whether the peer adds one is not in the
  repository.)
* The audio resampler (numeric code over a library), the detection of file types,
  `ConstAudioSourceBuffer`.
* Flash drivers and compression, logging and `dump_config`, network address
  formatting, the Python generators, protobuf code.
