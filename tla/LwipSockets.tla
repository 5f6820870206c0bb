---------------------------- MODULE LwipSockets -----------------------------
(***************************************************************************)
(* The raw lwIP TCP sockets (socket/lwip_raw_tcp_impl): one listening      *)
(* socket with its accept queue, the connected sockets taken from it, and  *)
(* the callbacks lwIP makes on both.                                       *)
(*                                                                         *)
(* Everything the program does under LWIP_LOCK is one action.  The main    *)
(* loop is outside the lock between two calls (pc = "idle"), while read()  *)
(* waits ("check": about to evaluate waiting_for_data_; "delay": in        *)
(* wakeable_delay), before it takes the lock ("locked"), and between the   *)
(* two destructors of a connected socket ("base").  A callback can come at *)
(* any of these points where it preempts the main loop (RP2040), and       *)
(* where the main loop yields otherwise (ESP8266).                         *)
(*                                                                         *)
(* Bytes are numbered: the n-th byte of a peer is n, and so is the n-th    *)
(* byte that the program writes to a connection.  A pbuf chain is the      *)
(* sequence of its unread bytes: rx_buf_offset_ and the cuts between pbufs *)
(* are not kept.                                                           *)
(***************************************************************************)
EXTENDS Integers, Sequences

CONSTANTS
  Conn,         \* connections: each is one tcp_pcb of lwIP
  NoConn,       \* a null tcp_pcb
  MaxAccepted,  \* MAX_ACCEPTED_SOCKETS
  Window,       \* bytes lwIP lets a peer send before tcp_recved
  Rx,           \* bound: bytes each peer sends
  Tx,           \* bound: bytes the program writes to each
  Nodelay,      \* nodelay_
  Preempt       \* callbacks preempt the main loop

ASSUME ConnAssumption == NoConn \notin Conn
ASSUME LimitAssumption ==
  /\ MaxAccepted \in Nat \ {0}
  /\ Window \in Nat
  /\ Rx \in [Conn -> Nat] /\ Tx \in [Conn -> Nat]
ASSUME BuildAssumption == Nodelay \in BOOLEAN /\ Preempt \in BOOLEAN

VARIABLES
  listener,       \* bound, listening, refused (pcb_ is null) or gone
  accepted_pcbs,  \* accepted_pcbs_[0 .. accepted_socket_count_)
  link,           \* lwIP's side of a pcb: new, live, gone (freed or detached)
  callback,       \* recv and err callbacks of the pcb: none, queued, socket
  arg,            \* tcp_arg of a queued pcb: the index of its slot, from 1
  object,         \* LWIPRawImpl: none, live, dying (derived part gone), gone
  pcb,            \* pcb_ is not null
  rx_buf,         \* rx_buf_
  rx_closed,      \* rx_closed_
  pc,             \* where the main loop is, see above
  user,           \* the socket it is at work on, NoConn if idle
  want,           \* length asked of the running read()
  wake,           \* a wake-up was requested and not yet noticed
  unacked,        \* bytes lwIP delivered, not yet acknowledged by tcp_recved
  pbufs,          \* history: bytes of each peer in pbufs the program owns
  sent,           \* history: bytes delivered by the peer
  got,            \* history: bytes read() has returned
  out,            \* bytes tcp_write has taken
  told,           \* bytes the program believes written
  broken          \* write() has told it to give up

queueVars  == <<listener, accepted_pcbs>>
pcbVars    == <<link, callback, arg>>
objectVars == <<object, pcb, rx_buf, rx_closed>>
mainVars   == <<pc, user, want>>
streamVars == <<unacked, sent, got>>
writeVars  == <<out, told, broken>>
vars == <<queueVars, pcbVars, objectVars, mainVars, wake, pbufs, streamVars,
          writeVars>>

(* A slot of the queue; from, for the accounting alone, is the connection  *)
(* it was filled for, which a reset does not erase.                        *)
Slot == [pcb : Conn \cup {NoConn}, from : Conn,
         rx_buf : Seq(Nat), rx_closed : BOOLEAN]
Slots == 1 .. Len(accepted_pcbs)

Lesser(a, b) == IF a <= b THEN a ELSE b
Drop(s, n) == SubSeq(s, n + 1, Len(s))

(* The next n bytes of the peer.                                           *)
Fresh(c, n) == [i \in 1 .. n |-> sent[c] + i]

------------------------------------------------------------------------------
Init ==
  /\ listener = "bound"
  /\ accepted_pcbs = <<>>
  /\ link = [c \in Conn |-> "new"]
  /\ callback = [c \in Conn |-> "none"]
  /\ arg = [c \in Conn |-> 0]
  /\ object = [c \in Conn |-> "none"]
  /\ pcb = [c \in Conn |-> FALSE]
  /\ rx_buf = [c \in Conn |-> <<>>]
  /\ rx_closed = [c \in Conn |-> FALSE]
  /\ pc = "idle" /\ user = NoConn /\ want = 0
  /\ wake = FALSE
  /\ unacked = [c \in Conn |-> 0]
  /\ pbufs = [c \in Conn |-> 0]
  /\ sent = [c \in Conn |-> 0]
  /\ got = [c \in Conn |-> <<>>]
  /\ out = [c \in Conn |-> <<>>]
  /\ told = [c \in Conn |-> 0]
  /\ broken = [c \in Conn |-> FALSE]

(* The pcb leaves the program's hands: its callbacks are cleared before it *)
(* is closed or aborted (pcb_detach_close, pcb_detach_abort), or lwIP has  *)
(* freed it.                                                               *)
Detach(cs) ==
  /\ link' = [c \in Conn |-> IF c \in cs THEN "gone" ELSE link[c]]
  /\ callback' = [c \in Conn |-> IF c \in cs THEN "none" ELSE callback[c]]
  /\ arg' = [c \in Conn |-> IF c \in cs THEN 0 ELSE arg[c]]

------------------------------------------------------------------------------
(* lwIP's callbacks.                                                       *)
Interrupt == Preempt \/ pc \in {"idle", "delay"}

QueueFullLate == Len(accepted_pcbs) > MaxAccepted
QueueFull == Len(accepted_pcbs) >= MaxAccepted

(* accept_fn_: a connection beyond the queue is aborted.                   *)
AcceptFn(c) ==
  /\ Interrupt
  /\ listener = "listening" /\ link[c] = "new"
  /\ \/ /\ QueueFull
        /\ Detach({c})
        /\ UNCHANGED <<accepted_pcbs, wake>>
     \/ /\ ~QueueFull
        /\ accepted_pcbs' = Append(accepted_pcbs,
             [pcb |-> c, from |-> c, rx_buf |-> <<>>, rx_closed |-> FALSE])
        /\ link' = [link EXCEPT ![c] = "live"]
        /\ callback' = [callback EXCEPT ![c] = "queued"]
        /\ arg' = [arg EXCEPT ![c] = Len(accepted_pcbs) + 1]
        /\ wake' = TRUE
  /\ UNCHANGED <<listener, objectVars, mainVars, pbufs, streamVars, writeVars>>

(* A segment of n bytes: lwIP hands over a pbuf and closes the window by   *)
(* as much.                                                                *)
Segment(c, n) ==
  /\ Interrupt
  /\ link[c] = "live"
  /\ unacked[c] + n <= Window /\ sent[c] + n <= Rx[c]
  /\ sent' = [sent EXCEPT ![c] = @ + n]
  /\ unacked' = [unacked EXCEPT ![c] = @ + n]
  /\ pbufs' = [pbufs EXCEPT ![c] = @ + n]

(* s_queued_recv_fn writes to the slot its argument points to.             *)
QueuedRecv(c, n) ==
  /\ callback[c] = "queued"
  /\ Segment(c, n)
  /\ accepted_pcbs' =
       [accepted_pcbs EXCEPT ![arg[c]].rx_buf = @ \o Fresh(c, n)]
  /\ UNCHANGED <<listener, pcbVars, objectVars, mainVars, wake, got, writeVars>>

QueuedFin(c) ==
  /\ Interrupt
  /\ link[c] = "live" /\ callback[c] = "queued"
  /\ accepted_pcbs' = [accepted_pcbs EXCEPT ![arg[c]].rx_closed = TRUE]
  /\ UNCHANGED <<listener, pcbVars, objectVars, mainVars, wake, pbufs,
                 streamVars, writeVars>>

(* s_queued_err_fn: lwIP has freed the pcb; the slot keeps its data.       *)
QueuedErr(c) ==
  /\ Interrupt
  /\ link[c] = "live" /\ callback[c] = "queued"
  /\ accepted_pcbs' = [accepted_pcbs EXCEPT ![arg[c]].pcb = NoConn]
  /\ Detach({c})
  /\ UNCHANGED <<listener, objectVars, mainVars, wake, pbufs, streamVars,
                 writeVars>>

(* recv_fn of a connected socket.                                          *)
RecvSilently == UNCHANGED wake
RecvWakes == wake' = TRUE
RecvFn(c, n) ==
  /\ callback[c] = "socket"
  /\ Segment(c, n)
  /\ rx_buf' = [rx_buf EXCEPT ![c] = @ \o Fresh(c, n)]
  /\ RecvWakes
  /\ UNCHANGED <<queueVars, pcbVars, object, pcb, rx_closed, mainVars, got,
                 writeVars>>

(* The peer's FIN, or an error that lwIP reports instead of data.          *)
Fin(c) ==
  /\ Interrupt
  /\ link[c] = "live" /\ callback[c] = "socket"
  /\ rx_closed' = [rx_closed EXCEPT ![c] = TRUE]
  /\ UNCHANGED <<queueVars, pcbVars, object, pcb, rx_buf, mainVars, wake,
                 pbufs, streamVars, writeVars>>

(* s_err_fn: a reset or a timeout; lwIP has freed the pcb.                 *)
ErrFn(c) ==
  /\ Interrupt
  /\ link[c] = "live" /\ callback[c] = "socket"
  /\ pcb' = [pcb EXCEPT ![c] = FALSE]
  /\ Detach({c})
  /\ UNCHANGED <<queueVars, object, rx_buf, rx_closed, mainVars, wake, pbufs,
                 streamVars, writeVars>>

------------------------------------------------------------------------------
(* The listening socket.                                                   *)
Listen ==
  /\ pc = "idle" /\ listener = "bound"
  /\ listener' \in {"listening", "refused"}
  /\ UNCHANGED <<accepted_pcbs, pcbVars, objectVars, mainVars, wake, pbufs,
                 streamVars, writeVars>>

(* accept(): the slots in front whose pcb lwIP has freed are discarded     *)
(* with their data, the first live one becomes a socket, and the rest is   *)
(* shifted to the front, each pcb with its argument.                       *)
Dead(i) == accepted_pcbs[i].pcb = NoConn

ShiftedStale(n) == arg
Shifted(n) ==
  [c \in Conn |-> IF callback[c] = "queued" THEN arg[c] - n ELSE arg[c]]

(* What the slots is hold of a connection (it never has more than one),    *)
(* and the pbufs that are left when those slots are freed.                 *)
SlotBytes(c, is) ==
  LET mine == {i \in is : accepted_pcbs[i].from = c} IN
  IF mine = {} THEN 0 ELSE Len(accepted_pcbs[CHOOSE i \in mine : TRUE].rx_buf)
DiscardedKept(is) == pbufs
Discarded(is) == [c \in Conn |-> pbufs[c] - SlotBytes(c, is)]

AcceptNone ==
  /\ pc = "idle" /\ listener = "listening"
  /\ accepted_pcbs # <<>> /\ \A i \in Slots : Dead(i)
  /\ accepted_pcbs' = <<>>
  /\ pbufs' = Discarded(Slots)
  /\ UNCHANGED <<listener, pcbVars, objectVars, mainVars, wake, streamVars,
                 writeVars>>

(* LWIPRawImpl::init: the data and the FIN that came while the pcb was     *)
(* queued go to the socket.                                                *)
InitialNone(entry) == <<>>
InitialRx(entry) == entry.rx_buf

AcceptAt(k) ==
  LET entry == accepted_pcbs[k]  c == entry.pcb IN
  /\ \A i \in 1 .. k - 1 : Dead(i)
  /\ ~Dead(k)
  /\ accepted_pcbs' = Drop(accepted_pcbs, k)
  /\ pbufs' = Discarded(1 .. k - 1)
  /\ object' = [object EXCEPT ![c] = "live"]
  /\ pcb' = [pcb EXCEPT ![c] = TRUE]
  /\ rx_buf' = [rx_buf EXCEPT ![c] = InitialRx(entry)]
  /\ rx_closed' = [rx_closed EXCEPT ![c] = entry.rx_closed]
  /\ callback' = [callback EXCEPT ![c] = "socket"]
  /\ arg' = [Shifted(k) EXCEPT ![c] = 0]

Accept ==
  /\ pc = "idle" /\ listener = "listening"
  /\ \E k \in Slots : AcceptAt(k)
  /\ UNCHANGED <<listener, link, mainVars, wake, streamVars, writeVars>>

(* ~LWIPRawListenImpl: whoever is still queued is aborted.                 *)
DestroyListener ==
  /\ pc = "idle" /\ listener # "gone"
  /\ listener' = "gone"
  /\ Detach({c \in Conn : \E i \in Slots : accepted_pcbs[i].pcb = c})
  /\ accepted_pcbs' = <<>>
  /\ pbufs' = Discarded(Slots)
  /\ UNCHANGED <<objectVars, mainVars, wake, streamVars, writeVars>>

------------------------------------------------------------------------------
(* A connected socket.  Its user calls nothing on it once it is destroyed. *)
CanUse(c) == pc = "idle" /\ object[c] = "live"

WaitingForData(c) == rx_buf[c] = <<>> /\ ~rx_closed[c] /\ pcb[c]

(* read() and readv(): with a receive timeout set they wait first.         *)
Read(c, len) ==
  /\ CanUse(c)
  /\ user' = c /\ want' = len
  /\ pc' \in {"check", "locked"}
  /\ UNCHANGED <<queueVars, pcbVars, objectVars, wake, pbufs, streamVars,
                 writeVars>>

(* The condition of the loop in wait_for_data_, read without the lock.     *)
Check ==
  /\ pc = "check"
  /\ pc' = IF WaitingForData(user) THEN "delay" ELSE "locked"
  /\ UNCHANGED <<queueVars, pcbVars, objectVars, user, want, wake, pbufs,
                 streamVars, writeVars>>

(* wakeable_delay returns early at a wake-up, whatever it was for.         *)
Woken ==
  /\ pc = "delay" /\ wake
  /\ wake' = FALSE
  /\ pc' = "check"
  /\ UNCHANGED <<queueVars, pcbVars, objectVars, user, want, pbufs,
                 streamVars, writeVars>>

WaitOver ==
  /\ pc = "delay"
  /\ pc' = "locked"
  /\ UNCHANGED <<queueVars, pcbVars, objectVars, user, want, wake, pbufs,
                 streamVars, writeVars>>

(* read_locked_: a reset comes before what is buffered, what is buffered   *)
(* before a close.                                                         *)
ReadWorks(c) == pcb[c] /\ rx_buf[c] # <<>>

RecvedAll(c, n) == unacked[c] - want
Recved(c, n) == unacked[c] - n

ReadLocked ==
  LET n == Lesser(want, Len(rx_buf[user])) IN
  /\ pc = "locked"
  /\ pc' = "idle" /\ user' = NoConn /\ want' = 0
  /\ \/ /\ ~ReadWorks(user)
        /\ UNCHANGED <<rx_buf, got, unacked, pbufs>>
     \/ /\ ReadWorks(user)
        /\ got' = [got EXCEPT ![user] = @ \o SubSeq(rx_buf[user], 1, n)]
        /\ rx_buf' = [rx_buf EXCEPT ![user] = Drop(@, n)]
        /\ unacked' = [unacked EXCEPT ![user] = Recved(user, n)]
        /\ pbufs' = [pbufs EXCEPT ![user] = @ - n]
  /\ UNCHANGED <<queueVars, pcbVars, object, pcb, rx_closed, wake, sent,
                 writeVars>>

(* The main loop notices a wake-up when no read() waits for one.           *)
LoopWoken ==
  /\ pc = "idle" /\ wake
  /\ wake' = FALSE
  /\ UNCHANGED <<queueVars, pcbVars, objectVars, mainVars, pbufs, streamVars,
                 writeVars>>

(* write() and writev() of the bytes after those the program believes      *)
(* written: tcp_write takes n of them, none if there is no room, and with  *)
(* nodelay_ tcp_output may fail after that.  A caller tries again after    *)
(* EWOULDBLOCK and gives up at any other error (writeall_ of the OTA).     *)
Offer(c, len) == [i \in 1 .. len |-> told[c] + i]

OutputFailsSoftly(c) == UNCHANGED broken
OutputFails(c) == broken' = [broken EXCEPT ![c] = TRUE]

Write(c, len) ==
  /\ CanUse(c) /\ ~broken[c]
  /\ Len(out[c]) + len <= Tx[c]
  /\ \/ /\ ~pcb[c]
        /\ broken' = [broken EXCEPT ![c] = TRUE]
        /\ UNCHANGED <<out, told>>
     \/ /\ pcb[c]
        /\ \E n \in 1 .. len :
             out' = [out EXCEPT ![c] = @ \o SubSeq(Offer(c, len), 1, n)]
        /\ \/ /\ told' = [told EXCEPT ![c] = @ + Len(out'[c]) - Len(out[c])]
              /\ UNCHANGED broken
           \/ /\ Nodelay
              /\ OutputFails(c)
              /\ UNCHANGED told
     \/ /\ pcb[c]
        /\ broken' = [broken EXCEPT ![c] = TRUE]
        /\ UNCHANGED <<out, told>>
  /\ UNCHANGED <<queueVars, pcbVars, objectVars, mainVars, wake, pbufs,
                 streamVars>>

(* close(): what is buffered stays with the object.                        *)
Close(c) ==
  /\ CanUse(c) /\ pcb[c]
  /\ Detach({c})
  /\ pcb' = [pcb EXCEPT ![c] = FALSE]
  /\ UNCHANGED <<queueVars, object, rx_buf, rx_closed, mainVars, wake, pbufs,
                 streamVars, writeVars>>

(* ~LWIPRawImpl frees what is buffered and releases the lock ...           *)
DestroyDerived(c) ==
  /\ CanUse(c)
  /\ object' = [object EXCEPT ![c] = "dying"]
  /\ rx_buf' = [rx_buf EXCEPT ![c] = <<>>]
  /\ pbufs' = [pbufs EXCEPT ![c] = @ - Len(rx_buf[c])]
  /\ pc' = "base" /\ user' = c
  /\ UNCHANGED <<queueVars, pcbVars, pcb, rx_closed, want, wake, streamVars,
                 writeVars>>

(* ... before ~LWIPRawCommon takes it again and aborts the pcb.            *)
BaseAborts ==
  IF pcb[user]
    THEN Detach({user}) /\ pcb' = [pcb EXCEPT ![user] = FALSE]
    ELSE UNCHANGED <<pcbVars, pcb>>

DestroyBase ==
  /\ pc = "base"
  /\ BaseAborts
  /\ object' = [object EXCEPT ![user] = "gone"]
  /\ pc' = "idle" /\ user' = NoConn
  /\ UNCHANGED <<queueVars, rx_buf, rx_closed, want, wake, pbufs, streamVars,
                 writeVars>>

------------------------------------------------------------------------------
Callback(c) ==
  \/ AcceptFn(c) \/ QueuedFin(c) \/ QueuedErr(c) \/ Fin(c) \/ ErrFn(c)
  \/ \E n \in 1 .. Window : QueuedRecv(c, n) \/ RecvFn(c, n)

Call(c) ==
  \/ Close(c) \/ DestroyDerived(c)
  \/ \E len \in 1 .. Window : Read(c, len)
  \/ \E len \in 1 .. Tx[c] : Write(c, len)

Main ==
  \/ Listen \/ Accept \/ AcceptNone \/ DestroyListener \/ LoopWoken
  \/ Check \/ Woken \/ WaitOver \/ ReadLocked \/ DestroyBase
  \/ \E c \in Conn : Call(c)

Next == Main \/ \E c \in Conn : Callback(c)

Spec == Init /\ [][Next]_vars

------------------------------------------------------------------------------
(* Every variable has its type, and the accept queue fits its array.       *)
TypeOK ==
  /\ listener \in {"bound", "listening", "refused", "gone"}
  /\ accepted_pcbs \in Seq(Slot) /\ Len(accepted_pcbs) <= MaxAccepted
  /\ link \in [Conn -> {"new", "live", "gone"}]
  /\ callback \in [Conn -> {"none", "queued", "socket"}]
  /\ arg \in [Conn -> 0 .. MaxAccepted]
  /\ object \in [Conn -> {"none", "live", "dying", "gone"}]
  /\ pcb \in [Conn -> BOOLEAN]
  /\ rx_buf \in [Conn -> Seq(Nat)]
  /\ rx_closed \in [Conn -> BOOLEAN]
  /\ pc \in {"idle", "check", "delay", "locked", "base"}
  /\ user \in Conn \cup {NoConn}
  /\ want \in 0 .. Window
  /\ wake \in BOOLEAN
  /\ unacked \in [Conn -> Int]
  /\ pbufs \in [Conn -> Int]
  /\ sent \in [Conn -> Nat]
  /\ got \in [Conn -> Seq(Nat)]
  /\ out \in [Conn -> Seq(Nat)]
  /\ told \in [Conn -> Nat]
  /\ broken \in [Conn -> BOOLEAN]

(* Whatever pcb lwIP calls back on, the argument it passes is alive and is *)
(* the one of that pcb: the slot that holds it, wherever accept() has      *)
(* shifted it, or a socket that is not yet destroyed.  And no live pcb is  *)
(* without callbacks, so none is forgotten.                                *)
CallbacksMatch ==
  \A c \in Conn :
    /\ link[c] = "live" <=> callback[c] # "none"
    /\ callback[c] = "queued" =>
         /\ arg[c] \in Slots /\ accepted_pcbs[arg[c]].pcb = c
    /\ callback[c] = "socket" <=> pcb[c]
    /\ callback[c] = "socket" => object[c] \in {"live", "dying"}

(* What the program has read and what is buffered for it is what the peer  *)
(* sent, each byte once and in order, through the queue and the hand-over  *)
(* to the socket.                                                          *)
Buffered(c) ==
  IF callback[c] = "queued" THEN accepted_pcbs[arg[c]].rx_buf ELSE rx_buf[c]
StreamIntact ==
  \A c \in Conn :
    callback[c] = "queued" \/ object[c] = "live" =>
      got[c] \o Buffered(c) = [i \in 1 .. sent[c] |-> i]

(* The receive window that lwIP keeps closed is what is buffered: a byte   *)
(* acknowledged too little would in the end stall the peer.                *)
WindowTrue ==
  \A c \in Conn :
    callback[c] = "queued" \/ (object[c] = "live" /\ pcb[c]) =>
      unacked[c] = Len(Buffered(c))

(* The pbufs the program owns of a connection are those in its slot or in  *)
(* its socket's buffer: every way a slot or a part of a buffer is given up *)
(* frees it, once.  (What a destroyed socket may still hold is the subject *)
(* of ReceivedFreed.)                                                      *)
PbufsAccounted ==
  \A c \in Conn : pbufs[c] = Len(rx_buf[c]) + SlotBytes(c, Slots)

(* A read() that waits is woken by data, also by data that arrives after   *)
(* it has looked and before it sleeps.                                     *)
DataWakes == pc = "delay" /\ rx_buf[user] # <<>> => wake

(* No byte is sent twice, none is skipped: what tcp_write has taken is a   *)
(* prefix of what the program writes, though write() reports an error for  *)
(* bytes it has passed on.                                                 *)
SentOnce ==
  \A c \in Conn : out[c] = [i \in 1 .. Len(out[c]) |-> i]

(* The destructors of a socket free any received pbufs.                    *)
ReceivedFreed == \A c \in Conn : object[c] = "gone" => rx_buf[c] = <<>>
==============================================================================
