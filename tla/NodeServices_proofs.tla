-------------------------- MODULE NodeServices_proofs --------------------------
(***************************************************************************)
(* Four services of a node, which share no state: the descriptors of the   *)
(* mesh sockets, for any number of objects and any size of the map's keys; *)
(* the ping, for any nodes and targets, any interval and timeout, any      *)
(* delay of the mesh and any number of faults and crashes; the self test,  *)
(* for any pauses, timeouts and speeds of the two loops; and the audio     *)
(* source with the pipeline built on it, the bytes from the writer to the  *)
(* codec and the samples from there to the sink, for any sizes of rings,   *)
(* chunks, frames and buffers.                                             *)
(***************************************************************************)
EXTENDS MeshSockets, Ping, MeshTest, AudioPipeline, SequenceTheorems, TLAPS

-----------------------------------------------------------------------------
(* The sockets.                                                            *)

Object == [fd : Int, closed : BOOLEAN, own : Int, alive : BOOLEAN]

(* Every object has its type.  An open one has a serial number of its own, *)
(* below the counter, which is also its descriptor; a closed one has none. *)
Objects ==
  /\ last_fd_ \in Nat
  /\ outlived \in BOOLEAN /\ aborted \in BOOLEAN
  /\ late \in BOOLEAN /\ crossed \in BOOLEAN
  /\ impl \in [Impl -> Object]
  /\ \A i \in Impl : impl[i].closed => impl[i].fd = None
  /\ \A i \in Open : impl[i].fd = impl[i].own /\ impl[i].own \in 0 .. last_fd_ - 1
  /\ \A i, j \in Open : i # j => impl[i].own # impl[j].own

(* No open object is older than Keys sockets. *)
Window == ~outlived => \A i \in Open : last_fd_ - impl[i].own <= Keys

IInv == Objects /\ Window /\ SocketsMatch

----------------------------------------------------------------------------
(* Two serial numbers less than K apart have different keys. *)
LEMMA Apart ==
  ASSUME NEW K \in Nat \ {0}, NEW a \in Nat, NEW b \in Nat, a < b, b - a < K
  PROVE  a % K # b % K
<1> SUFFICES ASSUME a % K = b % K PROVE FALSE
  OBVIOUS
<1> DEFINE r == a % K  p == a \div K  q == b \div K
<1>1. a = K * p + r /\ b = K * q + r /\ p \in Int /\ q \in Int /\ r \in Int
  BY SMTT(20)
<1>2. b - a = K * (q - p)
  BY <1>1, SMTT(20)
<1> HIDE DEF p, q, r
<1>3. CASE q - p > 0
  <2>1. K * (q - p) >= K
    BY <1>1, <1>3, SMTT(20)
  <2> QED BY <2>1, <1>2, <1>1
<1>4. CASE q - p <= 0
  <2>1. K * (q - p) <= 0
    BY <1>1, <1>4, SMTT(20)
  <2> QED BY <2>1, <1>2, <1>1
<1> QED BY <1>1, <1>3, <1>4

LEMMA KeysDiffer ==
  ASSUME SocketConstants, NEW a \in Nat, NEW b \in Nat, a # b,
         a - b < Keys, b - a < Keys
  PROVE  Key(a) # Key(b)
<1>1. Keys \in Nat \ {0}
  BY DEF SocketConstants
<1>2. CASE a < b
  BY <1>1, <1>2, Apart DEF Key
<1>3. CASE b < a
  BY <1>1, <1>3, Apart DEF Key
<1> QED BY <1>2, <1>3

(* In the window, open objects have different keys. *)
LEMMA OpenDiffer ==
  ASSUME SocketConstants, Objects, Window, ~outlived, NEW i \in Open, NEW j \in Open, i # j
  PROVE  Key(impl[i].fd) # Key(impl[j].fd)
<1>1. /\ impl[i].own \in 0 .. last_fd_ - 1 /\ impl[j].own \in 0 .. last_fd_ - 1
      /\ impl[i].fd = impl[i].own /\ impl[j].fd = impl[j].own
      /\ impl[i].own # impl[j].own /\ last_fd_ \in Nat
  BY DEF Objects
<1>2. last_fd_ - impl[i].own <= Keys /\ last_fd_ - impl[j].own <= Keys
  BY DEF Window
<1>3. Keys \in Nat
  BY DEF SocketConstants
<1>4. impl[i].own - impl[j].own < Keys /\ impl[j].own - impl[i].own < Keys
  BY <1>1, <1>2, <1>3
<1> QED BY <1>1, <1>4, KeysDiffer

(* Only once the descriptors have come to the last key does somebody have  *)
(* the key of a closed object.                                             *)
LEMMA LastKey ==
  ASSUME SocketConstants, NEW a \in Nat, Key(a) = Key(None) PROVE a + 1 >= Keys
<1> DEFINE r == a % Keys  p == a \div Keys  q == (-1) \div Keys
<1>1. Keys \in Nat \ {0} /\ a % Keys = (-1) % Keys
  BY DEF SocketConstants, Key, None
<1>2. a = Keys * p + r /\ -1 = Keys * q + r /\ p \in Int /\ q \in Int /\ r \in Int
  BY <1>1, SMTT(20)
<1>3. a + 1 = Keys * (p - q)
  BY <1>1, <1>2, SMTT(20)
<1> HIDE DEF p, q, r
<1>4. CASE p - q > 0
  <2>1. Keys * (p - q) >= Keys
    BY <1>1, <1>2, <1>4, SMTT(20)
  <2> QED BY <1>3, <2>1
<1>5. CASE p - q <= 0
  <2>1. Keys * (p - q) <= 0
    BY <1>1, <1>2, <1>5, SMTT(20)
  <2> QED BY <1>3, <2>1
<1> QED BY <1>2, <1>4, <1>5

----------------------------------------------------------------------------
LEMMA InitHolds == ASSUME SocketConstants, SocketsInit PROVE IInv
<1>1. Open = {}
  BY DEF SocketsInit, Open, Gone
<1>2. Objects
  <2>1. impl \in [Impl -> Object] /\ \A i \in Impl : impl[i].fd = None
    BY DEF SocketsInit, Gone, None, Object
  <2> QED BY <1>1, <2>1 DEF SocketsInit, Objects
<1>3. Window
  BY <1>1 DEF Window
<1>4. SocketsMatch
  <2>1. DOMAIN sockets_ = {}
    BY DEF SocketsInit
  <2>2. {Key(impl[i].fd) : i \in Open} = {} /\ {impl[i].own : i \in Open} = {}
    BY <1>1
  <2> QED BY <1>1, <2>1, <2>2 DEF SocketsInit, SocketsMatch
<1> QED BY <1>2, <1>3, <1>4 DEF IInv

(* Who is to blame when a lookup throws or finds the wrong socket. *)
Blame == /\ aborted => late
         /\ crossed => late /\ last_fd_ >= Keys

Flags == aborted \in BOOLEAN /\ late \in BOOLEAN /\ crossed \in BOOLEAN

(* A lookup throws or errs only for an object that is closed. *)
LEMMA LookupBlame ==
  ASSUME SocketConstants, IInv, NEW i \in Impl, impl[i].alive,
         late' = (late \/ impl[i].closed), Throws(i) \/ Reaches(i),
         last_fd_' \in Nat, last_fd_' >= last_fd_
  PROVE  Flags' /\ (~outlived => Blame')
<1>1. impl[i] \in Object /\ Flags /\ last_fd_ \in Nat /\ Keys \in Nat
  BY DEF IInv, Objects, Flags, SocketConstants
<1>2. Flags'
  BY <1>1 DEF Throws, Reaches, Flags, Object
<1>3. ASSUME ~outlived PROVE Blame'
  <2>1. Blame
    BY <1>3 DEF IInv, SocketsMatch, Blame
  <2>2. CASE impl[i].closed
    <3>1. late' = TRUE /\ impl[i].fd = None
      BY <1>1, <2>2 DEF IInv, Objects, Flags
    <3>2. ASSUME crossed' PROVE last_fd_' >= Keys
      <4>1. CASE crossed
        BY <1>1, <2>1, <4>1 DEF Blame
      <4>2. CASE ~crossed
        <5>1. Key(None) \in DOMAIN sockets_
          BY <3>1, <3>2, <4>2 DEF Throws, Reaches, Found
        <5>2. PICK j \in Open : Key(impl[j].fd) = Key(None)
          BY <1>3, <5>1 DEF IInv, SocketsMatch
        <5>3. impl[j].fd \in Nat /\ impl[j].fd < last_fd_
          BY <1>1 DEF IInv, Objects
        <5>4. impl[j].fd + 1 >= Keys
          BY <5>2, <5>3, LastKey
        <5> QED BY <1>1, <5>3, <5>4
      <4> QED BY <4>1, <4>2
    <3> QED BY <3>1, <3>2 DEF Blame
  <2>3. CASE ~impl[i].closed
    <3>1. i \in Open /\ late' = late
      BY <1>1, <2>3 DEF Open, Flags, Object
    <3>2. Found(i) /\ Get(i) = impl[i].own
      BY <1>3, <3>1 DEF IInv, SocketsMatch
    <3>3. aborted' = aborted /\ crossed' = crossed
      BY <1>1, <3>2 DEF Throws, Reaches, Flags
    <3> QED BY <1>1, <2>1, <3>1, <3>3 DEF Blame
  <2> QED BY <2>2, <2>3
<1> QED BY <1>2, <1>3

(* A new object has a key that no open one has. *)
LEMMA AddKeeps ==
  ASSUME SocketConstants, IInv, NEW i \in Impl, Add(i), Flags', ~outlived => Blame'
  PROVE  IInv'
<1> DEFINE new == [fd |-> last_fd_, closed |-> FALSE, own |-> last_fd_, alive |-> TRUE]
<1>1. /\ impl' = [impl EXCEPT ![i] = new] /\ i \notin Open
      /\ last_fd_' = last_fd_ + 1 /\ last_fd_ \in Nat
      /\ sockets_' = [k \in DOMAIN sockets_ \cup {Key(last_fd_)} |->
                        IF k = Key(last_fd_) THEN last_fd_ ELSE sockets_[k]]
      /\ heap' = heap \cup {last_fd_}
      /\ outlived' = (outlived \/ \E j \in Open : last_fd_ - impl[j].own >= Keys)
  BY DEF Add, Open, IInv, Objects
<1>2. impl \in [Impl -> Object]
  BY DEF IInv, Objects
<1>3. impl'[i] = new /\ \A j \in Impl \ {i} : impl'[j] = impl[j]
  BY <1>1, <1>2
<1>4. Open' = Open \cup {i}
  BY <1>3 DEF Open
<1>5. \A j \in Open : /\ j \in Impl /\ j # i /\ impl'[j] = impl[j]
                      /\ impl[j].fd = impl[j].own /\ impl[j].own \in 0 .. last_fd_ - 1
  BY <1>1, <1>3 DEF Open, IInv, Objects
<1>6. Objects'
  <2>1. impl' \in [Impl -> Object]
    BY <1>1, <1>2 DEF Object
  <2>2. outlived' \in BOOLEAN
    BY <1>1 DEF IInv, Objects
  <2>3. \A j \in Open' : impl'[j].fd = impl'[j].own /\ impl'[j].own \in 0 .. last_fd_' - 1
    BY <1>1, <1>3, <1>4, <1>5
  <2>4. ASSUME NEW j \in Open', NEW k \in Open', j # k PROVE impl'[j].own # impl'[k].own
    <3>1. CASE j \in Open /\ k \in Open
      BY <1>5, <2>4, <3>1 DEF IInv, Objects
    <3>2. CASE j = i \/ k = i
      BY <1>1, <1>3, <1>4, <1>5, <2>4, <3>2
    <3> QED BY <1>4, <3>1, <3>2
  <2>5. \A j \in Impl : impl'[j].closed => impl'[j].fd = None
    BY <1>3 DEF IInv, Objects
  <2> QED BY <1>1, <2>1, <2>2, <2>3, <2>4, <2>5 DEF Objects, Flags
<1>7. ASSUME ~outlived' PROVE /\ ~outlived
                             /\ \A j \in Open : last_fd_ - impl[j].own < Keys
  <2>1. ~outlived /\ \A j \in Open : ~(last_fd_ - impl[j].own >= Keys)
    BY <1>1, <1>7
  <2>2. Keys \in Int /\ \A j \in Open : last_fd_ - impl[j].own \in Int
    BY <1>1, <1>5 DEF SocketConstants
  <2> QED BY <2>1, <2>2
<1>8. Window'
  <2> SUFFICES ASSUME ~outlived', NEW j \in Open' PROVE last_fd_' - impl'[j].own <= Keys
    BY DEF Window
  <2>1. CASE j = i
    BY <1>1, <1>3, <2>1 DEF SocketConstants
  <2>2. CASE j \in Open
    BY <1>1, <1>5, <1>7, <2>2 DEF SocketConstants
  <2> QED BY <1>4, <2>1, <2>2
<1>9. SocketsMatch'
  <2> SUFFICES ASSUME ~outlived'
               PROVE /\ heap' = {impl'[j].own : j \in Open'}
                     /\ DOMAIN sockets_' = {Key(impl'[j].fd) : j \in Open'}
                     /\ \A j \in Open' : /\ Key(impl'[j].fd) \in DOMAIN sockets_'
                                         /\ sockets_'[Key(impl'[j].fd)] = impl'[j].own
    BY <1>7 DEF SocketsMatch, Blame, Found, Get
  <2>1. /\ heap = {impl[j].own : j \in Open}
        /\ DOMAIN sockets_ = {Key(impl[j].fd) : j \in Open}
        /\ \A j \in Open : /\ Key(impl[j].fd) \in DOMAIN sockets_
                           /\ sockets_[Key(impl[j].fd)] = impl[j].own
    BY <1>7 DEF IInv, SocketsMatch, Found, Get
  <2>2. \A j \in Open : Key(impl[j].fd) # Key(last_fd_)
    <3> TAKE j \in Open
    <3>1. impl[j].own \in Nat /\ impl[j].own # last_fd_ /\ last_fd_ - impl[j].own < Keys
          /\ impl[j].own - last_fd_ < Keys
      BY <1>1, <1>5, <1>7 DEF SocketConstants
    <3> QED BY <1>1, <1>5, <3>1, KeysDiffer
  <2>3. /\ DOMAIN sockets_' = {Key(last_fd_)} \cup DOMAIN sockets_
        /\ sockets_'[Key(last_fd_)] = last_fd_
        /\ \A x \in DOMAIN sockets_ : x # Key(last_fd_) => sockets_'[x] = sockets_[x]
    BY <1>1
  <2>4. heap' = {impl'[j].own : j \in Open'}
    BY <1>1, <1>3, <1>4, <1>5, <2>1
  <2>5. DOMAIN sockets_' = {Key(impl'[j].fd) : j \in Open'}
    BY <1>3, <1>4, <1>5, <2>1, <2>3
  <2>6. \A j \in Open' : /\ Key(impl'[j].fd) \in DOMAIN sockets_'
                         /\ sockets_'[Key(impl'[j].fd)] = impl'[j].own
    BY <1>3, <1>4, <1>5, <2>1, <2>2, <2>3
  <2> QED BY <2>4, <2>5, <2>6
<1> QED BY <1>6, <1>8, <1>9 DEF IInv

(* Nothing but what the invariant does not read changes. *)
LEMMA Same ==
  ASSUME IInv, Objects', Open' = Open, \A j \in Open : impl'[j].fd = impl[j].fd
                                                     /\ impl'[j].own = impl[j].own,
         UNCHANGED <<last_fd_, sockets_, heap, outlived>>, ~outlived => Blame'
  PROVE  IInv'
<1>1. Window'
  BY DEF IInv, Window
<1>2. SocketsMatch'
  <2> SUFFICES ASSUME ~outlived
               PROVE /\ heap' = {impl'[j].own : j \in Open'}
                     /\ DOMAIN sockets_' = {Key(impl'[j].fd) : j \in Open'}
                     /\ \A j \in Open' : Found(j)' /\ Get(j)' = impl'[j].own
    BY DEF SocketsMatch, Blame
  <2>1. /\ heap = {impl[j].own : j \in Open}
        /\ DOMAIN sockets_ = {Key(impl[j].fd) : j \in Open}
        /\ \A j \in Open : Found(j) /\ Get(j) = impl[j].own
    BY DEF IInv, SocketsMatch
  <2> QED BY <2>1 DEF Found, Get, Key
<1> QED BY <1>1, <1>2 DEF IInv

(* A lookup, whether it throws or not, of an object that keeps its socket. *)
LEMMA LookupKeeps ==
  ASSUME SocketConstants, IInv, NEW i \in Impl, impl[i].alive,
         late' = (late \/ impl[i].closed), Throws(i) \/ Reaches(i),
         UNCHANGED <<last_fd_, sockets_, impl, heap, outlived>>
  PROVE  IInv'
<1>1. last_fd_' \in Nat /\ last_fd_' >= last_fd_ /\ last_fd_ \in Nat
  BY DEF IInv, Objects
<1>2. Flags' /\ (~outlived => Blame')
  BY <1>1, LookupBlame
<1>3. Objects' /\ Open' = Open
  BY <1>2 DEF IInv, Objects, Flags, Open
<1> QED BY <1>2, <1>3, Same

(* What close() and the destructor do to the socket of an open object. *)
LEMMA ClosesKeeps ==
  ASSUME SocketConstants, IInv, NEW i \in Open, NEW left \in Object,
         left.closed, left.fd = None, Closes(i, left), UNCHANGED late
  PROVE  IInv'
<1>0. /\ i \in Impl /\ impl[i].alive /\ impl[i].closed = FALSE
      /\ late' = (late \/ impl[i].closed)
  BY DEF Open, IInv, Objects, Object
<1>1. CASE Throws(i)
  BY <1>0, <1>1, LookupKeeps DEF Throws
<1>2. CASE ~Throws(i)
  <2>1. /\ heap' = heap \ {Get(i)} /\ sockets_' = Erased(impl[i].fd) /\ Reaches(i)
        /\ impl' = [impl EXCEPT ![i] = left]
        /\ UNCHANGED <<last_fd_, outlived>>
    BY <1>2 DEF Closes
  <2>2. impl \in [Impl -> Object] /\ last_fd_' \in Nat /\ last_fd_' >= last_fd_
    BY <2>1 DEF IInv, Objects
  <2>3. impl'[i] = left /\ \A j \in Impl \ {i} : impl'[j] = impl[j]
    BY <1>0, <2>1, <2>2
  <2>4. Open' = Open \ {i} /\ \A j \in Open' : impl'[j] = impl[j] /\ j \in Open /\ j # i
    BY <2>3 DEF Open
  <2>5. Flags' /\ (~outlived => Blame')
    BY <1>0, <2>1, <2>2, LookupBlame
  <2>6. Objects'
    <3>1. impl' \in [Impl -> Object] /\ \A j \in Impl : impl'[j].closed => impl'[j].fd = None
      BY <2>1, <2>2, <2>3 DEF IInv, Objects
    <3>2. \A j \in Open' : impl'[j].fd = impl'[j].own /\ impl'[j].own \in 0 .. last_fd_' - 1
      BY <2>1, <2>4 DEF IInv, Objects
    <3>3. \A j, k \in Open' : j # k => impl'[j].own # impl'[k].own
      BY <2>4 DEF IInv, Objects
    <3> QED BY <2>1, <2>2, <2>5, <3>1, <3>2, <3>3 DEF IInv, Objects, Flags
  <2>7. Window'
    BY <2>1, <2>4 DEF IInv, Window
  <2>8. SocketsMatch'
    <3> SUFFICES ASSUME ~outlived'
                 PROVE /\ heap' = {impl'[j].own : j \in Open'}
                       /\ DOMAIN sockets_' = {Key(impl'[j].fd) : j \in Open'}
                       /\ \A j \in Open' : /\ Key(impl'[j].fd) \in DOMAIN sockets_'
                                           /\ sockets_'[Key(impl'[j].fd)] = impl'[j].own
      BY <2>1, <2>5 DEF SocketsMatch, Blame, Found, Get
    <3>1. /\ heap = {impl[j].own : j \in Open}
          /\ DOMAIN sockets_ = {Key(impl[j].fd) : j \in Open}
          /\ \A j \in Open : /\ Key(impl[j].fd) \in DOMAIN sockets_
                             /\ sockets_[Key(impl[j].fd)] = impl[j].own
      BY <2>1 DEF IInv, SocketsMatch, Found, Get
    <3>2. Get(i) = impl[i].own
      BY <3>1 DEF Get
    <3>3. \A j \in Open' : /\ impl[j].own # impl[i].own
                           /\ Key(impl[j].fd) # Key(impl[i].fd)
      BY <2>1, <2>4, OpenDiffer DEF IInv, Objects
    <3>4. /\ DOMAIN sockets_' = DOMAIN sockets_ \ {Key(impl[i].fd)}
          /\ \A x \in DOMAIN sockets_' : sockets_'[x] = sockets_[x]
      BY <2>1 DEF Erased
    <3>5. heap' = {impl'[j].own : j \in Open'}
      <4>1. Open = Open' \cup {i} /\ \A j \in Open' : impl'[j].own = impl[j].own
        BY <2>4
      <4>2. heap' = {impl[j].own : j \in Open} \ {impl[i].own}
        BY <2>1, <3>1, <3>2
      <4>3. heap' = {impl[j].own : j \in Open'}
        BY <4>1, <4>2, <3>3
      <4> QED BY <4>1, <4>3
    <3>6. DOMAIN sockets_' = {Key(impl'[j].fd) : j \in Open'}
      BY <2>4, <3>1, <3>3, <3>4
    <3>7. \A j \in Open' : /\ Key(impl'[j].fd) \in DOMAIN sockets_'
                           /\ sockets_'[Key(impl'[j].fd)] = impl'[j].own
      BY <2>4, <3>1, <3>3, <3>4
    <3> QED BY <3>5, <3>6, <3>7
  <2> QED BY <2>6, <2>7, <2>8 DEF IInv
<1> QED BY <1>1, <1>2

----------------------------------------------------------------------------
LEMMA StepKeeps ==
  ASSUME SocketConstants, IInv, [SocketsNext]_socketVars PROVE IInv'
<1>1. CASE UNCHANGED socketVars
  BY <1>1 DEF socketVars, IInv, Objects, Window, SocketsMatch, Open, Found, Get
<1>2. ASSUME NEW i \in Impl, CreateSocket(i) PROVE IInv'
  <2>1. Add(i) /\ UNCHANGED <<aborted, late, crossed>> /\ last_fd_' = last_fd_ + 1
    BY <1>2 DEF CreateSocket, Add
  <2>2. last_fd_ \in Nat /\ Keys \in Nat
    BY DEF IInv, Objects, SocketConstants
  <2>3. Flags' /\ (~outlived => Blame')
    BY <2>1, <2>2 DEF IInv, Objects, SocketsMatch, Flags, Blame
  <2> QED BY <2>1, <2>3, AddKeeps
<1>3. ASSUME NEW i \in Impl, BindListen(i) PROVE IInv'
  BY <1>3, LookupKeeps DEF BindListen, Uses, Throws
<1>4. ASSUME NEW i \in Impl, Transfer(i) PROVE IInv'
  BY <1>4, LookupKeeps DEF Transfer, Uses, Throws
<1>5. ASSUME NEW i \in Impl, Close(i) PROVE IInv'
  <2> DEFINE left == [fd |-> None, closed |-> TRUE, own |-> impl[i].own, alive |-> TRUE]
  <2>1. i \in Open /\ Closes(i, left) /\ UNCHANGED late
    BY <1>5 DEF Close
  <2>2. left \in Object
    BY DEF IInv, Objects, Object, None
  <2>3. left.closed /\ left.fd = None
    OBVIOUS
  <2> QED BY <2>1, <2>2, <2>3, ClosesKeeps
<1>6. ASSUME NEW i \in Impl, Destroy(i) PROVE IInv'
  <2>1. Gone \in Object /\ Gone.closed /\ Gone.fd = None /\ UNCHANGED late
    BY <1>6 DEF Gone, Object, None, Destroy
  <2>2. CASE i \in Open /\ Closes(i, Gone)
    BY <2>1, <2>2, ClosesKeeps
  <2>3. CASE /\ impl[i].closed /\ impl' = [impl EXCEPT ![i] = Gone]
             /\ UNCHANGED <<last_fd_, sockets_, heap, aborted, outlived, crossed>>
    <3>1. impl \in [Impl -> Object] /\ i \notin Open
      BY <2>3 DEF IInv, Objects, Open
    <3>2. impl'[i] = Gone /\ \A j \in Impl \ {i} : impl'[j] = impl[j]
      BY <2>3, <3>1
    <3>3. Open' = Open /\ \A j \in Open : impl'[j] = impl[j]
      BY <3>1, <3>2 DEF Open, Gone
    <3>4. impl' \in [Impl -> Object] /\ \A j \in Impl : impl'[j].closed => impl'[j].fd = None
      BY <2>1, <2>3, <3>1, <3>2 DEF IInv, Objects
    <3>5. Objects'
      BY <2>1, <2>3, <3>3, <3>4 DEF IInv, Objects
    <3>6. ~outlived => Blame'
      BY <2>1, <2>3 DEF IInv, SocketsMatch, Blame
    <3> QED BY <2>3, <3>3, <3>5, <3>6, Same
  <2> QED BY <1>6, <2>2, <2>3 DEF Destroy
<1>7. ASSUME NEW i \in Impl, NEW j \in Impl, Accept(i, j) PROVE IInv'
  <2>1. /\ impl[i].alive /\ late' = (late \/ impl[i].closed) /\ Reaches(i) /\ Add(j)
        /\ last_fd_' = last_fd_ + 1 /\ last_fd_ \in Nat
    BY <1>7 DEF Accept, Uses, Add, IInv, Objects
  <2>2. Flags' /\ (~outlived => Blame')
    BY <2>1, LookupBlame
  <2> QED BY <2>1, <2>2, AddKeeps
<1> QED BY <1>1, <1>2, <1>3, <1>4, <1>5, <1>6, <1>7 DEF SocketsNext

(* Every open socket object finds the MeshSocket that was made for it and  *)
(* nothing is leaked, until one has outlived as many others as there are   *)
(* keys; until then no lookup throws or finds a foreign socket but one of  *)
(* an object that is used after its close(), and that one finds a socket   *)
(* only when the last key has been given (addSocket, getSocket,            *)
(* removeSocket, close and the methods that do not look at closed_).       *)
THEOREM SocketsCorrect ==
  ASSUME SocketConstants PROVE SocketsSpec => []SocketsMatch
<1>1. SocketsInit => IInv
  BY InitHolds
<1>2. IInv /\ [SocketsNext]_socketVars => IInv'
  BY StepKeeps
<1>3. IInv => SocketsMatch
  BY DEF IInv
<1> QED BY <1>1, <1>2, <1>3, PTL DEF SocketsSpec

(* If the last key is never given, no object outlives its own and none     *)
(* ever finds the socket of another, whatever is called on it and when;    *)
(* only the use of an object after its close() throws.                     *)
THEOREM FewSockets ==
  ASSUME SocketConstants, MaxSockets < Keys
  PROVE  SocketsSpec => [](~outlived /\ ~crossed /\ (aborted => late))
<1> DEFINE Few == IInv /\ ~outlived /\ last_fd_ <= MaxSockets
<1>1. SocketsInit => Few
  <2> SUFFICES ASSUME SocketsInit PROVE Few
    OBVIOUS
  <2>1. IInv
    BY InitHolds
  <2> QED BY <2>1 DEF SocketsInit, SocketConstants
<1>2. Few /\ [SocketsNext]_socketVars => Few'
  <2> SUFFICES ASSUME Few, [SocketsNext]_socketVars PROVE Few'
    OBVIOUS
  <2>1. IInv'
    BY StepKeeps
  <2>2. ASSUME NEW i \in Impl, Add(i) PROVE ~outlived' /\ last_fd_' <= MaxSockets
    <3>1. last_fd_ < MaxSockets /\ last_fd_' = last_fd_ + 1
          /\ outlived' = (outlived \/ \E j \in Open : last_fd_ - impl[j].own >= Keys)
      BY <2>2 DEF Add
    <3>2. last_fd_ \in Nat /\ \A j \in Open : impl[j].own \in 0 .. last_fd_ - 1
      BY DEF IInv, Objects
    <3>3. \A j \in Open : ~(last_fd_ - impl[j].own >= Keys)
      BY <3>1, <3>2 DEF SocketConstants
    <3>4. ~outlived'
      BY <3>1, <3>3
    <3>5. last_fd_' <= MaxSockets
      BY <3>1, <3>2 DEF SocketConstants
    <3> QED BY <3>4, <3>5
  <2>3. CASE UNCHANGED <<outlived, last_fd_>>
    BY <2>1, <2>3
  <2>4. UNCHANGED <<outlived, last_fd_>> \/ \E i \in Impl : Add(i)
    BY DEF SocketsNext, socketVars, CreateSocket, BindListen, Accept, Throws, Transfer,
           Closes, Close, Destroy
  <2> QED BY <2>1, <2>2, <2>3, <2>4
<1>3. Few => ~outlived /\ ~crossed /\ (aborted => late)
  BY DEF IInv, SocketsMatch, Objects, SocketConstants
<1> QED BY <1>1, <1>2, <1>3, PTL DEF SocketsSpec

-----------------------------------------------------------------------------
(* The ping.                                                               *)

(* PingTypeOK, with the functions' domains, and what is left of a node     *)
(* that is down: nothing.                                                  *)
Types ==
  /\ mLastPingTime \in [Node -> Never .. Second + 1]
  /\ presence \in [Node -> {"present", "absent", "unknown"}]
  /\ due \in [Node -> 0 .. Interval]
  /\ up \subseteq Node /\ uptime \in [Node -> 0 .. Second]
  /\ air \subseteq Datagram
  /\ faults \in 0 .. MaxFaults /\ crashes \in 0 .. MaxCrashes
  /\ together \in [Node -> 0 .. Horizon] /\ alone \in [Node -> 0 .. Horizon]

Down == \A n \in Node \ up : mLastPingTime[n] = Never /\ presence[n] = "unknown"

(* A conversation is between a node and its target, and only a postponed   *)
(* datagram is younger than the moment it was sent.                        *)
Conversation(n) ==
  {d \in air : (d.kind = "PING" /\ d.from = n) \/ (d.kind = "PONG" /\ d.to = n)}

Parties ==
  \A d \in air :
    /\ d.kind = "PING" => d.from \in Pinging /\ d.to = Target[d.from]
    /\ d.kind = "PONG" => d.to \in Pinging /\ d.from = Target[d.to]
    /\ d.age < 0 => faults >= 1

(* The open ping of a node was sent by its last update().                  *)
Timer == \A n \in Pinging : mLastPingTime[n] # Never => due[n] + mLastPingTime[n] = Interval

Base == Types /\ Down /\ Parties /\ Timer

----------------------------------------------------------------------------
(* What keeps a dead target from being shown as present: its answers were  *)
(* sent before it died, and reach the node within Slack.                   *)
Slack(f) == MaxLate * f

AliveTarget(n) == Target[n] \in up => alone[n] = 0

LastAnswers(n) ==
  \A d \in air : d.kind = "PONG" /\ d.to = n => alone[n] <= d.age + Slack(faults)

Shown(n) ==
  presence[n] = "present" =>
    IF mLastPingTime[n] = Never
    THEN alone[n] + due[n] <= Interval + MaxDelay + Slack(MaxFaults)
    ELSE alone[n] - mLastPingTime[n] <= Interval + MaxDelay + Slack(MaxFaults)

DeadInv == \A n \in Pinging : AliveTarget(n) /\ LastAnswers(n) /\ Shown(n)

----------------------------------------------------------------------------
(* What shows a living one, as long as the mesh does its work.             *)

(* The ticks since the last update() of a node that runs. *)
Since(n) == Interval - due[n]

(* There is one datagram of a conversation at a time, sent no earlier than *)
(* the last update().                                                      *)
OneAtATime(n) ==
  /\ \A d, e \in Conversation(n) : d = e
  /\ \A d \in Conversation(n) :
       d.age + (IF d.kind = "PING" THEN 0 ELSE MaxDelay) >= Since(n)

(* The ping of the last update() is open, and it or its answer on its way. *)
Asking(n) ==
  /\ mLastPingTime[n] = Since(n)
  /\ \E d \in Conversation(n) : d.kind = "PING" => d.age = Since(n)
  /\ presence[n] = "present" \/ together[n] <= Interval + Since(n)

(* It has been answered.                                                   *)
Answered(n) ==
  /\ mLastPingTime[n] = Never /\ presence[n] = "present"
  /\ Conversation(n) = {}

BothUp(n) == together[n] > 0 => {n, Target[n]} \subseteq up

Seen(n) == together[n] > Since(n) => Asking(n) \/ Answered(n)

AliveInv == faults = 0 => \A n \in Pinging : BothUp(n) /\ OneAtATime(n) /\ Seen(n)

----------------------------------------------------------------------------
(* The constants, and the operators on them.                               *)

LEMMA Sizes ==
  /\ Interval \in Nat /\ Second \in Nat /\ MaxDelay \in Nat /\ MaxLate \in Nat
  /\ MaxFaults \in Nat /\ MaxCrashes \in Nat
  /\ Second > 0 /\ Interval > Second + 1
BY PingConstants

LEMMA SlackIs ==
  /\ \A f \in Nat : Slack(f) \in Nat /\ Slack(f + 1) = Slack(f) + MaxLate
  /\ \A f, g \in Nat : f <= g => Slack(f) <= Slack(g)
  /\ Slack(0) = 0 /\ Slack(1) = MaxLate
<1>1. \A f \in Nat : Slack(f) \in Nat /\ Slack(f + 1) = Slack(f) + MaxLate
  BY Sizes DEF Slack
<1>2. ASSUME NEW f \in Nat, NEW g \in Nat, f <= g
      PROVE  Slack(f) <= Slack(g)
  <2> DEFINE k == g - f
  <2>1. k \in Nat /\ MaxLate * k \in Nat /\ g = f + k
    BY <1>2, Sizes
  <2>2. MaxLate * (f + k) = MaxLate * f + MaxLate * k
    BY <2>1, Sizes
  <2> QED
    BY <2>1, <2>2, Sizes DEF Slack
<1> QED
  BY <1>1, <1>2, Sizes DEF Slack

LEMMA HorizonIs ==
  /\ Horizon = Interval + Second + 2 * MaxDelay + Slack(MaxFaults) + 2
  /\ Horizon \in Nat /\ Slack(MaxFaults) \in Nat
BY Sizes, SlackIs DEF Horizon, Slack

LEMMA Counts ==
  \A t \in 0 .. Horizon :
    Count(t) \in 0 .. Horizon /\ Count(t) <= t + 1 /\ Count(t) >= t /\ (t < Horizon => Count(t) = t + 1)
BY HorizonIs DEF Count

LEMMA Targets ==
  \A n \in Node : /\ Target[n] \in Node \cup {NoNode}
                  /\ n \in Pinging <=> Target[n] \in Node
BY PingConstants DEF Target, Pinging

LEMMA Packets ==
  ASSUME NEW kind \in {"PING", "PONG"}, NEW n \in Node, NEW m \in Node,
         NEW c \in 0 .. MaxFaults
  PROVE  /\ Packet(kind, n, m, c) \in Datagram
         /\ Packet(kind, n, m, c).kind = kind /\ Packet(kind, n, m, c).from = n
         /\ Packet(kind, n, m, c).to = m /\ Packet(kind, n, m, c).age = 0
BY Sizes DEF Packet, Datagram

LEMMA Aged ==
  ASSUME NEW d \in Datagram, NEW a \in -MaxLate .. MaxDelay
  PROVE  LET e == [d EXCEPT !.age = a]
         IN /\ e \in Datagram /\ e.kind = d.kind /\ e.from = d.from /\ e.to = d.to
            /\ e.age = a
BY DEF Datagram

LEMMA Copied ==
  ASSUME NEW d \in Datagram, NEW c \in 0 .. MaxFaults
  PROVE  LET e == [d EXCEPT !.copy = c]
         IN /\ e \in Datagram /\ e.kind = d.kind /\ e.from = d.from /\ e.to = d.to
            /\ e.age = d.age
BY DEF Datagram

LEMMA Fields ==
  ASSUME NEW d \in Datagram
  PROVE  /\ d.kind \in {"PING", "PONG"} /\ d.from \in Node /\ d.to \in Node
         /\ d.age \in -MaxLate .. MaxDelay /\ d.copy \in 0 .. MaxFaults
         /\ d.age \in Int
BY Sizes DEF Datagram

----------------------------------------------------------------------------
(* Types, and who talks to whom.                                           *)

LEMMA BaseInit == PingInit => Base
<1> SUFFICES ASSUME PingInit PROVE Base
  OBVIOUS
<1>1. Types
  BY Sizes, HorizonIs DEF PingInit, Types, Never
<1>2. Down /\ Parties /\ Timer
  BY DEF PingInit, Down, Parties, Timer, Pinging
<1> QED
  BY <1>1, <1>2 DEF Base

(* What the mesh and the peers do leaves the nodes' own state alone.       *)
LEMMA AirStep ==
  ASSUME Base, air' \subseteq Datagram, faults' \in {faults, faults + 1}, faults' <= MaxFaults,
         UNCHANGED <<mLastPingTime, presence, due>>, SameHistory,
         \A e \in air' : \/ e \in air
                         \/ \E d \in air : /\ e.kind = d.kind /\ e.from = d.from /\ e.to = d.to
                                           /\ e.age < 0 => d.age < 0 \/ faults' = faults + 1
                         \/ \E d \in air : /\ d.kind = "PING" /\ e.kind = "PONG"
                                           /\ e.from = d.to /\ e.to = d.from /\ e.age = 0
  PROVE  Base'
<1>1. Types'
  BY DEF Base, Types, SameHistory
<1>2. Down' /\ Timer'
  BY DEF Base, Down, Timer, SameHistory
<1>3. Parties'
  <2> SUFFICES ASSUME NEW e \in air'
               PROVE  /\ e.kind = "PING" => e.from \in Pinging /\ e.to = Target[e.from]
                      /\ e.kind = "PONG" => e.to \in Pinging /\ e.from = Target[e.to]
                      /\ e.age < 0 => faults' >= 1
    BY DEF Parties
  <2>0. faults \in Nat /\ faults' >= faults
    BY Sizes DEF Base, Types
  <2>1. CASE e \in air
    BY <2>0, <2>1 DEF Base, Parties
  <2>2. CASE \E d \in air : /\ e.kind = d.kind /\ e.from = d.from /\ e.to = d.to
                            /\ e.age < 0 => d.age < 0 \/ faults' = faults + 1
    BY <2>0, <2>2 DEF Base, Parties
  <2>3. CASE \E d \in air : /\ d.kind = "PING" /\ e.kind = "PONG"
                            /\ e.from = d.to /\ e.to = d.from /\ e.age = 0
    BY <2>0, <2>3 DEF Base, Parties
  <2> QED
    BY <2>1, <2>2, <2>3
<1> QED
  BY <1>1, <1>2, <1>3 DEF Base

LEMMA BaseStep == ASSUME Base, [PingNext]_pingVars PROVE Base'
<1> USE DEF Never
<1>0. Base
  OBVIOUS
<1>1. CASE Tick
  <2>1. \A e \in air' : \E d \in air : /\ e \in Datagram /\ e.kind = d.kind /\ e.from = d.from
                                       /\ e.to = d.to /\ e.age = d.age + 1
    <3> SUFFICES ASSUME NEW d \in air
                 PROVE  LET e == [d EXCEPT !.age = @ + 1]
                        IN /\ e \in Datagram /\ e.kind = d.kind /\ e.from = d.from
                           /\ e.to = d.to /\ e.age = d.age + 1
      <4> DEFINE Older(d) == [d EXCEPT !.age = @ + 1]
                 Good(d, e) == /\ e \in Datagram /\ e.kind = d.kind /\ e.from = d.from
                               /\ e.to = d.to /\ e.age = d.age + 1
      <4>1. air' = {Older(d) : d \in air}
        BY <1>1 DEF Tick
      <4>2. \A d \in air : Good(d, Older(d))
        OBVIOUS
      <4>3. \A e \in air' : \E d \in air : Good(d, e)
        <5> HIDE DEF Older, Good
        <5> QED
          BY <4>1, <4>2
      <4> QED
        BY <4>3
    <3>1. d \in Datagram /\ d.age + 1 \in -MaxLate .. MaxDelay
      BY <1>1, Fields, Sizes DEF Tick, Base, Types
    <3> QED
      BY <3>1, Aged
  <2>2. mLastPingTime' \in [Node -> Never .. Second + 1]
    <3> SUFFICES ASSUME NEW n \in Node, mLastPingTime[n] # Never
                 PROVE  mLastPingTime[n] + 1 \in Never .. Second + 1
      BY <1>1, Sizes DEF Tick, Base, Types
    <3> QED
      BY <1>1, Sizes DEF Tick, TimedOut, Base, Types, Down
  <2>3. due' \in [Node -> 0 .. Interval] /\ uptime' \in [Node -> 0 .. Second]
    BY <1>1, Sizes DEF Tick, Base, Types
  <2>4. together' \in [Node -> 0 .. Horizon] /\ alone' \in [Node -> 0 .. Horizon]
    BY <1>1, Counts, HorizonIs DEF Tick, Base, Types
  <2>5. Types'
    BY <1>1, <2>1, <2>2, <2>3, <2>4 DEF Tick, Base, Types
  <2>6. Down'
    BY <1>1 DEF Tick, Base, Down, Types
  <2>7. Parties'
    <3> SUFFICES ASSUME NEW e \in air'
                 PROVE  /\ e.kind = "PING" => e.from \in Pinging /\ e.to = Target[e.from]
                        /\ e.kind = "PONG" => e.to \in Pinging /\ e.from = Target[e.to]
                        /\ e.age < 0 => faults' >= 1
      BY DEF Parties
    <3>1. PICK d \in air : /\ e.kind = d.kind /\ e.from = d.from
                           /\ e.to = d.to /\ e.age = d.age + 1
      BY <2>1
    <3>2. d.age \in Int
      BY Fields DEF Base, Types
    <3> QED
      BY <1>1, <3>1, <3>2 DEF Tick, Base, Parties
  <2>8. Timer'
    <3> SUFFICES ASSUME NEW n \in Pinging, mLastPingTime'[n] # Never
                 PROVE  due'[n] + mLastPingTime'[n] = Interval
      BY DEF Timer
    <3>1. n \in Node /\ n \in up /\ mLastPingTime[n] # Never
      BY <1>1 DEF Tick, Base, Down, Pinging
    <3>2. due'[n] = due[n] - 1 /\ mLastPingTime'[n] = mLastPingTime[n] + 1
      BY <1>1, <3>1 DEF Tick
    <3> QED
      BY <3>1, <3>2, Sizes DEF Base, Timer, Types
  <2> QED
    BY <2>5, <2>6, <2>7, <2>8 DEF Base
<1>2. ASSUME NEW n \in Node, Loop(n)
      PROVE  Base'
  BY <1>2, Sizes DEF Loop, Published, SameHistory, Base, Types, Down, Parties, Timer
<1>3. ASSUME NEW n \in Node, Update(n)
      PROVE  Base'
  <2>1. Target[n] \in Node /\ n \in Pinging
    BY <1>3, Targets DEF Update
  <2>2. Packet("PING", n, Target[n], 0) \in Datagram
        /\ Packet("PING", n, Target[n], 0).kind = "PING"
        /\ Packet("PING", n, Target[n], 0).from = n
        /\ Packet("PING", n, Target[n], 0).to = Target[n]
        /\ Packet("PING", n, Target[n], 0).age = 0
    BY <2>1, Packets, Sizes
  <2>3. Types'
    BY <1>3, <2>2, Sizes DEF Update, Published, Fault, SameHistory, Base, Types
  <2>4. Down' /\ Timer'
    BY <1>3, Sizes DEF Update, Published, SameHistory, Base, Types, Down, Timer
  <2>5. Parties'
    <3> DEFINE e == Packet("PING", n, Target[n], 0)
    <3>0. faults \in Nat
      BY Sizes DEF Base, Types
    <3>1. air' \subseteq air \cup {e} /\ faults' \in {faults, faults + 1}
      BY <1>3 DEF Update, Fault
    <3>2. e.kind = "PING" /\ e.from = n /\ e.to = Target[n] /\ e.age = 0
      BY <2>2
    <3> HIDE DEF e
    <3> QED
      BY <2>1, <3>0, <3>1, <3>2 DEF Base, Parties
  <2> QED
    BY <2>3, <2>4, <2>5 DEF Base
<1>4. ASSUME NEW n \in Node, NEW d \in air, RecvDatagram(n, d)
      PROVE  Base'
  <2>0. d \in Datagram /\ d.to = n /\ d.kind \in {"PING", "PONG"}
    BY <1>4, Fields DEF RecvDatagram, Base, Types
  <2>1. CASE n \in up /\ d.kind = "PING"
    <3> DEFINE e == Packet("PONG", n, d.from, d.copy)
    <3>1. /\ e \in Datagram /\ e.kind = "PONG" /\ e.from = d.to /\ e.to = d.from /\ e.age = 0
      BY <2>0, Packets, Fields
    <3>2. air' = (air \ {d}) \cup {e} /\ UNCHANGED <<mLastPingTime, presence, due, faults>>
          /\ SameHistory
      BY <1>4, <2>1 DEF RecvDatagram, RecvPing, RecvPong
    <3>3. faults' \in {faults, faults + 1} /\ faults' <= MaxFaults /\ air' \subseteq Datagram
      BY <3>1, <3>2 DEF Base, Types
    <3> HIDE DEF e
    <3> QED
      BY <2>1, <3>1, <3>2, <3>3, AirStep
  <2>2. CASE n \in up /\ d.kind = "PONG"
    <3>1. /\ air' = air \ {d}
          /\ presence' = [presence EXCEPT ![n] = Published(InTime(n))]
          /\ mLastPingTime' = [mLastPingTime EXCEPT ![n] = Never]
          /\ UNCHANGED <<due, faults>> /\ SameHistory
      BY <1>4, <2>2 DEF RecvDatagram, RecvPing, RecvPong
    <3>2. Published(InTime(n)) \in {"present", "absent"}
      BY DEF Published
    <3>3. Types'
      BY <3>1, <3>2, Sizes DEF SameHistory, Base, Types
    <3>4. Down'
      BY <2>2, <3>1 DEF SameHistory, Base, Types, Down
    <3>5. Parties' /\ Timer'
      BY <3>1 DEF Base, Types, Parties, Timer, Pinging
    <3> QED
      BY <3>3, <3>4, <3>5 DEF Base
  <2>3. CASE n \notin up
    BY <1>4, <2>3 DEF RecvDatagram, SameHistory, Base, Types, Down, Parties, Timer
  <2> QED
    BY <2>0, <2>1, <2>2, <2>3
<1>5. ASSUME NEW d \in air, Lose(d)
      PROVE  Base'
  <2>1. faults' \in {faults, faults + 1} /\ faults' <= MaxFaults /\ air' \subseteq air
    BY <1>5, Sizes DEF Lose, Fault, Base, Types
  <2> QED
    BY <1>5, <2>1, AirStep DEF Lose, Base, Types
<1>6. ASSUME NEW d \in air, Repeat(d)
      PROVE  Base'
  <2>1. /\ faults' \in {faults, faults + 1} /\ faults' <= MaxFaults
        /\ faults + 1 \in 0 .. MaxFaults
    BY <1>6, Sizes DEF Repeat, Fault, Base, Types
  <2> DEFINE e == [d EXCEPT !.copy = faults + 1]
  <2>2. /\ e \in Datagram /\ e.kind = d.kind /\ e.from = d.from /\ e.to = d.to
        /\ e.age = d.age
    BY <2>1, Copied DEF Base, Types
  <2>3. air' = air \cup {e} /\ UNCHANGED <<mLastPingTime, presence, due>> /\ SameHistory
    BY <1>6 DEF Repeat
  <2> HIDE DEF e
  <2>4. air' \subseteq Datagram
    BY <2>2, <2>3 DEF Base, Types
  <2> QED
    BY <2>1, <2>2, <2>3, <2>4, AirStep
<1>7. ASSUME NEW d \in air, Postpone(d)
      PROVE  Base'
  <2>1. faults' = faults + 1 /\ faults' <= MaxFaults /\ -MaxLate \in -MaxLate .. MaxDelay
    BY <1>7, Sizes DEF Postpone, Fault, Base, Types
  <2> DEFINE e == [d EXCEPT !.age = -MaxLate]
  <2>2. /\ e \in Datagram /\ e.kind = d.kind /\ e.from = d.from /\ e.to = d.to
    BY <2>1, Aged DEF Base, Types
  <2>3. /\ air' = (air \ {d}) \cup {e} /\ UNCHANGED <<mLastPingTime, presence, due>>
        /\ SameHistory
    BY <1>7 DEF Postpone
  <2> HIDE DEF e
  <2>4. air' \subseteq Datagram
    BY <2>2, <2>3 DEF Base, Types
  <2> QED
    BY <2>1, <2>2, <2>3, <2>4, AirStep
<1>8. ASSUME NEW n \in Node, Crash(n)
      PROVE  Base'
  <2>1. Types'
    BY <1>8, Sizes, HorizonIs DEF Crash, Base, Types
  <2> QED
    BY <1>8, <2>1 DEF Crash, Base, Types, Down, Parties, Timer
<1>9. ASSUME NEW n \in Node, Boot(n)
      PROVE  Base'
  <2>1. Types'
    BY <1>9, Sizes, HorizonIs DEF Boot, Base, Types
  <2> QED
    BY <1>9, <2>1 DEF Boot, Base, Types, Down, Parties, Timer, Pinging
<1>10. CASE UNCHANGED pingVars
  BY <1>10 DEF pingVars, Base, Types, Down, Parties, Timer
<1> QED
  BY <1>1, <1>2, <1>3, <1>4, <1>5, <1>6, <1>7, <1>8, <1>9, <1>10 DEF PingNext

LEMMA AlwaysBase == PingSpec => []Base
BY BaseInit, BaseStep, PTL DEF PingSpec

(* Every variable of the ping has its type: no datagram travels longer     *)
(* than the mesh lets it, and no ping stays open longer than its timeout.  *)
THEOREM TypeCorrect == PingSpec => []PingTypeOK
<1>1. Base => PingTypeOK
  BY DEF Base, Types, PingTypeOK
<1> QED
  BY <1>1, AlwaysBase, PTL

----------------------------------------------------------------------------
(* A dead target.                                                          *)

(* The numbers of a node. *)
LEMMA Numbers ==
  ASSUME Base, NEW n \in Pinging
  PROVE  /\ n \in Node /\ Target[n] \in Node
         /\ mLastPingTime[n] \in Int /\ -1 <= mLastPingTime[n] /\ mLastPingTime[n] <= Second + 1
         /\ due[n] \in Nat /\ due[n] <= Interval
         /\ alone[n] \in 0 .. Horizon /\ alone[n] \in Nat
         /\ together[n] \in 0 .. Horizon /\ together[n] \in Nat
         /\ faults \in Nat /\ faults <= MaxFaults
         /\ Slack(faults) \in Nat /\ Slack(faults) <= Slack(MaxFaults)
         /\ \A d \in air : d.age \in Int /\ -MaxLate <= d.age /\ d.age <= MaxDelay
<1>1. n \in Node /\ Target[n] \in Node
  BY Targets DEF Pinging
<1>2. faults \in Nat /\ faults <= MaxFaults
  BY Sizes DEF Base, Types
<1>3. \A d \in air : d.age \in Int /\ -MaxLate <= d.age /\ d.age <= MaxDelay
  BY Fields, Sizes DEF Base, Types
<1>4. alone[n] \in 0 .. Horizon /\ together[n] \in 0 .. Horizon
  BY <1>1 DEF Base, Types
<1>5. mLastPingTime[n] \in Never .. Second + 1 /\ due[n] \in 0 .. Interval
  BY <1>1 DEF Base, Types
<1>6. Slack(faults) \in Nat /\ Slack(faults) <= Slack(MaxFaults)
  BY <1>2, SlackIs, Sizes
<1>7. alone[n] \in Nat /\ together[n] \in Nat
  BY <1>4, HorizonIs
<1> QED
  BY <1>1, <1>2, <1>3, <1>4, <1>5, <1>6, <1>7, Sizes DEF Never

LEMMA DeadStep == ASSUME Base, Base', DeadInv, [PingNext]_pingVars PROVE DeadInv'
<1> USE DEF Never
<1> SUFFICES ASSUME NEW n \in Pinging
             PROVE  AliveTarget(n)' /\ LastAnswers(n)' /\ Shown(n)'
  BY DEF DeadInv
<1>0. /\ n \in Node /\ Target[n] \in Node
      /\ mLastPingTime[n] \in Int /\ -1 <= mLastPingTime[n] /\ mLastPingTime[n] <= Second + 1
      /\ due[n] \in Nat /\ due[n] <= Interval
      /\ alone[n] \in 0 .. Horizon /\ alone[n] \in Nat
      /\ faults \in Nat /\ faults <= MaxFaults
      /\ Slack(faults) \in Nat /\ Slack(faults) <= Slack(MaxFaults)
      /\ \A d \in air : d.age \in Int /\ -MaxLate <= d.age /\ d.age <= MaxDelay
      /\ AliveTarget(n) /\ LastAnswers(n) /\ Shown(n)
  BY Numbers DEF DeadInv
<1>f. ASSUME faults' = faults \/ Fault
      PROVE  /\ Slack(faults) <= Slack(faults') /\ Slack(faults') \in Nat
             /\ Fault => Slack(faults') = Slack(faults) + MaxLate
  <2>1. faults' \in {faults, faults + 1} /\ (Fault => faults' = faults + 1)
    BY <1>f DEF Fault
  <2>2. faults \in Nat /\ faults + 1 \in Nat
    BY <1>0
  <2>3. Slack(faults + 1) = Slack(faults) + MaxLate /\ Slack(faults + 1) \in Nat
    BY <2>2, SlackIs
  <2>4. Slack(faults) <= Slack(faults + 1) /\ Slack(faults) \in Nat
    BY <2>2, <2>3, SlackIs, Sizes
  <2> QED
    BY <2>1, <2>3, <2>4
(* A step of others, which at most passes a datagram on, loses it or       *)
(* repeats it.                                                             *)
<1>a. ASSUME SameHistory, UNCHANGED <<mLastPingTime[n], presence[n], due[n]>>,
             faults' = faults \/ Fault,
             \A e \in air' : e.kind = "PONG" /\ e.to = n =>
                \/ \E d \in air : d.kind = "PONG" /\ d.to = n /\ d.age <= e.age
                \/ Target[n] \in up /\ e.age >= 0
      PROVE  AliveTarget(n)' /\ LastAnswers(n)' /\ Shown(n)'
  <2>1. AliveTarget(n)' /\ Shown(n)'
    BY <1>0, <1>a DEF SameHistory, AliveTarget, Shown
  <2>2. ASSUME NEW e \in air', e.kind = "PONG", e.to = n
        PROVE  alone'[n] <= e.age + Slack(faults')
    <3>1. e.age \in Int
      BY Numbers, Sizes, Fields DEF Base, Types
    <3>2. CASE \E d \in air : d.kind = "PONG" /\ d.to = n /\ d.age <= e.age
      BY <1>0, <1>a, <1>f, <3>1, <3>2 DEF SameHistory, LastAnswers
    <3>3. CASE Target[n] \in up /\ e.age >= 0
      BY <1>0, <1>a, <1>f, <3>1, <3>3 DEF SameHistory, AliveTarget
    <3> QED
      BY <1>a, <2>2, <3>2, <3>3
  <2> QED
    BY <2>1, <2>2 DEF LastAnswers
<1>1. CASE Tick
  <2>1. /\ alone'[n] = (IF Target[n] \notin up THEN Count(alone[n]) ELSE 0)
        /\ up' = up /\ faults' = faults /\ presence' = presence
        /\ mLastPingTime'[n] = IF mLastPingTime[n] = Never THEN Never
                               ELSE mLastPingTime[n] + 1
        /\ due'[n] = IF n \in up THEN due[n] - 1 ELSE due[n]
    BY <1>0, <1>1 DEF Tick
  <2>2. alone'[n] <= alone[n] + 1 /\ alone'[n] \in Nat
    BY <1>0, <2>1, Counts, HorizonIs
  <2>3. AliveTarget(n)'
    BY <2>1 DEF AliveTarget
  <2>4. LastAnswers(n)'
    <3> SUFFICES ASSUME NEW d \in air, d.kind = "PONG", d.to = n
                 PROVE  alone'[n] <= (d.age + 1) + Slack(faults)
      <4>1. \A e \in air' : \E d \in air : e.kind = d.kind /\ e.to = d.to /\ e.age = d.age + 1
        <5> SUFFICES ASSUME NEW d \in air
                     PROVE  LET e == [d EXCEPT !.age = @ + 1]
                            IN e.kind = d.kind /\ e.to = d.to /\ e.age = d.age + 1
          BY <1>1 DEF Tick
        <5>1. d \in Datagram /\ d.age + 1 \in -MaxLate .. MaxDelay
          BY <1>1, Fields, Sizes DEF Tick, Base, Types
        <5> QED
          BY <5>1, Aged
      <4> QED
        BY <2>1, <4>1 DEF LastAnswers
    <3> QED
      BY <1>0, <2>2, Sizes DEF LastAnswers
  <2>5. Shown(n)'
    <3>1. presence[n] = "present" => n \in up
      BY <1>0 DEF Base, Down
    <3> QED
      BY <1>0, <2>1, <2>2, <3>1, HorizonIs, Sizes DEF Shown
  <2> QED
    BY <2>3, <2>4, <2>5
<1>2. ASSUME NEW m \in Node, Loop(m)
      PROVE  AliveTarget(n)' /\ LastAnswers(n)' /\ Shown(n)'
  <2>1. CASE m = n
    <3>1. presence'[n] = "absent"
      BY <1>0, <1>2, <2>1 DEF Loop, Published, Base, Types
    <3> QED
      BY <1>0, <1>2, <3>1 DEF Loop, SameHistory, AliveTarget, LastAnswers, Shown
  <2>2. CASE m # n
    <3>1. UNCHANGED <<mLastPingTime[n], presence[n], due[n], air, faults>> /\ SameHistory
      BY <1>0, <1>2, <2>2 DEF Loop, Base, Types
    <3> QED
      BY <1>0, <1>a, <3>1
  <2> QED
    BY <2>1, <2>2
<1>3. ASSUME NEW m \in Node, Update(m)
      PROVE  AliveTarget(n)' /\ LastAnswers(n)' /\ Shown(n)'
  <2>1. /\ SameHistory /\ (faults' = faults \/ Fault)
        /\ air' \subseteq air \cup {Packet("PING", m, Target[m], 0)}
    BY <1>3 DEF Update
  <2>2. Packet("PING", m, Target[m], 0).kind = "PING"
    BY DEF Packet
  <2>3. \A e \in air' : e.kind = "PONG" => e \in air
    BY <2>1, <2>2
  <2>4. CASE m = n
    <3>1. due[n] = 0 /\ due'[n] = Interval /\ mLastPingTime'[n] = 0
      BY <1>0, <1>3, <2>4 DEF Update, Base, Types
    <3>2. presence'[n] = "present" => presence[n] = "present"
      BY <1>0, <1>3, <2>4 DEF Update, Published, Base, Types
    <3>3. mLastPingTime[n] # Never => mLastPingTime[n] = Interval
      BY <1>0, <3>1 DEF Base, Timer
    <3>4. mLastPingTime[n] = Never
      BY <1>0, <3>3, Sizes
    <3>5. Shown(n)'
      BY <1>0, <2>1, <3>1, <3>2, <3>4, HorizonIs, Sizes DEF Shown, SameHistory
    <3>6. LastAnswers(n)'
      BY <1>0, <1>f, <2>1, <2>3 DEF SameHistory, LastAnswers
    <3> QED
      BY <1>0, <2>1, <3>5, <3>6 DEF SameHistory, AliveTarget
  <2>5. CASE m # n
    <3>1. UNCHANGED <<mLastPingTime[n], presence[n], due[n]>>
      BY <1>0, <1>3, <2>5 DEF Update, Base, Types
    <3> QED
      BY <1>0, <1>a, <2>1, <2>3, <3>1
  <2> QED
    BY <2>4, <2>5
<1>4. ASSUME NEW m \in Node, NEW d \in air, RecvDatagram(m, d)
      PROVE  AliveTarget(n)' /\ LastAnswers(n)' /\ Shown(n)'
  <2>0. d \in Datagram /\ d.to = m /\ d.kind \in {"PING", "PONG"} /\ SameHistory
        /\ due' = due /\ faults' = faults
    BY <1>4, Fields DEF RecvDatagram, Base, Types
  <2>1. CASE m \in up /\ d.kind = "PING"
    <3> DEFINE e == Packet("PONG", m, d.from, d.copy)
    <3>1. e.kind = "PONG" /\ e.from = m /\ e.to = d.from /\ e.age = 0
      BY DEF Packet
    <3>2. air' = (air \ {d}) \cup {e} /\ UNCHANGED <<mLastPingTime, presence>>
      BY <1>4, <2>1 DEF RecvDatagram, RecvPing, RecvPong
    <3>3. e.to = n => Target[n] = m
      BY <2>0, <2>1, <3>1 DEF Base, Parties
    <3> HIDE DEF e
    <3> QED
      BY <1>0, <1>a, <2>0, <2>1, <3>1, <3>2, <3>3
  <2>2. CASE m \in up /\ d.kind = "PONG"
    <3>1. /\ air' = air \ {d}
          /\ presence' = [presence EXCEPT ![m] = Published(InTime(m))]
          /\ mLastPingTime' = [mLastPingTime EXCEPT ![m] = Never]
      BY <1>4, <2>2 DEF RecvDatagram, RecvPing, RecvPong
    <3>2. CASE m = n
      <4>1. alone[n] <= d.age + Slack(faults)
        BY <1>0, <2>0, <2>2, <3>2 DEF LastAnswers
      <4>2. mLastPingTime'[n] = Never
        BY <1>0, <3>1, <3>2 DEF Base, Types
      <4>3. Shown(n)'
        BY <1>0, <2>0, <4>1, <4>2, HorizonIs, Sizes DEF Shown, SameHistory
      <4> QED
        BY <1>0, <2>0, <3>1, <4>3 DEF SameHistory, AliveTarget, LastAnswers
    <3>3. CASE m # n
      <4>1. UNCHANGED <<mLastPingTime[n], presence[n], due[n]>>
        BY <1>0, <2>0, <3>1, <3>3 DEF Base, Types
      <4> QED
        BY <1>0, <1>a, <2>0, <3>1, <4>1
    <3> QED
      BY <3>2, <3>3
  <2>3. CASE m \notin up
    <3>1. air' = air \ {d} /\ UNCHANGED <<mLastPingTime, presence>>
      BY <1>4, <2>3 DEF RecvDatagram
    <3> QED
      BY <1>0, <1>a, <2>0, <3>1
  <2> QED
    BY <2>0, <2>1, <2>2, <2>3
<1>5. ASSUME NEW d \in air, Lose(d)
      PROVE  AliveTarget(n)' /\ LastAnswers(n)' /\ Shown(n)'
  BY <1>0, <1>5, <1>a DEF Lose
<1>6. ASSUME NEW d \in air, Repeat(d)
      PROVE  AliveTarget(n)' /\ LastAnswers(n)' /\ Shown(n)'
  <2> DEFINE e == [d EXCEPT !.copy = faults + 1]
  <2>1. faults + 1 \in 0 .. MaxFaults
    BY <1>0, <1>6, Sizes DEF Repeat, Fault
  <2>2. e.kind = d.kind /\ e.to = d.to /\ e.age = d.age
    BY <2>1, Copied DEF Base, Types
  <2>3. /\ air' = air \cup {e} /\ UNCHANGED <<mLastPingTime, presence, due>> /\ SameHistory
        /\ Fault
    BY <1>6 DEF Repeat
  <2> HIDE DEF e
  <2> QED
    BY <1>0, <1>a, <2>2, <2>3
<1>7. ASSUME NEW d \in air, Postpone(d)
      PROVE  AliveTarget(n)' /\ LastAnswers(n)' /\ Shown(n)'
  <2> DEFINE e == [d EXCEPT !.age = -MaxLate]
  <2>1. -MaxLate \in -MaxLate .. MaxDelay
    BY Sizes
  <2>2. e.kind = d.kind /\ e.to = d.to /\ e.age = -MaxLate
    BY <2>1, Aged DEF Base, Types
  <2>3. /\ air' = (air \ {d}) \cup {e} /\ UNCHANGED <<mLastPingTime, presence, due>>
        /\ SameHistory /\ Fault /\ d.age = 0
    BY <1>7 DEF Postpone
  <2> HIDE DEF e
  <2>4. Slack(faults') = Slack(faults) + MaxLate
    BY <1>f, <2>3
  <2>5. LastAnswers(n)'
    BY <1>0, <2>2, <2>3, <2>4, Sizes DEF LastAnswers, SameHistory
  <2> QED
    BY <1>0, <2>3, <2>5 DEF SameHistory, AliveTarget, Shown
<1>8. ASSUME NEW m \in Node, Crash(m)
      PROVE  AliveTarget(n)' /\ LastAnswers(n)' /\ Shown(n)'
  <2>1. CASE m = n
    <3>1. presence'[n] = "unknown"
      BY <1>0, <1>8, <2>1 DEF Crash, Base, Types
    <3> QED
      BY <1>0, <1>8, <3>1 DEF Crash, AliveTarget, LastAnswers, Shown
  <2>2. CASE m # n
    <3>1. UNCHANGED <<mLastPingTime[n], presence[n], due[n]>>
      BY <1>0, <1>8, <2>2 DEF Crash, Base, Types
    <3> QED
      BY <1>0, <1>8, <3>1 DEF Crash, AliveTarget, LastAnswers, Shown
  <2> QED
    BY <2>1, <2>2
<1>9. ASSUME NEW m \in Node, Boot(m)
      PROVE  AliveTarget(n)' /\ LastAnswers(n)' /\ Shown(n)'
  <2>1. /\ alone'[n] = (IF Target[n] = m THEN 0 ELSE alone[n])
        /\ up' = up \cup {m} /\ UNCHANGED <<mLastPingTime, presence, air, faults>>
        /\ due'[n] = IF n = m THEN Interval ELSE due[n]
    BY <1>0, <1>9 DEF Boot, Base, Types
  <2>2. AliveTarget(n)'
    BY <1>0, <2>1 DEF AliveTarget
  <2>3. \A d \in air : d.age + Slack(faults) >= 0
    <3> SUFFICES ASSUME NEW d \in air, d.age < 0
                 PROVE  d.age + Slack(faults) >= 0
      BY <1>0
    <3>1. faults >= 1
      BY DEF Base, Parties
    <3>2. Slack(faults) >= MaxLate
      BY <1>0, <3>1, SlackIs
    <3> QED
      BY <1>0, <3>2, Sizes
  <2>4. LastAnswers(n)'
    BY <1>0, <2>1, <2>3 DEF LastAnswers
  <2>5. Shown(n)'
    <3>1. presence[n] = "present" => n # m
      BY <1>0, <1>9 DEF Boot, Base, Down
    <3> QED
      BY <1>0, <2>1, <3>1, HorizonIs, Sizes DEF Shown
  <2> QED
    BY <2>2, <2>4, <2>5
<1>10. CASE UNCHANGED pingVars
  BY <1>0, <1>10 DEF pingVars, AliveTarget, LastAnswers, Shown
<1> QED
  BY <1>1, <1>2, <1>3, <1>4, <1>5, <1>6, <1>7, <1>8, <1>9, <1>10 DEF PingNext

(* A target that is gone is noticed, whatever the mesh loses, repeats or   *)
(* delivers late: once it has been down for an interval, a timeout and as  *)
(* long as its last answers can be under way, loop(), update() and         *)
(* recvDatagram() do not show it as present.                               *)
THEOREM DeadCorrect == PingSpec => []DeadIsNoticed
<1>1. PingInit => DeadInv
  <2> SUFFICES ASSUME PingInit, NEW n \in Pinging
               PROVE  AliveTarget(n) /\ LastAnswers(n) /\ Shown(n)
    BY DEF DeadInv
  <2>1. n \in Node
    BY DEF Pinging
  <2> QED
    BY <2>1 DEF PingInit, AliveTarget, LastAnswers, Shown
<1>2. ASSUME Base, DeadInv PROVE DeadIsNoticed
  <2> SUFFICES ASSUME NEW n \in Pinging, alone[n] >= Horizon, presence[n] = "present"
               PROVE  FALSE
    BY DEF DeadIsNoticed
  <2>1. Shown(n)
    BY <1>2 DEF DeadInv
  <2> QED
    BY <1>2, <2>1, Numbers, HorizonIs, Sizes DEF Shown
<1> QED
  BY <1>1, <1>2, AlwaysBase, DeadStep, PTL DEF PingSpec

----------------------------------------------------------------------------
(* A living one.                                                           *)

(* Both ways together take less than the timeout.                          *)
QuickMesh == 2 * MaxDelay < Second

LEMMA AliveStep ==
  ASSUME QuickMesh, Base, Base', AliveInv, [PingNext]_pingVars PROVE AliveInv'
<1> USE DEF Never
<1> SUFFICES ASSUME faults' = 0, NEW n \in Pinging
             PROVE  BothUp(n)' /\ OneAtATime(n)' /\ Seen(n)'
  BY DEF AliveInv
<1>0. /\ n \in Node /\ Target[n] \in Node
      /\ mLastPingTime[n] \in Int /\ -1 <= mLastPingTime[n] /\ mLastPingTime[n] <= Second + 1
      /\ due[n] \in Nat /\ due[n] <= Interval
      /\ together[n] \in 0 .. Horizon /\ together[n] \in Nat
      /\ faults \in Nat
  BY Numbers
<1>b. faults = 0 /\ ~Fault
  <2>1. faults' = faults \/ faults' = faults + 1
    BY DEF PingNext, Tick, Loop, Update, Fault, RecvDatagram, Lose, Repeat, Postpone, Crash, Boot,
       pingVars
  <2> QED
    BY <1>0, <2>1 DEF Fault
<1>c. BothUp(n) /\ OneAtATime(n) /\ Seen(n)
  BY <1>b DEF AliveInv
<1>d. \A d \in Conversation(n) :
        /\ d \in air /\ d \in Datagram /\ d.kind \in {"PING", "PONG"}
        /\ d.age \in Nat /\ d.age <= MaxDelay
        /\ d.kind = "PING" => d.from = n /\ d.to = Target[n] /\ d.age >= Since(n)
        /\ d.kind = "PONG" => d.to = n /\ d.age + MaxDelay >= Since(n)
  <2> SUFFICES ASSUME NEW d \in Conversation(n)
               PROVE  /\ d \in air /\ d \in Datagram /\ d.kind \in {"PING", "PONG"}
                      /\ d.age \in Nat /\ d.age <= MaxDelay
                      /\ d.kind = "PING" => d.from = n /\ d.to = Target[n] /\ d.age >= Since(n)
                      /\ d.kind = "PONG" => d.to = n /\ d.age + MaxDelay >= Since(n)
    OBVIOUS
  <2>1. d \in air /\ d \in Datagram /\ d.kind \in {"PING", "PONG"}
    BY Fields DEF Conversation, Base, Types
  <2>2. d.age \in Nat /\ d.age <= MaxDelay
    BY <1>0, <1>b, <2>1, Numbers DEF Base, Parties
  <2>3. d.kind = "PING" => d.from = n /\ d.to = Target[n]
    BY <2>1 DEF Conversation, Base, Parties
  <2>4. d.kind = "PONG" => d.to = n
    BY <2>1 DEF Conversation
  <2>5. d.age + (IF d.kind = "PING" THEN 0 ELSE MaxDelay) >= Since(n)
    BY <1>c DEF OneAtATime
  <2> QED
    BY <2>1, <2>2, <2>3, <2>4, <2>5
<1>e. Since(n) \in Nat /\ Since(n) <= Interval /\ MaxDelay \in Nat /\ Second \in Nat
      /\ Interval \in Nat /\ Second > 0 /\ Interval > Second + 1 /\ 2 * MaxDelay < Second
  BY <1>0, Sizes DEF Since, QuickMesh
(* Whatever is on its way was sent less than a timeout ago.                *)
<1>f. Conversation(n) # {} => Since(n) < Second
  BY <1>d, <1>e
<1>g. Asking(n) => Conversation(n) # {}
  BY DEF Asking
(* A step that is none of theirs. *)
<1>a. ASSUME UNCHANGED <<mLastPingTime[n], presence[n], due[n], together[n], Conversation(n)>>,
             together[n] > 0 => {n, Target[n]} \subseteq up'
      PROVE  BothUp(n)' /\ OneAtATime(n)' /\ Seen(n)'
  BY <1>a, <1>c DEF BothUp, OneAtATime, Seen, Since, Asking, Answered
<1>1. CASE Tick
  <2>1. /\ together'[n] = (IF {n, Target[n]} \subseteq up THEN Count(together[n]) ELSE 0)
        /\ up' = up /\ presence' = presence
        /\ mLastPingTime'[n] = IF mLastPingTime[n] = Never THEN Never
                               ELSE mLastPingTime[n] + 1
        /\ due'[n] = IF n \in up THEN due[n] - 1 ELSE due[n]
    BY <1>0, <1>1 DEF Tick
  <2>2. together'[n] <= together[n] + 1 /\ together'[n] \in Nat
    BY <1>0, <2>1, Counts, HorizonIs
  <2>3. Since(n)' = IF n \in up THEN Since(n) + 1 ELSE Since(n)
    BY <1>0, <1>e, <2>1 DEF Since
  <2>4. Conversation(n)' = {[d EXCEPT !.age = @ + 1] : d \in Conversation(n)}
    <3>1. \A d \in air : LET e == [d EXCEPT !.age = @ + 1]
                         IN e.kind = d.kind /\ e.from = d.from /\ e.to = d.to
      <4> SUFFICES ASSUME NEW d \in air
                   PROVE  LET e == [d EXCEPT !.age = @ + 1]
                          IN e.kind = d.kind /\ e.from = d.from /\ e.to = d.to
        OBVIOUS
      <4>1. d \in Datagram /\ d.age + 1 \in -MaxLate .. MaxDelay
        BY <1>1, Fields, Sizes DEF Tick, Base, Types
      <4> QED
        BY <4>1, Aged
    <3>2. air' = {[d EXCEPT !.age = @ + 1] : d \in air}
      BY <1>1 DEF Tick
    <3> DEFINE Older(d) == [d EXCEPT !.age = @ + 1]
               Talk(d) == (d.kind = "PING" /\ d.from = n) \/ (d.kind = "PONG" /\ d.to = n)
    <3>3. \A d \in air : Talk(Older(d)) <=> Talk(d)
      BY <3>1
    <3>4. Conversation(n) = {d \in air : Talk(d)} /\ Conversation(n)' = {d \in air' : Talk(d)}
      BY DEF Conversation
    <3>5. air' = {Older(d) : d \in air}
      BY <3>2
    <3>6. Conversation(n)' = {Older(d) : d \in Conversation(n)}
      <4> HIDE DEF Older, Talk
      <4> QED
        BY <3>3, <3>4, <3>5
    <3> QED
      BY <3>6
  <2>5. \A d \in Conversation(n) :
          LET e == [d EXCEPT !.age = @ + 1] IN e.kind = d.kind /\ e.age = d.age + 1
    <3> SUFFICES ASSUME NEW d \in Conversation(n)
                 PROVE  LET e == [d EXCEPT !.age = @ + 1]
                        IN e.kind = d.kind /\ e.age = d.age + 1
      OBVIOUS
    <3>1. d \in Datagram /\ d.age + 1 \in -MaxLate .. MaxDelay
      BY <1>1, <1>d, Fields, Sizes DEF Tick
    <3> QED
      BY <3>1, Aged
  <2>6. OneAtATime(n)'
    <3>1. \A e, f \in Conversation(n)' : e = f
      BY <1>c, <2>4 DEF OneAtATime
    <3>2. ASSUME NEW d \in Conversation(n)
          PROVE  LET e == [d EXCEPT !.age = @ + 1]
                 IN e.age + (IF e.kind = "PING" THEN 0 ELSE MaxDelay) >= Since(n)'
      <4> DEFINE e == [d EXCEPT !.age = @ + 1]
      <4>1. e.kind = d.kind /\ e.age = d.age + 1
        BY <2>5
      <4>2. d.age \in Nat /\ d.age + (IF d.kind = "PING" THEN 0 ELSE MaxDelay) >= Since(n)
        BY <1>c, <1>d DEF OneAtATime
      <4> HIDE DEF e
      <4>3. e.age + (IF e.kind = "PING" THEN 0 ELSE MaxDelay) >= Since(n)'
        BY <1>e, <2>3, <4>1, <4>2
      <4> QED
        BY <4>3 DEF e
    <3> QED
      BY <2>4, <3>1, <3>2 DEF OneAtATime
  <2>7. BothUp(n)'
    BY <2>1 DEF BothUp
  <2>8. Seen(n)'
    <3> SUFFICES ASSUME together'[n] > Since(n)'
                 PROVE  Asking(n)' \/ Answered(n)'
      BY DEF Seen
    <3>1. n \in up /\ together[n] > Since(n) /\ Since(n)' = Since(n) + 1
      BY <1>0, <1>e, <2>1, <2>2, <2>3
    <3>2. CASE Asking(n)
      <4>1. PICK d \in Conversation(n) : d.kind = "PING" => d.age = Since(n)
        BY <3>2 DEF Asking
      <4> DEFINE e == [d EXCEPT !.age = @ + 1]
      <4>2. e \in Conversation(n)' /\ e.kind = d.kind /\ e.age = d.age + 1
        BY <2>4, <2>5
      <4> HIDE DEF e
      <4>3. \E x \in Conversation(n)' : x.kind = "PING" => x.age = Since(n)'
        BY <3>1, <4>1, <4>2
      <4>4. mLastPingTime'[n] = Since(n)'
        BY <1>0, <1>e, <2>1, <3>1, <3>2 DEF Asking
      <4>5. presence'[n] = "present" \/ together'[n] <= Interval + Since(n)'
        BY <1>0, <1>e, <2>1, <2>2, <3>1, <3>2 DEF Asking
      <4> QED
        BY <4>3, <4>4, <4>5 DEF Asking
    <3>3. CASE Answered(n)
      BY <2>1, <2>4, <3>3 DEF Answered
    <3> QED
      BY <1>c, <3>1, <3>2, <3>3 DEF Seen
  <2> QED
    BY <2>6, <2>7, <2>8
<1>2. ASSUME NEW m \in Node, Loop(m)
      PROVE  BothUp(n)' /\ OneAtATime(n)' /\ Seen(n)'
  <2>1. UNCHANGED <<due[n], together[n], Conversation(n), up>>
    BY <1>2 DEF Loop, SameHistory, Conversation
  <2>2. CASE m = n
    <3>1. mLastPingTime[n] > Second
      BY <1>2, <2>2 DEF Loop, TimedOut
    <3>2. ~Asking(n) /\ ~Answered(n)
      BY <1>0, <1>e, <1>f, <1>g, <3>1 DEF Asking, Answered
    <3> QED
      BY <1>c, <2>1, <3>2 DEF BothUp, OneAtATime, Seen, Since
  <2>3. CASE m # n
    <3>1. UNCHANGED <<mLastPingTime[n], presence[n]>>
      BY <1>0, <1>2, <2>3 DEF Loop, Base, Types
    <3> QED
      BY <1>a, <1>c, <2>1, <3>1 DEF BothUp
  <2> QED
    BY <2>2, <2>3
<1>3. ASSUME NEW m \in Node, Update(m)
      PROVE  BothUp(n)' /\ OneAtATime(n)' /\ Seen(n)'
  <2> DEFINE p == Packet("PING", m, Target[m], 0)
  <2>1. /\ SameHistory /\ air' = air \cup {p} /\ presence' = presence
        /\ due' = [due EXCEPT ![m] = Interval]
        /\ mLastPingTime' = [mLastPingTime EXCEPT ![m] = 0]
    BY <1>3, <1>b DEF Update
  <2>2. p.kind = "PING" /\ p.from = m /\ p.age = 0
    BY DEF Packet
  <2> HIDE DEF p
  <2>3. CASE m = n
    <3>1. due[n] = 0 /\ due'[n] = Interval /\ mLastPingTime'[n] = 0
      BY <1>0, <1>3, <2>1, <2>3 DEF Update, Base, Types
    <3>2. Since(n) = Interval /\ Since(n)' = 0
      BY <1>e, <3>1 DEF Since
    <3>3. Conversation(n) = {}
      BY <1>e, <1>f, <3>2
    <3>4. Conversation(n)' = {p}
      BY <2>1, <2>2, <2>3, <3>3 DEF Conversation
    <3>5. OneAtATime(n)'
      BY <2>2, <3>2, <3>4 DEF OneAtATime
    <3>6. presence[n] = "present" \/ together[n] <= Interval
      BY <1>0, <1>c, <1>e, <1>g, <3>2, <3>3 DEF Seen, Answered
    <3>7. Asking(n)'
      BY <1>0, <1>e, <2>1, <2>2, <3>1, <3>2, <3>4, <3>6 DEF Asking, SameHistory
    <3> QED
      BY <1>c, <2>1, <3>5, <3>7 DEF BothUp, Seen, SameHistory
  <2>4. CASE m # n
    <3>1. UNCHANGED <<mLastPingTime[n], presence[n], due[n], together[n]>>
      BY <1>0, <2>1, <2>4 DEF SameHistory, Base, Types
    <3>2. Conversation(n)' = Conversation(n)
      BY <2>1, <2>2, <2>4 DEF Conversation
    <3> QED
      BY <1>a, <1>c, <2>1, <3>1, <3>2 DEF BothUp, SameHistory
  <2> QED
    BY <2>3, <2>4
<1>4. ASSUME NEW m \in Node, NEW d \in air, RecvDatagram(m, d)
      PROVE  BothUp(n)' /\ OneAtATime(n)' /\ Seen(n)'
  <2>0. d \in Datagram /\ d.to = m /\ d.kind \in {"PING", "PONG"} /\ SameHistory
        /\ due' = due
    BY <1>4, Fields DEF RecvDatagram, Base, Types
  <2>a. UNCHANGED <<due[n], together[n], up>> /\ Since(n)' = Since(n) /\ BothUp(n)'
    BY <1>c, <2>0 DEF SameHistory, Since, BothUp
  <2>b. d \in Conversation(n) => Conversation(n) = {d}
    BY <1>c DEF OneAtATime
  <2>1. CASE m \in up /\ d.kind = "PING"
    <3> DEFINE e == Packet("PONG", m, d.from, d.copy)
    <3>1. e.kind = "PONG" /\ e.from = m /\ e.to = d.from /\ e.age = 0
      BY DEF Packet
    <3>2. air' = (air \ {d}) \cup {e} /\ UNCHANGED <<mLastPingTime, presence>>
      BY <1>4, <2>1 DEF RecvDatagram, RecvPing, RecvPong
    <3> HIDE DEF e
    <3>3. CASE d.from = n
      <4>1. Conversation(n) = {d}
        BY <2>1, <2>b, <3>3 DEF Conversation
      <4>2. Conversation(n)' = {e}
        BY <3>1, <3>2, <3>3, <4>1 DEF Conversation
      <4>3. d.age <= MaxDelay /\ d.age >= Since(n)
        BY <1>d, <2>1, <4>1
      <4>4. OneAtATime(n)'
        <5>1. e.age + MaxDelay >= Since(n)
          BY <1>d, <1>e, <3>1, <4>1, <4>3
        <5> QED
          BY <2>a, <3>1, <4>2, <5>1 DEF OneAtATime
      <4>5. Seen(n)'
        BY <1>c, <2>a, <3>1, <3>2, <4>1, <4>2 DEF Seen, Asking, Answered
      <4> QED
        BY <2>a, <4>4, <4>5
    <3>4. CASE d.from # n
      <4>1. Conversation(n)' = Conversation(n)
        BY <2>1, <3>1, <3>2, <3>4 DEF Conversation
      <4> QED
        BY <1>a, <1>c, <2>a, <3>2, <4>1 DEF BothUp
    <3> QED
      BY <3>3, <3>4
  <2>2. CASE m \in up /\ d.kind = "PONG"
    <3>1. /\ air' = air \ {d}
          /\ presence' = [presence EXCEPT ![m] = Published(InTime(m))]
          /\ mLastPingTime' = [mLastPingTime EXCEPT ![m] = Never]
      BY <1>4, <2>2 DEF RecvDatagram, RecvPing, RecvPong
    <3>2. CASE m = n
      <4>1. Conversation(n) = {d}
        BY <2>0, <2>2, <2>b, <3>2 DEF Conversation
      <4>2. Conversation(n)' = {}
        BY <3>1, <4>1 DEF Conversation
      <4>3. OneAtATime(n)'
        BY <4>2 DEF OneAtATime
      <4>4. Seen(n)'
        <5> SUFFICES ASSUME together[n] > Since(n)
                     PROVE  Answered(n)'
          BY <2>a DEF Seen
        <5>1. mLastPingTime[n] = Since(n)
          BY <1>c, <4>1 DEF Seen, Asking, Answered
        <5>2. InTime(n)
          BY <1>0, <1>e, <1>f, <4>1, <5>1 DEF InTime
        <5>3. presence'[n] = "present" /\ mLastPingTime'[n] = Never
          BY <1>0, <3>1, <3>2, <5>2 DEF Published, Base, Types
        <5> QED
          BY <4>2, <5>3 DEF Answered
      <4> QED
        BY <2>a, <4>3, <4>4
    <3>3. CASE m # n
      <4>1. UNCHANGED <<mLastPingTime[n], presence[n]>>
        BY <1>0, <3>1, <3>3 DEF Base, Types
      <4>2. Conversation(n)' = Conversation(n)
        BY <2>0, <2>2, <3>1, <3>3 DEF Conversation
      <4> QED
        BY <1>a, <1>c, <2>a, <4>1, <4>2 DEF BothUp
    <3> QED
      BY <3>2, <3>3
  <2>3. CASE m \notin up
    <3>1. air' = air \ {d} /\ UNCHANGED <<mLastPingTime, presence>>
      BY <1>4, <2>3 DEF RecvDatagram
    <3>2. CASE d \in Conversation(n)
      <4>1. Conversation(n)' = {}
        BY <2>b, <3>1, <3>2 DEF Conversation
      <4>2. m \in {n, Target[n]}
        BY <1>d, <2>0, <3>2
      <4>3. together[n] = 0
        BY <1>0, <1>c, <2>3, <4>2 DEF BothUp
      <4> QED
        BY <1>e, <2>a, <4>1, <4>3 DEF OneAtATime, Seen
    <3>3. CASE d \notin Conversation(n)
      <4>1. Conversation(n)' = Conversation(n)
        BY <3>1, <3>3 DEF Conversation
      <4> QED
        BY <1>a, <1>c, <2>a, <3>1, <4>1 DEF BothUp
    <3> QED
      BY <3>2, <3>3
  <2> QED
    BY <2>0, <2>1, <2>2, <2>3
<1>5. ASSUME NEW d \in air, Lose(d) \/ Repeat(d) \/ Postpone(d)
      PROVE  FALSE
  BY <1>5, <1>b DEF Lose, Repeat, Postpone
<1>8. ASSUME NEW m \in Node, Crash(m)
      PROVE  BothUp(n)' /\ OneAtATime(n)' /\ Seen(n)'
  <2>1. /\ together'[n] = (IF m \in {n, Target[n]} THEN 0 ELSE together[n])
        /\ up' = up \ {m} /\ UNCHANGED <<due[n], Conversation(n)>>
    BY <1>0, <1>8 DEF Crash, Conversation
  <2>2. CASE m \in {n, Target[n]}
    BY <1>c, <1>e, <2>1, <2>2 DEF BothUp, OneAtATime, Seen, Since
  <2>3. CASE m \notin {n, Target[n]}
    <3>1. UNCHANGED <<mLastPingTime[n], presence[n]>>
      BY <1>0, <1>8, <2>3 DEF Crash, Base, Types
    <3> QED
      BY <1>a, <1>c, <2>1, <2>3, <3>1 DEF BothUp
  <2> QED
    BY <2>2, <2>3
<1>9. ASSUME NEW m \in Node, Boot(m)
      PROVE  BothUp(n)' /\ OneAtATime(n)' /\ Seen(n)'
  <2>1. /\ together'[n] = (IF m \in {n, Target[n]} THEN 0 ELSE together[n])
        /\ up' = up \cup {m} /\ UNCHANGED <<mLastPingTime, presence, Conversation(n)>>
        /\ due'[n] = IF n = m THEN Interval ELSE due[n]
    BY <1>0, <1>9 DEF Boot, Conversation, Base, Types
  <2>2. CASE m \in {n, Target[n]}
    <3>1. Since(n)' \in Nat /\ Since(n)' <= Since(n)
      BY <1>0, <1>e, <2>1 DEF Since
    <3>2. ASSUME NEW d \in Conversation(n)
          PROVE  d.age + (IF d.kind = "PING" THEN 0 ELSE MaxDelay) >= Since(n)'
      BY <1>d, <1>e, <3>1
    <3>3. OneAtATime(n)'
      BY <1>c, <2>1, <3>2 DEF OneAtATime
    <3> QED
      BY <2>1, <2>2, <3>1, <3>3 DEF BothUp, Seen
  <2>3. CASE m \notin {n, Target[n]}
    BY <1>a, <1>c, <2>1, <2>3 DEF BothUp
  <2> QED
    BY <2>2, <2>3
<1>10. CASE UNCHANGED pingVars
  BY <1>10, <1>a, <1>c DEF pingVars, BothUp, Conversation
<1> QED
  BY <1>1, <1>2, <1>3, <1>4, <1>5, <1>8, <1>9, <1>10 DEF PingNext

(* A target that answers is shown as present, if a ping and its answer     *)
(* together take less than the timeout: once both have run for an interval *)
(* and a round trip, and for as long as the mesh has lost, repeated and    *)
(* postponed nothing.                                                      *)
THEOREM AliveCorrect == ASSUME QuickMesh PROVE PingSpec => []AliveIsSeen
<1>1. PingInit => AliveInv
  <2> SUFFICES ASSUME PingInit, NEW n \in Pinging
               PROVE  BothUp(n) /\ OneAtATime(n) /\ Seen(n)
    BY DEF AliveInv
  <2>1. n \in Node /\ together[n] = 0 /\ Conversation(n) = {} /\ Since(n) = 0
    BY Sizes DEF Pinging, PingInit, Conversation, Since
  <2> QED
    BY <2>1 DEF BothUp, OneAtATime, Seen
<1>2. ASSUME Base, AliveInv PROVE AliveIsSeen
  <2> SUFFICES ASSUME NEW n \in Pinging, faults = 0, together[n] > Interval + 2 * MaxDelay,
                      presence[n] # "present"
               PROVE  FALSE
    BY DEF AliveIsSeen
  <2>1. OneAtATime(n) /\ Seen(n)
    BY <1>2 DEF AliveInv
  <2>2. Since(n) \in Nat /\ Since(n) <= Interval /\ together[n] > Since(n)
    BY <1>2, Numbers, Sizes DEF Since
  <2>3. Asking(n) /\ together[n] <= Interval + Since(n)
    BY <2>1, <2>2 DEF Seen, Asking, Answered
  <2>4. PICK d \in Conversation(n) : TRUE
    BY <2>3 DEF Asking
  <2>5. d.age \in Int /\ d.age <= MaxDelay
    BY <1>2, Numbers DEF Conversation
  <2>6. d.age + (IF d.kind = "PING" THEN 0 ELSE MaxDelay) >= Since(n)
    BY <2>1, <2>4 DEF OneAtATime
  <2>7. Since(n) <= 2 * MaxDelay
    BY <2>2, <2>5, <2>6, Sizes
  <2> QED
    BY <1>2, <2>2, <2>3, <2>7, Numbers, Sizes
<1>3. Base /\ Base' /\ AliveInv /\ [PingNext]_pingVars => AliveInv'
  BY AliveStep
<1> QED
  BY <1>1, <1>2, <1>3, AlwaysBase, PTL DEF PingSpec
-----------------------------------------------------------------------------
(* The self test.                                                          *)

(* Every variable has its type. *)
TestTypes ==
  /\ mState \in [Tester -> State]
  /\ mSubState \in [Tester -> 0 .. 8 \cup {98, 99}]
  /\ mLastTime \in [Tester -> Nat]
  /\ mSocket \in [Tester -> BOOLEAN]
  /\ unread \in [Tester -> Seq(TestPacket)]
  /\ wire \in [Tester -> Seq(TestPacket)]
  /\ skew \in 1 .. MaxSkew /\ lead \in [Tester -> Nat]
  /\ testFaults \in Nat
  /\ failed \in [Tester -> State \cup {"none"}]

(* Node n is in step k of phase s. *)
Is(n, s, k) == mState[n] = s /\ mSubState[n] = k

(* Nothing has reached node n and nothing is on the way to it, or p is:    *)
(* received, or about to be (the fourth phase takes a packet as it         *)
(* arrives).                                                               *)
Empty(n) == unread[n] = <<>> /\ wire[n] = <<>>
Coming(n, p) ==
  \/ unread[n] = <<>> /\ wire[n] = <<p>>
  \/ unread[n] = <<p>> /\ wire[n] = <<>> /\ mState[n] # "UNICAST2"

Fresh == mLastTime[0] = 0 /\ mLastTime[1] = 0
Well == failed[0] = "none" /\ failed[1] = "none"

(* Ticks since the start, for a node that has not yet heard from the       *)
(* other.                                                                  *)
Clock(n) == IF mState[n] = "WAIT_START" THEN mLastTime[n]
            ELSE Start[n] + 1 + mLastTime[n]

(* A node waits no longer than it has to, and opens its socket at once. *)
Punctual(n) ==
  /\ Is(n, "WAIT_START", 0) => mLastTime[n] <= Start[n] + 1
  /\ Is(n, "BROADCAST1", 0) => mLastTime[n] = 0

(* The first phase, until the director says hello: the clocks agree. *)
Begins ==
  /\ Is(0, "WAIT_START", 0) \/ Is(0, "BROADCAST1", 0) \/ Is(0, "BROADCAST1", 1)
  /\ Is(1, "WAIT_START", 0) \/ Is(1, "BROADCAST1", 0) \/ Is(1, "BROADCAST1", 2)
  /\ Empty(0) /\ Empty(1) /\ Well
  /\ Clock(0) = Clock(1)
  /\ Punctual(0) /\ Punctual(1)
  /\ mSubState[0] = 1 => mLastTime[0] <= Pause + 1

(* Loops that take turns cannot bring the director to the hello of the     *)
(* second phase before the responder has opened its socket.                *)
Ahead(p) ==
  p = "BROADCAST1" /\ skew = 1 =>
    /\ Is(1, p, 99) => Is(0, p, 7) \/ (Is(0, p, 99) /\ lead[0] # 0)
    /\ Is(1, After[p], 0) => \/ Is(0, p, 7) \/ Is(0, p, 99)
                             \/ Is(0, After[p], 0) /\ lead[0] # 0

(* Between the last packet of phase p and the hello of the next one: the   *)
(* big packet of the responder is on its way or has come, each node closes *)
(* its socket and opens another, and both clocks stand still until the     *)
(* director pauses.                                                        *)
Leaving(p) ==
  LET q == After[p] IN
  /\ \/ Is(0, p, 7) /\ Coming(0, "BIG")
     \/ (Is(0, p, 99) \/ Is(0, q, 0) \/ (q # "DONE" /\ Is(0, q, 1))) /\ Empty(0)
  /\ Is(1, p, 99) \/ Is(1, q, 0) \/ (q # "DONE" /\ Is(1, q, 2))
  /\ Empty(1) /\ Well
  /\ mLastTime[0] = mLastTime[1] /\ mLastTime[0] <= Pause + 1
  /\ mLastTime[0] # 0 => Is(0, q, 1) /\ Is(1, q, 2) /\ q # "BROADCAST2"
  /\ Ahead(p)

(* The hello of phase p is on its way to a responder that waits for it. *)
Greets(p) ==
  /\ Is(0, p, 3) /\ Empty(0) /\ mLastTime[0] = 0
  /\ Is(1, p, 2) /\ Coming(1, "HELLO") /\ mLastTime[1] <= Patience(p, 2)
  /\ Well

(* The packets after the hello, one at a time. *)
Talks(p) ==
  /\ Fresh /\ Well
  /\ \/ Is(0, p, 3) /\ Is(1, p, 4) /\ Empty(0) /\ Empty(1)
     \/ Is(0, p, 3) /\ Is(1, p, 6) /\ Coming(0, "REPLY") /\ Empty(1)
     \/ Is(0, p, 5) /\ Is(1, p, 6) /\ Empty(0) /\ Empty(1)
     \/ Is(0, p, 7) /\ Is(1, p, 6) /\ Empty(0) /\ Coming(1, "BIG")
     \/ Is(0, p, 7) /\ Is(1, p, 8) /\ Empty(0) /\ Empty(1)

(* The hello of the second phase, sent to a socket that is not the one it  *)
(* is meant for: a closed one, or the one of the first phase.              *)
Early ==
  /\ skew > 1 /\ Fresh /\ Well
  /\ Is(0, "BROADCAST2", 3) /\ Empty(0)
  /\ Is(1, "BROADCAST1", 99) \/ Is(1, "BROADCAST2", 0)
  /\ Coming(1, "HELLO") /\ (unread[1] # <<>> => Is(1, "BROADCAST1", 99))

(* It is lost, and both nodes give up, one after the other. *)
Missed ==
  /\ skew > 1 /\ Empty(0) /\ Empty(1)
  /\ Is(0, "BROADCAST2", 3) \/ Is(0, "BROADCAST2", 98) \/ Is(0, "DONE", 0)
  /\ \/ Is(1, "BROADCAST1", 99) \/ Is(1, "BROADCAST2", 0) \/ Is(1, "BROADCAST2", 2)
     \/ Is(1, "BROADCAST2", 98) \/ Is(1, "DONE", 0)
  /\ failed[0] \in {"none", "BROADCAST2"} /\ failed[1] \in {"none", "BROADCAST2"}

(* The two nodes are in one of these stages. *)
Together == Begins \/ (\E p \in Testing : Leaving(p) \/ Greets(p) \/ Talks(p)) \/ Early \/ Missed
(* A socket is open from step 1 to the end of the phase. *)
Opened == \A n \in Tester : mSocket[n] = (mSubState[n] # 0)

(* The inductive invariant. *)
TestInv == TestTypes /\ (testFaults = 0 => Opened /\ Together)

----------------------------------------------------------------------------
(* Node numbers. *)
LEMMA Testers == Tester = {0, 1} /\ Other(0) = 1 /\ Other(1) = 0
BY DEF Tester, Director, Responder, Other

(* The constants, one by one. *)
LEMMA TestNumbers ==
  ASSUME TestConstants, StartsClose
  PROVE
  /\ Start[0] \in Nat /\ Start[1] \in Nat
  /\ Pause \in Nat /\ Short \in Nat /\ Brief \in Nat /\ Long \in Nat
  /\ MaxSkew \in Nat \ {0} /\ MaxTestFaults \in Nat
  /\ Short < Pause /\ Pause < Brief /\ Brief < Long
  /\ Start[0] <= Long /\ Start[1] <= Long
  /\ Start[1] <= Start[0] + Pause /\ Start[0] + Pause < Start[1] + Long
BY Testers DEF TestConstants, StartsClose, Director, Responder

(* The phases in order. *)
LEMMA AfterIs ==
  /\ After["WAIT_START"] = "BROADCAST1" /\ After["BROADCAST1"] = "BROADCAST2"
  /\ After["BROADCAST2"] = "UNICAST1" /\ After["UNICAST1"] = "UNICAST2"
  /\ After["UNICAST2"] = "DONE"
BY DEF After, State

(* The four phases. *)
LEMMA TestingIs == Testing = {"BROADCAST1", "BROADCAST2", "UNICAST1", "UNICAST2"}
BY DEF Testing, State

(* The four packets. *)
LEMMA SendsIs ==
  /\ DOMAIN Sends = {1, 4, 5, 8}
  /\ Sends[1] = [packet |-> "HELLO", next |-> 3]
  /\ Sends[4] = [packet |-> "REPLY", next |-> 6]
  /\ Sends[5] = [packet |-> "BIG", next |-> 7]
  /\ Sends[8] = [packet |-> "BIG", next |-> 99]
BY DEF Sends

(* The initial states satisfy the invariant. *)
LEMMA TypesInit ==
  ASSUME TestConstants, StartsClose
  PROVE  TestInit => TestInv
<1> USE Testers, TestNumbers
<1>1. TestInit => TestTypes
  BY DEF TestInit, TestTypes, State
<1>2. TestInit => Opened
  BY DEF TestInit, Opened
<1>3. TestInit => Begins
  BY DEF TestInit, Begins, Punctual, Is, Empty, Well, Clock
<1> QED
  BY <1>1, <1>2, <1>3 DEF TestInv, Together

(* Steps. *)
Sub == 0 .. 8 \cup {98, 99}

(* CHANGE_STATE keeps the types. *)
LEMMA GoesTypes ==
  ASSUME TestTypes, NEW n \in {0, 1}, NEW s \in State, NEW k \in Sub, Goes(n, s, k)
  PROVE  /\ mState' \in [Tester -> State]
         /\ mSubState' \in [Tester -> Sub]
         /\ mLastTime' \in [Tester -> Nat]
         /\ mState'[n] = s /\ mSubState'[n] = k /\ mLastTime'[n] = 0
         /\ mState'[1 - n] = mState[1 - n] /\ mSubState'[1 - n] = mSubState[1 - n]
         /\ mLastTime'[1 - n] = mLastTime[1 - n]
<1> USE Testers DEF TestTypes, Goes, Sub
<1>1. CASE n = 0
  BY <1>1
<1>2. CASE n = 1
  BY <1>2
<1> QED
  BY <1>1, <1>2

(* Queues of packets. *)
Link == [Tester -> Seq(TestPacket)]

(* An answer leads to a step. *)
LEMMA HeardTypes ==
  ASSUME NEW s \in State, NEW k \in Waiting, NEW p
  PROVE  Heard(s, k, p) \in Sub
BY DEF Heard, Waiting, Wrong, Sub

(* Taking a packet out of a queue. *)
LEMMA TailTypes ==
  ASSUME NEW f \in Link, NEW n \in {0, 1}, f[n] # <<>>
  PROVE  /\ [f EXCEPT ![n] = Tail(@)] \in Link
         /\ [f EXCEPT ![n] = <<>>] \in Link
         /\ Head(f[n]) \in TestPacket
BY Testers DEF Link

(* Adding one. *)
LEMMA AppendTypes ==
  ASSUME NEW f \in Link, NEW n \in {0, 1}, NEW p \in TestPacket
  PROVE  [f EXCEPT ![n] = Append(@, p)] \in Link
BY Testers DEF Link

(* Emptying one. *)
LEMMA ClosesTypes ==
  ASSUME NEW f \in Link, NEW n \in {0, 1}
  PROVE  [f EXCEPT ![n] = <<>>] \in Link
BY Testers DEF Link

(* Types are kept by every step, faults included. *)
LEMMA TypesKept ==
  ASSUME TestTypes, [TestNext]_testVars
  PROVE  TestTypes'
<1> USE Testers
<1> DEFINE Rest == /\ mSocket' \in [Tester -> BOOLEAN] /\ unread' \in Link /\ wire' \in Link
                   /\ skew' = skew /\ lead' \in [Tester -> Nat] /\ testFaults' \in Nat
                   /\ failed' \in [Tester -> State \cup {"none"}]
           Timed == /\ mState' \in [Tester -> State] /\ mSubState' \in [Tester -> Sub]
                    /\ mLastTime' \in [Tester -> Nat]
<1>1. Rest /\ Timed => TestTypes'
  BY DEF TestTypes, Link, Sub
<1>2. /\ unread \in Link /\ wire \in Link /\ mSocket \in [Tester -> BOOLEAN]
      /\ lead \in [Tester -> Nat] /\ testFaults \in Nat
      /\ failed \in [Tester -> State \cup {"none"}]
      /\ mState \in [Tester -> State] /\ mSubState \in [Tester -> Sub]
      /\ mLastTime \in [Tester -> Nat]
  BY DEF TestTypes, Link, Sub
<1>3. ASSUME NEW n \in {0, 1}, Stays(n) PROVE Timed
  BY <1>2, <1>3 DEF Stays
<1>4. ASSUME NEW n \in {0, 1}, NEW s \in State, NEW k \in Sub, Goes(n, s, k) PROVE Timed
  BY <1>4, GoesTypes
<1>5. ASSUME Fails \/ UNCHANGED testFaults PROVE testFaults' \in Nat
  BY <1>2, <1>5 DEF Fails
<1>6. ASSUME NEW n \in {0, 1}, TestLoop(n) PROVE TestTypes'
  <2>1. skew' = skew /\ lead' \in [Tester -> Nat]
    BY <1>2, <1>6 DEF TestLoop
  <2>2. CASE Stays(n) /\ KeepSocket /\ KeepWire /\ UNCHANGED failed
    BY <1>1, <1>2, <1>3, <2>1, <2>2 DEF KeepSocket, KeepWire
  <2>3. mState[n] \in State /\ mSubState[n] \in Sub /\ After[mState[n]] \in State
    <3>1. mState[n] \in State /\ mSubState[n] \in Sub
      BY <1>2
    <3> QED
      BY <3>1 DEF After, State
  <2>4. CASE Works(n)
    <3>1. CASE WaitStart(n)
      BY <1>1, <1>2, <1>4, <2>1, <3>1 DEF WaitStart, KeepSocket, KeepWire, State, Sub
    <3>2. CASE OpenSocket(n)
      <4>1. Step(n, 1) \/ Step(n, 2) \/ Step(n, 98)
        BY <3>2 DEF OpenSocket
      <4>2. Timed
        BY <1>4, <2>3, <4>1 DEF Step, Sub
      <4>3. Rest
        BY <1>2, <1>5, <2>1, <3>2, ClosesTypes DEF OpenSocket, KeepWire
      <4> QED
        BY <1>1, <4>2, <4>3
    <3>3. CASE Send(n)
      <4>1. /\ mSubState[n] \in {1, 4, 5, 8}
            /\ \/ Step(n, Sends[mSubState[n]].next) /\ UNCHANGED testFaults
                  /\ wire' = [wire EXCEPT ![Other(n)] = Append(@, Sends[mSubState[n]].packet)]
               \/ Step(n, 98) /\ Fails /\ UNCHANGED wire
        BY <3>3, SendsIs DEF Send
      <4>2. Sends[mSubState[n]].next \in {3, 6, 7, 99}
            /\ Sends[mSubState[n]].packet \in TestPacket
        BY <4>1, SendsIs DEF TestPacket
      <4>3. Timed
        BY <1>4, <2>3, <4>1, <4>2 DEF Step, Sub
      <4>4. wire' \in Link
        <5>1. Other(n) \in {0, 1}
          BY DEF Other
        <5> DEFINE v == Sends[mSubState[n]].packet
        <5>2. v \in TestPacket /\ wire \in Link
          BY <1>2, <4>2
        <5>3. wire' = wire \/ wire' = [wire EXCEPT ![Other(n)] = Append(@, v)]
          BY <4>1
        <5> HIDE DEF v
        <5>4. [wire EXCEPT ![Other(n)] = Append(@, v)] \in Link
          BY <5>1, <5>2, AppendTypes
        <5> QED
          BY <5>2, <5>3, <5>4
      <4>5. Rest
        BY <1>2, <1>5, <2>1, <3>3, <4>1, <4>4 DEF Send, KeepSocket
      <4> QED
        BY <1>1, <4>3, <4>5
    <3>4. CASE Recv(n)
      <4>1. Timed
        BY <1>4, <2>3, <3>4, HeardTypes DEF Recv, Step
      <4>2. Rest
        BY <1>2, <2>1, <3>4, TailTypes DEF Recv, KeepWire
      <4> QED
        BY <1>1, <4>1, <4>2
    <3>5. CASE Timeout(n)
      BY <1>1, <1>2, <1>4, <2>1, <2>3, <3>5 DEF Timeout, Step, KeepSocket, KeepWire, Sub
    <3>6. CASE EndWithError(n)
      <4>1. Timed
        BY <1>4, <3>6 DEF EndWithError, State, Sub
      <4>2. Rest
        BY <1>2, <2>1, <2>3, <3>6, ClosesTypes DEF EndWithError, CloseResources, KeepWire
      <4> QED
        BY <1>1, <4>1, <4>2
    <3>7. CASE EndPhase(n)
      <4>1. Timed
        BY <1>4, <2>3, <3>7 DEF EndPhase, Sub
      <4>2. Rest
        BY <1>2, <2>1, <2>3, <3>7, ClosesTypes DEF EndPhase, CloseResources, KeepWire
      <4> QED
        BY <1>1, <4>1, <4>2
    <3> QED
      BY <2>4, <3>1, <3>2, <3>3, <3>4, <3>5, <3>6, <3>7 DEF Works
  <2> QED
    BY <1>6, <2>2, <2>4 DEF TestLoop
<1>7. ASSUME NEW n \in {0, 1}, Arrive(n) PROVE TestTypes'
  <2>1. wire' \in Link /\ Head(wire[n]) \in TestPacket
    BY <1>2, <1>7, TailTypes DEF Arrive
  <2>2. unread' \in Link
    <3>1. [unread EXCEPT ![n] = Append(@, Head(wire[n]))] \in Link
      BY <1>2, <2>1, AppendTypes
    <3>2. \/ unread' = unread
          \/ unread' = [unread EXCEPT ![n] = Append(@, Head(wire[n]))]
      BY <1>7 DEF Arrive
    <3> QED
      BY <1>2, <3>1, <3>2
  <2>3. Timed
    <3>1. mState[n] \in State
      BY <1>2
    <3>2. CASE Stays(n)
      BY <1>3, <3>2
    <3>3. CASE ~Stays(n)
      <4>1. mState[n] = "UNICAST2" /\ mSubState[n] \in Waiting
            /\ Step(n, Heard("UNICAST2", mSubState[n], Head(wire[n])))
        BY <1>7, <3>3 DEF Arrive
      <4> QED
        BY <1>4, <3>1, <4>1, HeardTypes DEF Step
    <3> QED
      BY <3>2, <3>3
  <2>4. Rest
    BY <1>2, <1>7, <2>1, <2>2 DEF Arrive
  <2> QED
    BY <1>1, <2>3, <2>4
<1>8. ASSUME NEW n \in {0, 1}, LoseTest(n) PROVE TestTypes'
  BY <1>1, <1>2, <1>3, <1>5, <1>8, TailTypes DEF LoseTest, KeepSocket
<1>9. ASSUME NEW n \in {0, 1}, RepeatTest(n) PROVE TestTypes'
  <2>1. wire' \in Link
    BY <1>2, <1>9, TailTypes, AppendTypes DEF RepeatTest
  <2> QED
    BY <1>1, <1>2, <1>3, <1>5, <1>9, <2>1 DEF RepeatTest, KeepSocket
<1>10. CASE TestTick
  <2>1. \A n \in Tester : Later(mLastTime[n]) \in Nat
    BY <1>2 DEF Later
  <2> QED
    BY <1>1, <1>2, <1>10, <2>1 DEF TestTick, KeepSocket, KeepWire
<1>11. CASE UNCHANGED testVars
  BY <1>1, <1>2, <1>11 DEF testVars
<1> QED
  BY <1>6, <1>7, <1>8, <1>9, <1>10, <1>11 DEF TestNext

(* Node m stays where it is. *)
Stands(m) ==
  mState'[m] = mState[m] /\ mSubState'[m] = mSubState[m] /\ mLastTime'[m] = mLastTime[m]
(* No packet moves. *)
SameLinks == unread' = unread /\ wire' = wire
(* Node n goes to step k of phase s, and the other one stays. *)
Moves(n, s, k) ==
  mState'[n] = s /\ mSubState'[n] = k /\ mLastTime'[n] = 0 /\ Stands(1 - n)
(* Node n has made one more loop. *)
Led(n) == lead[n] < skew /\ lead'[n] = lead[n] + 1 /\ lead'[1 - n] = 0

(* CHANGE_STATE, node by node. *)
LEMMA GoesMoves ==
  ASSUME TestTypes, NEW n \in {0, 1}, NEW s, NEW k, Goes(n, s, k)
  PROVE  Moves(n, s, k)
<1> USE Testers DEF TestTypes, Goes, Moves, Stands
<1>1. CASE n = 0
  BY <1>1
<1>2. CASE n = 1
  BY <1>2
<1> QED
  BY <1>1, <1>2

(* A loop, node by node. *)
LEMMA LeadMoves ==
  ASSUME TestTypes, NEW n \in {0, 1}, lead[n] < skew,
         lead' = [lead EXCEPT ![n] = @ + 1, ![Other(n)] = 0]
  PROVE  Led(n)
<1> USE Testers DEF TestTypes, Led
<1>1. CASE n = 0
  BY <1>1
<1>2. CASE n = 1
  BY <1>2
<1> QED
  BY <1>1, <1>2

(* There are two nodes. *)
LEMMA OtherIs == \A n \in {0, 1} : Other(n) = 1 - n /\ 1 - n \in {0, 1} /\ 1 - n # n
BY DEF Other

(* Sockets are opened and closed with the phases. *)
LEMMA OpenedKept ==
  ASSUME TestTypes, Opened, testFaults = 0, testFaults' = 0, [TestNext]_testVars
  PROVE  Opened'
<1> USE Testers
<1>1. ASSUME NEW n \in {0, 1}, UNCHANGED mSocket, mSubState'[n] # 0, mSubState[n] # 0,
             Stands(1 - n)
      PROVE Opened'
  <2>1. CASE n = 0
    BY <1>1, <2>1 DEF Opened, Stands
  <2>2. CASE n = 1
    BY <1>1, <2>2 DEF Opened, Stands
  <2> QED
    BY <2>1, <2>2
<1>2. ASSUME UNCHANGED <<mSocket, mSubState>> PROVE Opened'
  BY <1>2 DEF Opened
<1>3. ASSUME NEW n \in {0, 1}, NEW b \in BOOLEAN, mSocket' = [mSocket EXCEPT ![n] = b],
             b = (mSubState'[n] # 0), Stands(1 - n)
      PROVE Opened'
  <2>1. CASE n = 0
    BY <1>3, <2>1 DEF Opened, Stands, TestTypes
  <2>2. CASE n = 1
    BY <1>3, <2>2 DEF Opened, Stands, TestTypes
  <2> QED
    BY <2>1, <2>2
<1>4. ~Fails
  BY DEF Fails, TestTypes
<1>5. ASSUME NEW n \in {0, 1}, Works(n) PROVE Opened'
  <2>1. CASE WaitStart(n)
    <3>1. Moves(n, "BROADCAST1", 0) /\ mSubState[n] = 0 /\ UNCHANGED mSocket
      BY <2>1, GoesMoves DEF WaitStart, KeepSocket, At
    <3> QED
      BY <1>2, <1>3, <3>1, OtherIs DEF Moves, Stands, Opened
  <2>2. CASE OpenSocket(n)
    <3>1. \E k \in {1, 2} : Moves(n, mState[n], k)
      BY <1>4, <2>2, GoesMoves DEF OpenSocket, Step
    <3>2. mSubState'[n] # 0 /\ Stands(1 - n)
      BY <3>1 DEF Moves
    <3>3. mSocket' = [mSocket EXCEPT ![n] = TRUE]
      BY <2>2 DEF OpenSocket
    <3> QED
      BY <1>3, <3>2, <3>3
  <2>3. CASE Send(n)
    <3>1. /\ mSubState[n] \in {1, 4, 5, 8} /\ UNCHANGED mSocket
          /\ Moves(n, mState[n], Sends[mSubState[n]].next)
      BY <1>4, <2>3, GoesMoves, SendsIs DEF Send, Step, KeepSocket
    <3> QED
      BY <1>1, <3>1, SendsIs DEF Moves
  <2>4. CASE Recv(n)
    <3>1. /\ mSubState[n] \in Waiting /\ UNCHANGED mSocket
          /\ Moves(n, mState[n], Heard(mState[n], mSubState[n], Head(unread[n])))
      BY <2>4, GoesMoves DEF Recv, Step
    <3> QED
      BY <1>1, <3>1 DEF Moves, Waiting, Heard, Wrong
  <2>5. CASE Timeout(n)
    <3>1. mSubState[n] \in Waiting /\ UNCHANGED mSocket /\ Moves(n, mState[n], 98)
      BY <2>5, GoesMoves DEF Timeout, Step, KeepSocket
    <3> QED
      BY <1>1, <3>1 DEF Moves, Waiting
  <2>6. CASE EndWithError(n)
    <3>1. Moves(n, "DONE", 0)
      BY <2>6, GoesMoves DEF EndWithError
    <3> QED
      BY <1>3, <2>6, <3>1 DEF EndWithError, CloseResources, Moves
  <2>7. CASE EndPhase(n)
    <3>1. Moves(n, After[mState[n]], 0)
      BY <2>7, GoesMoves DEF EndPhase
    <3> QED
      BY <1>3, <2>7, <3>1 DEF EndPhase, CloseResources, Moves
  <2> QED
    BY <1>5, <2>1, <2>2, <2>3, <2>4, <2>5, <2>6, <2>7 DEF Works
<1>6. ASSUME NEW n \in {0, 1}, TestLoop(n) PROVE Opened'
  BY <1>2, <1>5, <1>6 DEF TestLoop, Stays, KeepSocket
<1>7. ASSUME NEW n \in {0, 1}, Arrive(n) PROVE Opened'
  <2>1. CASE Stays(n)
    BY <1>2, <1>7, <2>1 DEF Arrive, Stays
  <2>2. CASE ~Stays(n)
    <3>1. mSubState[n] \in Waiting /\ UNCHANGED mSocket
          /\ Moves(n, mState[n], Heard("UNICAST2", mSubState[n], Head(wire[n])))
      BY <1>7, <2>2, GoesMoves DEF Arrive, Step
    <3> QED
      BY <1>1, <3>1 DEF Moves, Waiting, Heard, Wrong
  <2> QED
    BY <2>1, <2>2
<1>8. CASE TestTick \/ UNCHANGED testVars
  BY <1>2, <1>8 DEF TestTick, KeepSocket, testVars
<1> QED
  BY <1>4, <1>6, <1>7, <1>8 DEF TestNext, LoseTest, RepeatTest

(* What each action does, when there is no fault. *)
WaitMoves(n) ==
  /\ Is(n, "WAIT_START", 0) /\ mLastTime[n] > Start[n]
  /\ Moves(n, "BROADCAST1", 0) /\ SameLinks
OpenMoves(n) ==
  /\ mState[n] \in Testing /\ mSubState[n] = 0
  /\ Moves(n, mState[n], IF n = 0 THEN 1 ELSE 2)
  /\ unread'[n] = <<>> /\ unread'[1 - n] = unread[1 - n] /\ wire' = wire
SendMoves(n) ==
  \E k \in {1, 4, 5, 8} :
    /\ mState[n] \in Testing /\ mSubState[n] = k /\ ~Pauses(n)
    /\ Moves(n, mState[n], Sends[k].next)
    /\ wire'[1 - n] = Append(wire[1 - n], Sends[k].packet) /\ wire'[n] = wire[n]
    /\ unread' = unread
RecvMoves(n) ==
  /\ mState[n] \in Polled /\ mSubState[n] \in Waiting /\ unread[n] # <<>>
  /\ Moves(n, mState[n], Heard(mState[n], mSubState[n], Head(unread[n])))
  /\ unread'[n] = Tail(unread[n]) /\ unread'[1 - n] = unread[1 - n] /\ wire' = wire
TimeoutMoves(n) ==
  /\ mState[n] \in Testing /\ mSubState[n] \in Waiting /\ Overdue(n)
  /\ mState[n] \in Polled => unread[n] = <<>>
  /\ Moves(n, mState[n], 98) /\ SameLinks
(* CloseResources. *)
CloseMoves(n) ==
  unread'[n] = <<>> /\ unread'[1 - n] = unread[1 - n] /\ wire' = wire
ErrorMoves(n) ==
  /\ mState[n] \in Testing /\ mSubState[n] = 98
  /\ Moves(n, "DONE", 0) /\ CloseMoves(n)
  /\ failed'[n] = mState[n] /\ failed'[1 - n] = failed[1 - n]
EndMoves(n) ==
  /\ mState[n] \in Testing /\ mSubState[n] = 99
  /\ Moves(n, After[mState[n]], 0) /\ CloseMoves(n)

(* A loop that does something does one of these. *)
LEMMA WorksMoves ==
  ASSUME TestTypes, testFaults = 0, testFaults' = 0, NEW n \in {0, 1}, Works(n)
  PROVE  \/ /\ failed' = failed
            /\ \/ WaitMoves(n) \/ OpenMoves(n) \/ SendMoves(n) \/ RecvMoves(n)
               \/ TimeoutMoves(n) \/ EndMoves(n)
         \/ ErrorMoves(n)
<1>1. ~Fails
  BY DEF Fails, TestTypes
<1>2. unread \in Link /\ wire \in Link
  BY DEF TestTypes, Link
<1>3. CASE WaitStart(n)
  BY <1>3, GoesMoves DEF WaitStart, WaitMoves, KeepSocket, KeepWire, At, Is, SameLinks
<1>4. CASE OpenSocket(n)
  <2>1. Step(n, IF n = Director THEN 1 ELSE 2) /\ KeepWire
    BY <1>1, <1>4 DEF OpenSocket
  <2>2. Moves(n, mState[n], IF n = 0 THEN 1 ELSE 2)
    BY <2>1, GoesMoves DEF Step, Director
  <2>3. unread'[n] = <<>> /\ unread'[1 - n] = unread[1 - n]
    <3>1. unread' = [unread EXCEPT ![n] = <<>>]
      BY <1>4 DEF OpenSocket
    <3> QED
      BY <1>2, <3>1, OtherIs, Testers DEF Link
  <2> QED
    BY <1>4, <2>1, <2>2, <2>3 DEF OpenSocket, OpenMoves, KeepWire, At
<1>5. CASE Send(n)
  <2>1. PICK k \in {1, 4, 5, 8} : mSubState[n] = k
    BY <1>5, SendsIs DEF Send
  <2>2. /\ Step(n, Sends[k].next)
        /\ wire' = [wire EXCEPT ![Other(n)] = Append(@, Sends[k].packet)]
        /\ UNCHANGED failed /\ unread' = unread /\ mState[n] \in Testing /\ ~Pauses(n)
    BY <1>1, <1>5, <2>1 DEF Send, KeepSocket
  <2>3. Moves(n, mState[n], Sends[k].next)
    BY <2>2, GoesMoves DEF Step
  <2>4. wire'[1 - n] = Append(wire[1 - n], Sends[k].packet) /\ wire'[n] = wire[n]
    <3>1. Other(n) = 1 - n /\ 1 - n \in {0, 1} /\ 1 - (1 - n) = n
      BY OtherIs
    <3>2. wire' = [wire EXCEPT ![1 - n] = Append(wire[1 - n], Sends[k].packet)]
      BY <2>2, <3>1
    <3>3. /\ wire'[1 - n] = Append(wire[1 - n], Sends[k].packet)
          /\ wire'[1 - (1 - n)] = wire[1 - (1 - n)]
      BY <1>2, <3>1, <3>2, OtherIs, Testers DEF Link
    <3> QED
      BY <3>1, <3>3
  <2> QED
    BY <2>1, <2>2, <2>3, <2>4 DEF SendMoves
<1>6. CASE Recv(n)
  <2>1. Moves(n, mState[n], Heard(mState[n], mSubState[n], Head(unread[n])))
    BY <1>6, GoesMoves DEF Recv, Step
  <2>2. unread'[n] = Tail(unread[n]) /\ unread'[1 - n] = unread[1 - n]
    <3>1. unread' = [unread EXCEPT ![n] = Tail(unread[n])]
      BY <1>6 DEF Recv
    <3> QED
      BY <1>2, <3>1, OtherIs, Testers DEF Link
  <2> QED
    BY <1>6, <2>1, <2>2 DEF Recv, RecvMoves, KeepWire
<1>7. CASE Timeout(n)
  BY <1>7, GoesMoves DEF Timeout, TimeoutMoves, Step, KeepSocket, KeepWire, SameLinks
<1>8. CASE EndWithError(n)
  <2>1. CloseMoves(n)
    <3>1. unread' = [unread EXCEPT ![n] = <<>>] /\ wire' = wire
      BY <1>8 DEF EndWithError, CloseResources, KeepWire
    <3> QED
      BY <1>2, <3>1, OtherIs, Testers DEF CloseMoves, Link
  <2>2. failed'[n] = mState[n] /\ failed'[1 - n] = failed[1 - n]
    <3>1. failed \in [{0, 1} -> State \cup {"none"}]
      BY Testers DEF TestTypes
    <3> QED
      BY <1>8, <3>1, OtherIs DEF EndWithError
  <2> QED
    BY <1>8, <2>1, <2>2, GoesMoves DEF EndWithError, ErrorMoves, At
<1>9. CASE EndPhase(n)
  <2>1. CloseMoves(n)
    <3>1. unread' = [unread EXCEPT ![n] = <<>>] /\ wire' = wire
      BY <1>9 DEF EndPhase, CloseResources, KeepWire
    <3> QED
      BY <1>2, <3>1, OtherIs, Testers DEF CloseMoves, Link
  <2> QED
    BY <1>9, <2>1, GoesMoves DEF EndPhase, EndMoves, At
<1> QED
  BY <1>3, <1>4, <1>5, <1>6, <1>7, <1>8, <1>9 DEF Works

(* No phase follows itself, and only the second one follows the first. *)
LEMMA Phases ==
  \A p \in Testing :
    /\ p # "WAIT_START" /\ p # "DONE" /\ After[p] # "WAIT_START" /\ After[p] # p
    /\ After[p] # "BROADCAST1" /\ After[p] \in Testing \cup {"DONE"}
    /\ (After[p] = "BROADCAST2") = (p = "BROADCAST1")
BY TestingIs, AfterIs

(* A node in one of these steps has something to do. *)
LEMMA BusyAt ==
  ASSUME NEW n \in {0, 1}, NEW p \in Testing
  PROVE  /\ Is(n, p, 0) \/ Is(n, p, 4) \/ Is(n, p, 5) \/ Is(n, p, 8) \/ Is(n, p, 99) => Busy(n)
         /\ \A k \in Waiting :
              Is(n, p, k) /\ p # "UNICAST2" /\ unread[n] # <<>> => Busy(n)
<1>1. p # "WAIT_START" /\ p # "DONE"
  BY Phases
<1>2. ASSUME NEW k \in {0, 4, 5, 8, 99}, Is(n, p, k) PROVE Busy(n)
  <2>1. mState[n] = p /\ mSubState[n] \notin Waiting /\ ~Pauses(n)
    BY <1>2 DEF Is, Waiting, Pauses
  <2> QED
    BY <1>1, <2>1 DEF Busy
<1>3. ASSUME NEW k \in Waiting, Is(n, p, k), p # "UNICAST2", unread[n] # <<>> PROVE Busy(n)
  <2>1. mState[n] = p /\ mState[n] \in Polled /\ ~Pauses(n)
    BY <1>3 DEF Is, Waiting, Pauses, Polled
  <2> QED
    BY <1>1, <1>3, <2>1 DEF Busy
<1> QED
  BY <1>2, <1>3

(* The clocks and the counters are numbers. *)
LEMMA Lasts ==
  ASSUME TestConstants, StartsClose, TestTypes
  PROVE  /\ mLastTime[0] \in Nat /\ mLastTime[1] \in Nat
         /\ lead[0] \in Nat /\ lead[1] \in Nat /\ skew \in Nat \ {0}
BY Testers, TestNumbers DEF TestTypes

(* wait_start() keeps the two nodes in one of the stages. *)
LEMMA WaitKeeps ==
  ASSUME TestConstants, StartsClose,
         TestTypes, Together, NEW n \in {0, 1}, WaitMoves(n), failed' = failed
  PROVE  Together'
<1>1. Begins
  BY Phases DEF Together, WaitMoves, Leaving, Greets, Talks, Early, Missed, Is
<1>2. Begins'
  <2> USE Testers, TestNumbers, Lasts DEF Begins, Punctual, WaitMoves, Moves, Stands, SameLinks, Is,
          Empty, Well, Clock
  <2>1. CASE n = 0
    <3>1. Is(0, "BROADCAST1", 0)' /\ mLastTime'[0] = 0 /\ Stands(1) /\ mState[0] = "WAIT_START"
      BY <2>1
    <3>2. mLastTime[0] = Start[0] + 1
      <4>1. mLastTime[0] > Start[0] /\ mLastTime[0] <= Start[0] + 1
        BY <1>1, <2>1
      <4> QED
        BY <4>1
    <3>3. Clock(1)' = Clock(1) /\ Clock(0)' = Start[0] + 1 /\ Clock(0) = mLastTime[0]
      BY <3>1
    <3>4. Clock(0)' = Clock(1)'
      BY <1>1, <3>2, <3>3
    <3> QED
      BY <1>1, <2>1, <3>1, <3>4
  <2>2. CASE n = 1
    <3>1. Is(1, "BROADCAST1", 0)' /\ mLastTime'[1] = 0 /\ Stands(0) /\ mState[1] = "WAIT_START"
      BY <2>2
    <3>2. mLastTime[1] = Start[1] + 1
      <4>1. mLastTime[1] > Start[1] /\ mLastTime[1] <= Start[1] + 1
        BY <1>1, <2>2
      <4> QED
        BY <4>1
    <3>3. Clock(0)' = Clock(0) /\ Clock(1)' = Start[1] + 1 /\ Clock(1) = mLastTime[1]
      BY <3>1
    <3>4. Clock(0)' = Clock(1)'
      BY <1>1, <3>2, <3>3
    <3> QED
      BY <1>1, <2>2, <3>1, <3>4
  <2> QED
    BY <2>1, <2>2
<1> QED
  BY <1>2 DEF Together

(* So does the opening of a socket, *)
LEMMA OpenKeeps ==
  ASSUME TestConstants, StartsClose,
         TestTypes, Together, NEW n \in {0, 1}, OpenMoves(n), Led(n), skew' = skew,
         failed' = failed
  PROVE  Together'
<1>1. CASE Begins
  <2>1. Begins'
    <3>1. Empty(0)' /\ Empty(1)' /\ Well'
      <4>1. CASE n = 0
        BY <1>1, <4>1 DEF Begins, OpenMoves, Empty, Well
      <4>2. CASE n = 1
        BY <1>1, <4>2 DEF Begins, OpenMoves, Empty, Well
      <4> QED
        BY <4>1, <4>2
    <3>2. CASE n = 0
      <4>1. Is(0, "BROADCAST1", 0) /\ mLastTime[0] = 0
        BY <1>1, <3>2, TestingIs DEF Begins, Punctual, OpenMoves, Is
      <4>2. Is(0, "BROADCAST1", 1)' /\ mLastTime'[0] = 0 /\ Stands(1)
        BY <3>2, <4>1 DEF OpenMoves, Moves, Is
      <4>3. Clock(0)' = Clock(0) /\ Clock(1)' = Clock(1)
        BY <4>1, <4>2 DEF Clock, Stands, Is
      <4>4. Punctual(0)' /\ Punctual(1)' /\ Clock(0)' = Clock(1)'
        BY <1>1, <4>2, <4>3 DEF Begins, Punctual, Is, Stands
      <4>5. mLastTime'[0] <= Pause + 1
        BY <4>2, TestNumbers
      <4> QED
        BY <1>1, <3>1, <4>2, <4>4, <4>5 DEF Begins, Is, Stands
    <3>3. CASE n = 1
      <4>1. Is(1, "BROADCAST1", 0) /\ mLastTime[1] = 0
        BY <1>1, <3>3, TestingIs DEF Begins, Punctual, OpenMoves, Is
      <4>2. Is(1, "BROADCAST1", 2)' /\ mLastTime'[1] = 0 /\ Stands(0)
        BY <3>3, <4>1 DEF OpenMoves, Moves, Is
      <4>3. Clock(0)' = Clock(0) /\ Clock(1)' = Clock(1)
        BY <4>1, <4>2 DEF Clock, Stands, Is
      <4>4. Punctual(0)' /\ Punctual(1)' /\ Clock(0)' = Clock(1)'
        BY <1>1, <4>2, <4>3 DEF Begins, Punctual, Is, Stands
      <4> QED
        BY <1>1, <3>1, <4>2, <4>4 DEF Begins, Is, Stands
    <3> QED
      BY <3>2, <3>3
  <2> QED
    BY <2>1 DEF Together
<1>2. ASSUME NEW p \in Testing, Leaving(p) PROVE Leaving(p)'
  <2> DEFINE q == After[p]
  <2>1. Well' /\ Empty(1)'
    <3>1. CASE n = 0
      BY <1>2, <3>1 DEF Leaving, OpenMoves, Empty, Well
    <3>2. CASE n = 1
      BY <1>2, <3>2 DEF Leaving, OpenMoves, Empty, Well
    <3> QED
      BY <3>1, <3>2
  <2>2. CASE n = 0
    <3>1. Is(0, q, 0) /\ Empty(0) /\ q # "DONE"
      BY <1>2, <2>2, TestingIs DEF Leaving, OpenMoves, Is
    <3>2. Is(0, q, 1)' /\ mLastTime'[0] = 0 /\ Stands(1) /\ Empty(0)'
      BY <2>2, <3>1 DEF OpenMoves, Moves, Is, Empty
    <3>3. mLastTime[0] = 0 /\ mLastTime[1] = 0
      BY <1>2, <3>1 DEF Leaving, Is
    <3>4. Ahead(p)'
      <4>1. lead[0] = 0 \/ skew # 1
        BY <2>2, Lasts DEF Led
      <4> QED
        BY <1>2, <3>1, <3>2, <4>1, Phases DEF Leaving, Ahead, Is, Stands
    <3> QED
      BY <1>2, <2>1, <3>1, <3>2, <3>3, <3>4, TestNumbers DEF Leaving, Is, Stands
  <2>3. CASE n = 1
    <3>1. Is(1, q, 0) /\ q # "DONE"
      BY <1>2, <2>3, TestingIs DEF Leaving, OpenMoves, Is
    <3>2. Is(1, q, 2)' /\ mLastTime'[1] = 0 /\ Stands(0)
      BY <2>3, <3>1 DEF OpenMoves, Moves, Is
    <3>3. mLastTime[0] = 0 /\ mLastTime[1] = 0
      BY <1>2, <3>1 DEF Leaving, Is
    <3>4. Ahead(p)'
      BY <3>2, Phases DEF Ahead, Is
    <3>5. unread'[0] = unread[0] /\ wire'[0] = wire[0]
      BY <2>3 DEF OpenMoves
    <3> QED
      BY <1>2, <2>1, <3>1, <3>2, <3>3, <3>4, <3>5, TestNumbers DEF Leaving, Is, Stands, Empty, Coming
  <2> QED
    BY <2>2, <2>3
<1>3. ASSUME NEW p \in Testing, Greets(p) \/ Talks(p) PROVE FALSE
  <2>1. CASE n = 0
    BY <1>3, <2>1 DEF Greets, Talks, Is, OpenMoves
  <2>2. CASE n = 1
    BY <1>3, <2>2 DEF Greets, Talks, Is, OpenMoves
  <2> QED
    BY <2>1, <2>2
<1>4. CASE Early
  <2>1. n = 1 /\ Is(1, "BROADCAST2", 0) /\ wire[1] = <<"HELLO">>
    BY <1>4 DEF Early, Is, OpenMoves, Coming
  <2>2. Greets("BROADCAST2")'
    <3>1. Is(0, "BROADCAST2", 3)' /\ Empty(0)' /\ mLastTime'[0] = 0 /\ Well'
      BY <1>4, <2>1 DEF Early, Is, OpenMoves, Moves, Stands, Empty, Well, Fresh
    <3>2. Is(1, "BROADCAST2", 2)' /\ Coming(1, "HELLO")' /\ mLastTime'[1] = 0
      BY <1>4, <2>1 DEF Early, Is, OpenMoves, Moves, Coming
    <3>3. 0 <= Patience("BROADCAST2", 2)
      BY TestNumbers DEF Patience
    <3> QED
      BY <3>1, <3>2, <3>3 DEF Greets
  <2> QED
    BY <2>2, TestingIs DEF Together
<1>5. CASE Missed
  <2>1. n = 1 /\ Is(1, "BROADCAST2", 0)
    BY <1>5, TestingIs DEF Missed, Is, OpenMoves
  <2>2. Missed'
    BY <1>5, <2>1 DEF Missed, Is, OpenMoves, Moves, Stands, Empty
  <2> QED
    BY <2>2 DEF Together
<1> QED
  BY <1>1, <1>2, <1>3, <1>4, <1>5 DEF Together

(* so does a packet that is sent (where the hello may be early), *)
LEMMA SendKeeps ==
  ASSUME TestConstants, StartsClose,
         TestTypes, Together, NEW n \in {0, 1}, SendMoves(n), Led(n), skew' = skew,
         failed' = failed
  PROVE  Together'
<1>1. PICK k \in {1, 4, 5, 8} :
        /\ mState[n] \in Testing /\ mSubState[n] = k /\ ~Pauses(n)
        /\ Moves(n, mState[n], Sends[k].next)
        /\ wire'[1 - n] = Append(wire[1 - n], Sends[k].packet) /\ wire'[n] = wire[n]
        /\ unread' = unread
  BY DEF SendMoves
<1>2. Sends[1].next = 3 /\ Sends[1].packet = "HELLO" /\ Sends[4].next = 6
      /\ Sends[4].packet = "REPLY" /\ Sends[5].next = 7 /\ Sends[5].packet = "BIG"
      /\ Sends[8].next = 99 /\ Sends[8].packet = "BIG"
  BY SendsIs
<1>3. Append(<<>>, "HELLO") = <<"HELLO">> /\ Append(<<>>, "REPLY") = <<"REPLY">>
      /\ Append(<<>>, "BIG") = <<"BIG">>
  OBVIOUS
<1>4. CASE Begins
  <2>1. n = 0 /\ k = 1 /\ Is(0, "BROADCAST1", 1) /\ mLastTime[0] = Pause + 1
    <3>1. n = 0 /\ k = 1 /\ Is(0, "BROADCAST1", 1)
      BY <1>1, <1>4 DEF Begins, Is
    <3>2. mLastTime[0] <= Pause + 1
      BY <1>4, <3>1 DEF Begins, Is
    <3>3. ~(mLastTime[0] <= Pause)
      BY <1>1, <3>1 DEF Is, Pauses
    <3> QED
      BY <3>1, <3>2, <3>3, Lasts, TestNumbers
  <2>2. Is(1, "BROADCAST1", 2) /\ mLastTime[1] <= Long
    BY <1>4, <2>1, Lasts, TestNumbers DEF Begins, Punctual, Is, Clock
  <2>3. /\ Is(0, "BROADCAST1", 3)' /\ mLastTime'[0] = 0 /\ Is(1, "BROADCAST1", 2)'
        /\ mLastTime'[1] <= Long
    BY <1>1, <1>2, <2>1, <2>2 DEF Moves, Stands, Is
  <2>4. Empty(0)' /\ Coming(1, "HELLO")' /\ Well'
    BY <1>1, <1>2, <1>3, <1>4, <2>1 DEF Begins, Empty, Coming, Well
  <2>5. Greets("BROADCAST1")'
    BY <2>3, <2>4 DEF Greets, Patience
  <2> QED
    BY <2>5, TestingIs DEF Together
<1>5. ASSUME NEW p \in Testing, Leaving(p) PROVE Together'
  <2> DEFINE q == After[p]
  <2>0. q \in Testing /\ n = 0 /\ k = 1 /\ Is(0, q, 1)
    BY <1>1, <1>5, Phases DEF Leaving, Is
  <2>1. /\ Is(0, q, 3)' /\ mLastTime'[0] = 0 /\ Stands(1)
        /\ Empty(0)' /\ unread'[1] = <<>> /\ wire'[1] = <<"HELLO">> /\ Well'
    BY <1>1, <1>2, <1>3, <1>5, <2>0, Phases DEF Leaving, Is, Moves, Empty, Coming, Well
  <2>2. CASE Is(1, q, 2)
    <3>1. mLastTime[1] <= Patience(q, 2)
      <4>1. mLastTime[1] <= Pause + 1 /\ Patience(q, 2) \in {Brief, Long}
        BY <1>5 DEF Leaving, Patience
      <4> QED
        BY <4>1, Lasts, TestNumbers
    <3>2. Greets(q)'
      BY <2>1, <2>2, <3>1 DEF Greets, Stands, Is, Coming
    <3> QED
      BY <2>0, <3>2 DEF Together
  <2>3. CASE ~Is(1, q, 2)
    <3>1. mLastTime[0] = 0 /\ mLastTime[1] = 0
      BY <1>5, <2>3 DEF Leaving
    <3>2. q = "BROADCAST2" /\ p = "BROADCAST1"
      BY <1>1, <1>5, <2>0, <3>1, Phases, TestNumbers, TestingIs DEF Pauses, Is
    <3>3. Is(1, p, 99) \/ Is(1, q, 0)
      BY <1>5, <2>3 DEF Leaving
    <3>4. skew # 1
      BY <1>5, <2>0, <3>2, <3>3 DEF Leaving, Ahead, Led, Is
    <3>5. skew' > 1
      BY <3>4, Lasts
    <3>6. Early'
      BY <2>1, <3>1, <3>2, <3>3, <3>5 DEF Early, Stands, Is, Fresh, Coming
    <3> QED
      BY <3>6 DEF Together
  <2> QED
    BY <2>2, <2>3
<1>6. ASSUME NEW p \in Testing, Greets(p) PROVE FALSE
  BY <1>1, <1>6 DEF Greets, Is
<1>7. ASSUME NEW p \in Testing, Talks(p) PROVE Together'
  <2>1. Fresh' /\ Well'
    <3>1. CASE n = 0
      BY <1>1, <1>7, <3>1 DEF Talks, Fresh, Well, Moves, Stands
    <3>2. CASE n = 1
      BY <1>1, <1>7, <3>2 DEF Talks, Fresh, Well, Moves, Stands
    <3> QED
      BY <3>1, <3>2
  <2>2. CASE k = 1
    BY <1>1, <1>7, <2>2 DEF Talks, Is
  <2>3. CASE k = 4
    <3>1. n = 1 /\ Is(0, p, 3) /\ Is(1, p, 4) /\ Empty(0) /\ Empty(1)
      BY <1>1, <1>7, <2>3 DEF Talks, Is
    <3>2. Is(0, p, 3)' /\ Is(1, p, 6)' /\ Coming(0, "REPLY")' /\ Empty(1)'
      BY <1>1, <1>2, <1>3, <2>3, <3>1 DEF Moves, Stands, Is, Empty, Coming
    <3> QED
      BY <2>1, <3>2 DEF Together, Talks
  <2>4. CASE k = 5
    <3>1. n = 0 /\ Is(0, p, 5) /\ Is(1, p, 6) /\ Empty(0) /\ Empty(1)
      BY <1>1, <1>7, <2>4 DEF Talks, Is
    <3>2. Is(0, p, 7)' /\ Is(1, p, 6)' /\ Coming(1, "BIG")' /\ Empty(0)'
      BY <1>1, <1>2, <1>3, <2>4, <3>1 DEF Moves, Stands, Is, Empty, Coming
    <3> QED
      BY <2>1, <3>2 DEF Together, Talks
  <2>5. CASE k = 8
    <3>1. n = 1 /\ Is(0, p, 7) /\ Is(1, p, 8) /\ Empty(0) /\ Empty(1)
      BY <1>1, <1>7, <2>5 DEF Talks, Is
    <3>2. Is(0, p, 7)' /\ Is(1, p, 99)' /\ Coming(0, "BIG")' /\ Empty(1)'
      BY <1>1, <1>2, <1>3, <2>5, <3>1 DEF Moves, Stands, Is, Empty, Coming
    <3>3. Leaving(p)'
      BY <2>1, <3>2, Phases, TestNumbers DEF Leaving, Ahead, Fresh, Is
    <3> QED
      BY <3>3 DEF Together
  <2> QED
    BY <2>2, <2>3, <2>4, <2>5
<1>8. CASE Early \/ Missed
  BY <1>1, <1>8 DEF Early, Missed, Is
<1> QED
  BY <1>4, <1>5, <1>6, <1>7, <1>8 DEF Together

(* A queue of one packet. *)
LEMMA WordIs ==
  /\ Head(<<"HELLO">>) = "HELLO" /\ Tail(<<"HELLO">>) = <<>> /\ <<"HELLO">> # <<>>
  /\ Head(<<"REPLY">>) = "REPLY" /\ Tail(<<"REPLY">>) = <<>> /\ <<"REPLY">> # <<>>
  /\ Head(<<"BIG">>) = "BIG" /\ Tail(<<"BIG">>) = <<>> /\ <<"BIG">> # <<>>
  /\ Append(<<>>, "HELLO") = <<"HELLO">> /\ Append(<<>>, "REPLY") = <<"REPLY">>
  /\ Append(<<>>, "BIG") = <<"BIG">>
OBVIOUS

(* The right packets. *)
LEMMA HeardIs ==
  \A s : /\ Heard(s, 2, "HELLO") = 4 /\ Heard(s, 3, "REPLY") = 5
         /\ Heard(s, 6, "BIG") = 8 /\ Heard(s, 7, "BIG") = 99
BY DEF Heard

(* Takes(n, v): node n takes the packet v it has been waiting for.         *)
Takes(n, v) ==
  /\ mState[n] \in Testing /\ mSubState[n] \in Waiting
  /\ Moves(n, mState[n], Heard(mState[n], mSubState[n], v))
  /\ unread'[1 - n] = unread[1 - n] /\ wire'[1 - n] = wire[1 - n]
  /\ Empty(n)'

(* What is on the way is one packet, as the stage has it. *)
LEMMA Carries ==
  ASSUME Together, NEW n \in {0, 1}, unread[n] # <<>> \/ wire[n] # <<>>
  PROVE  \E v \in TestPacket : Coming(n, v)
<1> USE DEF TestPacket
<1>1. CASE n = 0
  BY <1>1 DEF Together, Begins, Leaving, Greets, Talks, Early, Missed, Empty
<1>2. CASE n = 1
  BY <1>2 DEF Together, Begins, Leaving, Greets, Talks, Early, Missed, Empty
<1> QED
  BY <1>1, <1>2

(* There is no other one. *)
LEMMA OnePacket ==
  ASSUME NEW n, NEW v \in TestPacket, Coming(n, v)
  PROVE  ~Empty(n) /\ \A u \in TestPacket : Coming(n, u) => u = v
<1>1. \A u \in TestPacket : <<u>> # <<>> /\ Head(<<u>>) = u
  OBVIOUS
<1> QED
  BY <1>1 DEF Coming, Empty

(* Whoever takes a packet takes the one that the other sent.               *)
LEMMA TakesKeeps ==
  ASSUME TestConstants, StartsClose,
         TestTypes, Together, NEW n \in {0, 1}, NEW v \in TestPacket, Takes(n, v),
         Coming(n, v), skew' = skew, failed' = failed,
         n = 0 /\ mState[0] = "BROADCAST1" => lead'[0] # 0
  PROVE  Together'
<1>1. ~Empty(n) /\ \A u \in TestPacket : Coming(n, u) => u = v
  BY OnePacket
<1>2. ~Begins /\ ~Early /\ ~Missed
  <2>1. CASE n = 0
    BY <1>1, <2>1 DEF Begins, Early, Missed
  <2>2. CASE n = 1
    <3>1. mSubState[1] \in Waiting
      BY <2>2 DEF Takes
    <3>2. ~Early
      BY <3>1 DEF Early, Is, Waiting
    <3> QED
      BY <1>1, <2>2, <3>2 DEF Begins, Missed
  <2> QED
    BY <2>1, <2>2
<1>3. ASSUME NEW p \in Testing, Leaving(p) PROVE Leaving(p)'
  <2>1. n = 0
    BY <1>1, <1>3 DEF Leaving
  <2>2. Is(0, p, 7) /\ v = "BIG"
    BY <1>1, <1>3, <2>1 DEF Leaving, TestPacket
  <2>3. Is(0, p, 99)' /\ Empty(0)' /\ mLastTime'[0] = 0 /\ Stands(1)
    BY <2>1, <2>2, HeardIs DEF Takes, Moves, Is
  <2>4. mLastTime[0] = 0 /\ mLastTime[1] = 0
    BY <1>3, <2>2, Phases DEF Leaving, Is
  <2>5. Empty(1)' /\ Well'
    BY <1>3, <2>1 DEF Takes, Leaving, Empty, Well
  <2>6. Ahead(p)'
    BY <2>1, <2>2, <2>3 DEF Ahead, Is
  <2> QED
    BY <1>3, <2>3, <2>4, <2>5, <2>6, TestNumbers DEF Leaving, Is, Stands
<1>4. ASSUME NEW p \in Testing, Greets(p) PROVE Talks(p)'
  <2>1. n = 1
    BY <1>1, <1>4 DEF Greets
  <2>2. Is(1, p, 2) /\ v = "HELLO" /\ Is(0, p, 3) /\ Empty(0)
    BY <1>1, <1>4, <2>1 DEF Greets, TestPacket
  <2>3. Is(1, p, 4)' /\ Empty(1)' /\ mLastTime'[1] = 0 /\ Stands(0)
    BY <2>1, <2>2, HeardIs DEF Takes, Moves, Is
  <2>4. Empty(0)' /\ Well'
    BY <1>4, <2>1, <2>2 DEF Takes, Greets, Empty, Well
  <2> QED
    BY <1>4, <2>2, <2>3, <2>4 DEF Greets, Talks, Is, Stands, Fresh
<1>5. ASSUME NEW p \in Testing, Talks(p) PROVE Talks(p)'
  <2>1. CASE n = 0
    <3>1. Is(0, p, 3) /\ Is(1, p, 6) /\ v = "REPLY" /\ Empty(1)
      BY <1>1, <1>5, <2>1 DEF Talks, TestPacket
    <3>2. Is(0, p, 5)' /\ Empty(0)' /\ mLastTime'[0] = 0 /\ Stands(1)
      BY <2>1, <3>1, HeardIs DEF Takes, Moves, Is
    <3>3. Empty(1)' /\ Well'
      BY <1>5, <2>1, <3>1 DEF Takes, Talks, Empty, Well
    <3> QED
      BY <1>5, <3>1, <3>2, <3>3 DEF Talks, Is, Stands, Fresh
  <2>2. CASE n = 1
    <3>1. Is(0, p, 7) /\ Is(1, p, 6) /\ v = "BIG" /\ Empty(0)
      BY <1>1, <1>5, <2>2 DEF Talks, TestPacket
    <3>2. Is(1, p, 8)' /\ Empty(1)' /\ mLastTime'[1] = 0 /\ Stands(0)
      BY <2>2, <3>1, HeardIs DEF Takes, Moves, Is
    <3>3. Empty(0)' /\ Well'
      BY <1>5, <2>2, <3>1 DEF Takes, Talks, Empty, Well
    <3> QED
      BY <1>5, <3>1, <3>2, <3>3 DEF Talks, Is, Stands, Fresh
  <2> QED
    BY <2>1, <2>2
<1> QED
  BY <1>2, <1>3, <1>4, <1>5 DEF Together

(* So does a packet read from the socket. *)
LEMMA RecvKeeps ==
  ASSUME TestConstants, StartsClose,
         TestTypes, Together, NEW n \in {0, 1}, RecvMoves(n), Led(n), skew' = skew,
         failed' = failed
  PROVE  Together'
<1>1. PICK v \in TestPacket : Coming(n, v)
  BY Carries DEF RecvMoves
<1>2. unread[n] = <<v>> /\ wire[n] = <<>>
  BY <1>1 DEF RecvMoves, Coming
<1>3. Head(unread[n]) = v /\ Tail(unread[n]) = <<>>
  BY <1>2
<1>4. Takes(n, v)
  <2>1. wire' = wire /\ unread'[n] = <<>>
    BY <1>3 DEF RecvMoves
  <2> QED
    BY <1>2, <1>3, <2>1 DEF RecvMoves, Takes, Polled, Empty
<1>5. n = 0 => lead'[0] # 0
  BY Lasts DEF Led
<1> QED
  BY <1>1, <1>4, <1>5, TakesKeeps

(* Nobody but who has missed the hello runs out of patience.               *)
LEMMA TimeoutKeeps ==
  ASSUME TestConstants, StartsClose,
         TestTypes, Together, NEW n \in {0, 1}, TimeoutMoves(n), skew' = skew,
         failed' = failed
  PROVE  Together'
<1>1. \A s, k : Patience(s, k) \in Nat
  BY TestNumbers DEF Patience
<1>2. mLastTime[n] # 0
  BY <1>1, Lasts DEF TimeoutMoves, Overdue
<1>3. ASSUME Begins PROVE FALSE
  <2>1. n = 1 /\ Is(1, "BROADCAST1", 2)
    BY <1>3, TestingIs DEF Begins, TimeoutMoves, Is, Waiting
  <2>2. mLastTime[1] > Long
    BY <2>1 DEF TimeoutMoves, Overdue, Patience, Is
  <2>3. Clock(0) <= Start[0] + Pause + 2
    BY <1>3, Lasts, TestNumbers DEF Begins, Punctual, Clock, Is
  <2>4. Clock(1) = Start[1] + 1 + mLastTime[1]
    BY <2>1 DEF Clock, Is
  <2> QED
    BY <1>3, <2>2, <2>3, <2>4, Lasts, TestNumbers DEF Begins
<1>4. ASSUME NEW p \in Testing, Leaving(p) PROVE FALSE
  <2>1. Is(0, After[p], 1) /\ Is(1, After[p], 2) /\ mLastTime[1] <= Pause + 1
    BY <1>2, <1>4 DEF Leaving
  <2>2. n = 1
    BY <2>1 DEF TimeoutMoves, Is, Waiting
  <2>3. After[p] # "BROADCAST2"
    BY <1>2, <1>4, <2>2 DEF Leaving
  <2>4. Patience(After[p], 2) \in {Brief, Long}
    BY DEF Patience
  <2>5. mLastTime[1] > Patience(After[p], 2)
    BY <2>1, <2>2 DEF TimeoutMoves, Overdue, Is
  <2> QED
    BY <2>1, <2>4, <2>5, Lasts, TestNumbers
<1>5. ASSUME NEW p \in Testing, Greets(p) PROVE FALSE
  <2>1. n = 1 /\ Is(1, p, 2) /\ mLastTime[1] <= Patience(p, 2)
    BY <1>2, <1>5 DEF Greets
  <2> QED
    BY <1>1, <2>1, Lasts DEF TimeoutMoves, Overdue, Is
<1>6. ~Early /\ \A p \in Testing : ~Talks(p)
  BY <1>2 DEF Early, Talks, Fresh
<1>7. CASE Missed
  <2>1. CASE n = 0
    <3>1. Is(0, "BROADCAST2", 98)' /\ Stands(1)
      BY <1>7, <2>1, TestingIs DEF Missed, Is, TimeoutMoves, Moves, Waiting
    <3> QED
      BY <1>7, <3>1 DEF Together, Missed, Is, Stands, TimeoutMoves, SameLinks, Empty
  <2>2. CASE n = 1
    <3>1. Is(1, "BROADCAST2", 98)' /\ Stands(0)
      BY <1>7, <2>2, TestingIs DEF Missed, Is, TimeoutMoves, Moves, Waiting
    <3> QED
      BY <1>7, <3>1 DEF Together, Missed, Is, Stands, TimeoutMoves, SameLinks, Empty
  <2> QED
    BY <2>1, <2>2
<1> QED
  BY <1>3, <1>4, <1>5, <1>6, <1>7 DEF Together

(* Only who has missed the hello ends with an error. *)
LEMMA ErrorKeeps ==
  ASSUME TestTypes, Together, NEW n \in {0, 1}, ErrorMoves(n), skew' = skew
  PROVE  Together'
<1>1. Missed
  <2>1. mSubState[n] = 98
    BY DEF ErrorMoves
  <2>2. CASE n = 0
    BY <2>1, <2>2 DEF Together, Begins, Leaving, Greets, Talks, Early, Is
  <2>3. CASE n = 1
    BY <2>1, <2>3 DEF Together, Begins, Leaving, Greets, Talks, Early, Is
  <2> QED
    BY <2>2, <2>3
<1>2. CASE n = 0
  <2>1. Is(0, "BROADCAST2", 98) /\ Is(0, "DONE", 0)' /\ Stands(1)
    BY <1>1, <1>2 DEF Missed, Is, ErrorMoves, Moves
  <2>2. failed'[0] = "BROADCAST2" /\ failed'[1] = failed[1]
    BY <1>2, <2>1 DEF ErrorMoves, Is
  <2>3. Empty(0)' /\ Empty(1)'
    BY <1>1, <1>2 DEF Missed, Empty, ErrorMoves, CloseMoves
  <2> QED
    BY <1>1, <2>1, <2>2, <2>3 DEF Together, Missed, Is, Stands
<1>3. CASE n = 1
  <2>1. Is(1, "BROADCAST2", 98) /\ Is(1, "DONE", 0)' /\ Stands(0)
    BY <1>1, <1>3 DEF Missed, Is, ErrorMoves, Moves
  <2>2. failed'[1] = "BROADCAST2" /\ failed'[0] = failed[0]
    BY <1>3, <2>1 DEF ErrorMoves, Is
  <2>3. Empty(0)' /\ Empty(1)'
    BY <1>1, <1>3 DEF Missed, Empty, ErrorMoves, CloseMoves
  <2> QED
    BY <1>1, <2>1, <2>2, <2>3 DEF Together, Missed, Is, Stands
<1> QED
  BY <1>2, <1>3

(* Closing the socket keeps the stage: the packet lost with it is an early *)
(* hello.                                                                  *)
LEMMA EndKeeps ==
  ASSUME TestConstants, StartsClose,
         TestTypes, Together, NEW n \in {0, 1}, EndMoves(n), Led(n), skew' = skew,
         failed' = failed
  PROVE  Together'
<1>1. mSubState[n] = 99 /\ mState[n] \in Testing
  BY DEF EndMoves
<1>2. ~Begins
  <2>1. CASE n = 0
    BY <1>1, <2>1 DEF Begins, Is
  <2>2. CASE n = 1
    BY <1>1, <2>2 DEF Begins, Is
  <2> QED
    BY <2>1, <2>2
<1>3. ASSUME NEW p \in Testing PROVE ~Greets(p) /\ ~Talks(p)
  <2>1. CASE n = 0
    BY <1>1, <2>1 DEF Greets, Talks, Is
  <2>2. CASE n = 1
    BY <1>1, <2>2 DEF Greets, Talks, Is
  <2> QED
    BY <2>1, <2>2
<1>4. ASSUME NEW p \in Testing, Leaving(p) PROVE Leaving(p)'
  <2> DEFINE q == After[p]
  <2>1. Well' /\ Empty(1)'
    <3>1. CASE n = 0
      BY <1>4, <3>1 DEF Leaving, EndMoves, CloseMoves, Empty, Well
    <3>2. CASE n = 1
      BY <1>4, <3>2 DEF Leaving, EndMoves, CloseMoves, Empty, Well
    <3> QED
      BY <3>1, <3>2
  <2>2. CASE n = 0
    <3>1. Is(0, p, 99) /\ Empty(0)
      BY <1>1, <1>4, <2>2 DEF Leaving, Is
    <3>2. Is(0, q, 0)' /\ mLastTime'[0] = 0 /\ Stands(1) /\ Empty(0)'
      BY <2>2, <3>1 DEF EndMoves, CloseMoves, Moves, Is, Empty
    <3>3. mLastTime[0] = 0 /\ mLastTime[1] = 0
      BY <1>4, <3>1 DEF Leaving, Is
    <3>4. Ahead(p)'
      <4>1. (lead[0] = 0 \/ skew # 1) /\ lead'[0] # 0
        BY <2>2, Lasts DEF Led
      <4> QED
        BY <1>4, <3>1, <3>2, <4>1, Phases DEF Leaving, Ahead, Is, Stands
    <3> QED
      BY <1>4, <2>1, <3>1, <3>2, <3>3, <3>4, TestNumbers DEF Leaving, Is, Stands
  <2>3. CASE n = 1
    <3>1. Is(1, p, 99)
      BY <1>1, <1>4, <2>3 DEF Leaving, Is
    <3>2. Is(1, q, 0)' /\ mLastTime'[1] = 0 /\ Stands(0)
      BY <2>3, <3>1 DEF EndMoves, Moves, Is
    <3>3. mLastTime[0] = 0 /\ mLastTime[1] = 0
      BY <1>4, <3>1, Phases DEF Leaving, Is
    <3>4. Ahead(p)'
      BY <1>4, <3>1, <3>2, Phases DEF Leaving, Ahead, Is, Stands
    <3>5. unread'[0] = unread[0] /\ wire'[0] = wire[0]
      BY <2>3 DEF EndMoves, CloseMoves
    <3> QED
      BY <1>4, <2>1, <3>1, <3>2, <3>3, <3>4, <3>5, TestNumbers DEF Leaving, Is, Stands, Empty, Coming
  <2> QED
    BY <2>2, <2>3
<1>5. CASE Early
  <2>1. n = 1 /\ Is(1, "BROADCAST1", 99)
    BY <1>1, <1>5 DEF Early, Is
  <2>2. Is(1, "BROADCAST2", 0)' /\ mLastTime'[1] = 0 /\ Stands(0)
    BY <2>1, AfterIs DEF EndMoves, Moves, Is
  <2>3. unread'[1] = <<>> /\ unread'[0] = unread[0] /\ wire' = wire
    BY <2>1 DEF EndMoves, CloseMoves
  <2>4. CASE unread[1] = <<>>
    <3>1. Coming(1, "HELLO")' /\ unread'[1] = <<>>
      BY <1>5, <2>3, <2>4 DEF Early, Coming
    <3> QED
      BY <1>5, <2>2, <2>3, <3>1 DEF Together, Early, Is, Stands, Fresh, Well, Empty
  <2>5. CASE unread[1] # <<>>
    <3>1. wire[1] = <<>>
      BY <1>5, <2>5 DEF Early, Coming
    <3> QED
      BY <1>5, <2>2, <2>3, <3>1 DEF Together, Early, Missed, Is, Stands, Well, Empty
  <2> QED
    BY <2>4, <2>5
<1>6. CASE Missed
  <2>1. n = 1 /\ Is(1, "BROADCAST1", 99)
    BY <1>1, <1>6 DEF Missed, Is
  <2>2. Is(1, "BROADCAST2", 0)' /\ Stands(0)
    BY <2>1, AfterIs DEF EndMoves, Moves, Is
  <2>3. unread'[1] = <<>> /\ unread'[0] = unread[0] /\ wire' = wire
    BY <2>1 DEF EndMoves, CloseMoves
  <2> QED
    BY <1>6, <2>2, <2>3 DEF Together, Missed, Is, Stands, Empty
<1> QED
  BY <1>2, <1>3, <1>4, <1>5, <1>6 DEF Together

(* So does a loop that does nothing, for a node between two phases has     *)
(* something to do.                                                        *)
LEMMA IdleKeeps ==
  ASSUME TestTypes, Together, NEW n \in {0, 1}, ~Busy(n),
         lead' = [lead EXCEPT ![Other(n)] = 0],
         UNCHANGED <<mState, mSubState, mLastTime, unread, wire, skew, failed>>
  PROVE  Together'
<1>1. ASSUME NEW p \in Testing PROVE (Greets(p) => Greets(p)') /\ (Talks(p) => Talks(p)')
  BY DEF Greets, Talks, Is, Empty, Coming, Well, Fresh
<1>2. (Begins => Begins') /\ (Early => Early') /\ (Missed => Missed')
  BY DEF Begins, Early, Missed, Punctual, Clock, Is, Empty, Well, Fresh, Coming
<1>3. ASSUME NEW p \in Testing, Leaving(p) PROVE Leaving(p)'
  <2>1. Ahead(p)'
    <3>1. CASE n = 0
      <4>1. lead'[0] = lead[0]
        BY <3>1, Testers DEF TestTypes
      <4> QED
        BY <1>3, <4>1 DEF Leaving, Ahead, Is
    <3>2. CASE n = 1
      <4>1. ~Is(1, p, 99)
        BY <3>2, BusyAt
      <4>2. After[p] \in Testing => ~Is(1, After[p], 0)
        BY <3>2, BusyAt
      <4> QED
        BY <4>1, <4>2, AfterIs, TestingIs DEF Ahead, Is
    <3> QED
      BY <3>1, <3>2
  <2> QED
    BY <1>3, <2>1 DEF Leaving, Is, Empty, Coming, Well
<1> QED
  BY <1>1, <1>2, <1>3 DEF Together

(* So does a packet that arrives. *)
LEMMA ArriveKeeps ==
  ASSUME TestConstants, StartsClose,
         TestTypes, Opened, Together, NEW n \in {0, 1}, Arrive(n)
  PROVE  Together'
<1>1. PICK v \in TestPacket : Coming(n, v)
  BY Carries DEF Arrive
<1>2. unread[n] = <<>> /\ wire[n] = <<v>>
  BY <1>1 DEF Arrive, Coming
<1>3. wire'[n] = <<>> /\ wire'[1 - n] = wire[1 - n]
  <2>1. wire' = [wire EXCEPT ![n] = <<>>]
    <3>1. Tail(wire[n]) = <<>>
      BY <1>2
    <3> QED
      BY <3>1 DEF Arrive
  <2> QED
    BY <2>1, OtherIs, Testers DEF TestTypes
<1>4. UNCHANGED <<skew, lead, failed>>
  BY DEF Arrive
<1>5. Head(wire[n]) = v
  BY <1>2
<1>6. ~Empty(n) /\ \A u \in TestPacket : Coming(n, u) => u = v
  BY <1>1, OnePacket
<1>7. mSubState[n] = 0 => n = 1 /\ Early
  <2>1. CASE n = 0
    BY <1>6, <2>1 DEF Together, Begins, Leaving, Greets, Talks, Early, Missed, Is
  <2>2. CASE n = 1
    BY <1>6, <2>2 DEF Together, Begins, Leaving, Greets, Talks, Early, Missed, Is
  <2> QED
    BY <2>1, <2>2
<1>8. mSocket[n] = (mSubState[n] # 0)
  BY Testers DEF Opened
<1>9. CASE ~mSocket[n]
  <2>1. n = 1 /\ Early /\ Is(1, "BROADCAST2", 0)
    <3>1. mSubState[n] = 0
      BY <1>8, <1>9
    <3> QED
      BY <1>7, <3>1 DEF Early, Is
  <2>2. UNCHANGED <<mState, mSubState, unread>>
    BY <1>9 DEF Arrive, Stays
  <2>3. Empty(0)' /\ Empty(1)'
    BY <1>2, <1>3, <2>1, <2>2 DEF Early, Empty
  <2>4. Missed'
    BY <1>4, <2>1, <2>2, <2>3 DEF Early, Missed, Is, Well
  <2> QED
    BY <2>4 DEF Together
<1>10. CASE mSocket[n] /\ mState[n] # "UNICAST2"
  <2>1. unread'[n] = <<v>> /\ unread'[1 - n] = unread[1 - n]
    <3>1. unread' = [unread EXCEPT ![n] = <<v>>]
      <4>1. unread' = [unread EXCEPT ![n] = Append(unread[n], v)]
        BY <1>5, <1>10 DEF Arrive
      <4>2. Append(unread[n], v) = <<v>>
        BY <1>2
      <4> QED
        BY <4>1, <4>2
    <3> QED
      BY <3>1, OtherIs, Testers DEF TestTypes
  <2>2. UNCHANGED <<mState, mSubState, mLastTime>>
    BY <1>10 DEF Arrive, Stays
  <2>3. Coming(n, v)'
    BY <1>3, <1>10, <2>1, <2>2 DEF Coming
  <2>4. Empty(1 - n) => Empty(1 - n)'
    BY <1>3, <2>1 DEF Empty
  <2> USE <1>4, <1>6, <2>2, <2>3, <2>4 DEF TestPacket, Is, Well
  <2>5. CASE n = 0
    <3>1. ASSUME NEW p \in Testing, Leaving(p) PROVE Leaving(p)'
      BY <2>5, <3>1 DEF Leaving, Ahead
    <3>2. ASSUME NEW p \in Testing, Talks(p) PROVE Talks(p)'
      BY <2>5, <3>2 DEF Talks, Fresh
    <3> QED
      BY <2>5, <3>1, <3>2 DEF Together, Begins, Greets, Early, Missed
  <2>6. CASE n = 1
    <3>1. ASSUME NEW p \in Testing, Greets(p) PROVE Greets(p)'
      BY <2>6, <3>1 DEF Greets
    <3>2. ASSUME NEW p \in Testing, Talks(p) PROVE Talks(p)'
      BY <2>6, <3>2 DEF Talks, Fresh
    <3>3. ASSUME Early PROVE Early'
      <4>1. mSubState[1] # 0
        BY <1>8, <1>10, <2>6
      <4>2. Coming(1, "HELLO")' /\ Is(1, "BROADCAST1", 99)'
        BY <2>6, <3>3, <4>1 DEF Early
      <4> QED
        BY <2>6, <3>3, <4>2 DEF Early, Fresh
    <3> QED
      BY <2>6, <3>1, <3>2, <3>3 DEF Together, Begins, Leaving, Missed
  <2> QED
    BY <2>5, <2>6
<1>11. CASE mSocket[n] /\ mState[n] = "UNICAST2"
  <2>1. mSubState[n] \in Waiting
    <3> USE <1>6, <1>7, <1>8, <1>11 DEF Is, Waiting
    <3>1. CASE n = 0
      BY <3>1 DEF Together, Begins, Leaving, Greets, Talks, Early, Missed
    <3>2. CASE n = 1
      BY <3>2 DEF Together, Begins, Leaving, Greets, Talks, Early, Missed
    <3> QED
      BY <3>1, <3>2
  <2>2. /\ Step(n, Heard("UNICAST2", mSubState[n], v)) /\ unread' = unread
    BY <1>5, <1>11, <2>1 DEF Arrive
  <2>3. Moves(n, mState[n], Heard(mState[n], mSubState[n], v))
    BY <1>11, <2>2, GoesMoves DEF Step
  <2>4. Takes(n, v)
    BY <1>2, <1>3, <1>11, <2>1, <2>2, <2>3, TestingIs DEF Takes, Empty
  <2> QED
    BY <1>1, <1>4, <1>11, <2>4, TakesKeeps
<1> QED
  BY <1>9, <1>10, <1>11

(* Time passes only where both wait: in the first phase, where their       *)
(* clocks agree; in a pause of the director; and when the hello is lost.   *)
LEMMA TickKeeps ==
  ASSUME TestConstants, StartsClose,
         TestTypes, Together, TestTick
  PROVE  Together'
<1>1. /\ ~Busy(0) /\ ~Busy(1) /\ wire[0] = <<>> /\ wire[1] = <<>>
      /\ mState[0] # "DONE" \/ mState[1] # "DONE"
      /\ UNCHANGED <<mState, mSubState, skew, failed, unread, wire>>
  BY Testers DEF TestTick, KeepSocket, KeepWire
<1>2. /\ mLastTime'[0] = IF mState[0] = "DONE" THEN 0 ELSE Later(mLastTime[0])
      /\ mLastTime'[1] = IF mState[1] = "DONE" THEN 0 ELSE Later(mLastTime[1])
  BY Testers DEF TestTick
<1>3. ASSUME NEW p \in Testing, Talks(p) PROVE FALSE
  <2>1. Is(1, p, 4) \/ Is(1, p, 8) \/ Is(0, p, 5) \/ unread[0] # <<>> \/ unread[1] # <<>>
    BY <1>1, <1>3, WordIs DEF Talks, Coming
  <2>2. ~Is(1, p, 4) /\ ~Is(1, p, 8) /\ ~Is(0, p, 5)
    BY <1>1, BusyAt
  <2>3. CASE unread[0] # <<>>
    <3>1. Is(0, p, 3) /\ p # "UNICAST2"
      BY <1>3, <2>3 DEF Talks, Coming, Empty, Is
    <3> QED
      BY <1>1, <2>3, <3>1, BusyAt DEF Waiting
  <2>4. CASE unread[1] # <<>>
    <3>1. Is(1, p, 6) /\ p # "UNICAST2"
      BY <1>3, <2>4 DEF Talks, Coming, Empty, Is
    <3> QED
      BY <1>1, <2>4, <3>1, BusyAt DEF Waiting
  <2> QED
    BY <2>1, <2>2, <2>3, <2>4
<1>4. ASSUME NEW p \in Testing, Greets(p) PROVE FALSE
  <2>1. Is(1, p, 2) /\ unread[1] # <<>> /\ p # "UNICAST2"
    BY <1>1, <1>4, WordIs DEF Greets, Coming, Is
  <2>2. Busy(1)
    BY <2>1, BusyAt DEF Waiting
  <2> QED
    BY <1>1, <2>2
<1>5. ~Early
  BY <1>1, BusyAt, TestingIs DEF Early
<1>6. ASSUME Missed PROVE Missed'
  BY <1>1, <1>6 DEF Missed, Is, Empty
<1>7. ASSUME Begins PROVE Begins'
  <2>1. /\ Is(0, "WAIT_START", 0) => mLastTime[0] <= Start[0]
        /\ ~Is(0, "BROADCAST1", 0)
        /\ Is(0, "BROADCAST1", 1) => mLastTime[0] <= Pause
    <3>1. Is(0, "WAIT_START", 0) => mLastTime[0] <= Start[0]
      BY <1>1, Lasts, TestNumbers DEF Busy, Is
    <3>2. ~Is(0, "BROADCAST1", 0)
      BY <1>1 DEF Busy, Pauses, Is, Waiting
    <3>3. Is(0, "BROADCAST1", 1) => mLastTime[0] <= Pause
      BY <1>1 DEF Busy, Pauses, Is, Waiting
    <3> QED
      BY <3>1, <3>2, <3>3
  <2>2. /\ Is(1, "WAIT_START", 0) => mLastTime[1] <= Start[1]
        /\ ~Is(1, "BROADCAST1", 0)
        /\ Is(1, "BROADCAST1", 2) => mLastTime[1] <= Long
    <3>1. Is(1, "WAIT_START", 0) => mLastTime[1] <= Start[1]
      BY <1>1, Lasts, TestNumbers DEF Busy, Is
    <3>2. ~Is(1, "BROADCAST1", 0)
      BY <1>1 DEF Busy, Pauses, Is, Waiting
    <3>3. ASSUME Is(1, "BROADCAST1", 2) PROVE mLastTime[1] <= Long
      <4>1. ~Overdue(1)
        BY <1>1, <3>3 DEF Busy, Pauses, Is, Waiting
      <4>2. ~(mLastTime[1] > Long)
        BY <3>3, <4>1 DEF Overdue, Patience, Is
      <4> QED
        BY <4>2, Lasts, TestNumbers
    <3> QED
      BY <3>1, <3>2, <3>3
  <2>3. mLastTime'[0] = mLastTime[0] + 1 /\ mLastTime'[1] = mLastTime[1] + 1
    <3>1. mState[0] # "DONE" /\ mState[1] # "DONE"
      BY <1>7 DEF Begins, Is
    <3>2. mLastTime[0] <= Long /\ mLastTime[1] <= Long
      BY <1>7, <2>1, <2>2, Lasts, TestNumbers DEF Begins
    <3> QED
      BY <1>2, <3>1, <3>2 DEF Later
  <2>4. Clock(0)' = Clock(0) + 1 /\ Clock(1)' = Clock(1) + 1
    <3>1. Clock(0)' = Clock(0) + 1
      <4>1. CASE mState[0] = "WAIT_START"
        BY <1>1, <2>3, <4>1 DEF Clock
      <4>2. CASE mState[0] # "WAIT_START"
        <5>1. Clock(0) = Start[0] + 1 + mLastTime[0] /\ Clock(0)' = Start[0] + 1 + mLastTime'[0]
          BY <1>1, <4>2 DEF Clock
        <5> QED
          BY <2>3, <5>1, Lasts, TestNumbers
      <4> QED
        BY <4>1, <4>2
    <3>2. Clock(1)' = Clock(1) + 1
      <4>1. CASE mState[1] = "WAIT_START"
        BY <1>1, <2>3, <4>1 DEF Clock
      <4>2. CASE mState[1] # "WAIT_START"
        <5>1. Clock(1) = Start[1] + 1 + mLastTime[1] /\ Clock(1)' = Start[1] + 1 + mLastTime'[1]
          BY <1>1, <4>2 DEF Clock
        <5> QED
          BY <2>3, <5>1, Lasts, TestNumbers
      <4> QED
        BY <4>1, <4>2
    <3> QED
      BY <3>1, <3>2
  <2>5. Punctual(0)' /\ Punctual(1)'
    <3>1. ASSUME Is(0, "WAIT_START", 0)' PROVE mLastTime'[0] <= Start[0] + 1
      <4>1. mLastTime[0] <= Start[0]
        BY <1>1, <2>1, <3>1 DEF Is
      <4> QED
        BY <2>3, <4>1, Lasts, TestNumbers
    <3>2. ASSUME Is(1, "WAIT_START", 0)' PROVE mLastTime'[1] <= Start[1] + 1
      <4>1. mLastTime[1] <= Start[1]
        BY <1>1, <2>2, <3>2 DEF Is
      <4> QED
        BY <2>3, <4>1, Lasts, TestNumbers
    <3> QED
      BY <1>1, <2>1, <2>2, <3>1, <3>2 DEF Punctual, Is
  <2>6. ASSUME mSubState'[0] = 1 PROVE mLastTime'[0] <= Pause + 1
    <3>1. mLastTime[0] <= Pause
      BY <1>1, <1>7, <2>1, <2>6 DEF Begins, Is
    <3> QED
      BY <2>3, <3>1, Lasts, TestNumbers
  <2>7. Empty(0)' /\ Empty(1)' /\ Well'
    BY <1>1, <1>7 DEF Begins, Empty, Well
  <2>8. Clock(0)' = Clock(1)'
    BY <1>7, <2>4 DEF Begins
  <2> QED
    BY <1>1, <1>7, <2>5, <2>6, <2>7, <2>8 DEF Begins, Is
<1>8. ASSUME NEW p \in Testing, Leaving(p) PROVE Leaving(p)'
  <2> DEFINE q == After[p]
  <2>0. ~(Is(0, p, 7) /\ Coming(0, "BIG"))
    <3> SUFFICES ASSUME Is(0, p, 7), Coming(0, "BIG") PROVE FALSE
      OBVIOUS
    <3>1. unread[0] # <<>> /\ p # "UNICAST2"
      BY <1>1, WordIs DEF Coming, Is
    <3> QED
      BY <1>1, <3>1, BusyAt DEF Waiting
  <2>1. q \in Testing
    <3>1. ~Is(0, p, 99) /\ ~Is(1, p, 99)
      BY <1>1, BusyAt
    <3>2. ~(Is(0, p, 7) /\ Coming(0, "BIG"))
      BY <2>0
    <3>3. mState[0] = q /\ mState[1] = q
      BY <1>8, <3>1, <3>2 DEF Leaving, Is
    <3> QED
      BY <1>1, <3>3, Phases
  <2>2. ~Is(0, p, 99) /\ ~Is(1, p, 99) /\ ~Is(0, q, 0) /\ ~Is(1, q, 0)
        /\ ~(Is(0, p, 7) /\ Coming(0, "BIG"))
    <3>1. ~Is(0, p, 99) /\ ~Is(1, p, 99)
      BY <1>1, BusyAt
    <3>2. ~Is(0, q, 0) /\ ~Is(1, q, 0)
      BY <1>1, <2>1, BusyAt
    <3> QED
      BY <2>0, <3>1, <3>2
  <2>3. Is(0, q, 1) /\ Is(1, q, 2) /\ Empty(0) /\ Empty(1) /\ Well /\ q # "DONE"
    BY <1>8, <2>2 DEF Leaving
  <2>4. q # "BROADCAST2" /\ mLastTime[0] <= Pause
    BY <1>1, <2>1, <2>3, Phases, TestingIs DEF Busy, Pauses, Is, Waiting
  <2>5. mLastTime[1] = mLastTime[0]
    BY <1>8 DEF Leaving
  <2>6. mLastTime'[0] = mLastTime[0] + 1 /\ mLastTime'[1] = mLastTime[1] + 1
    BY <1>2, <2>3, <2>4, <2>5, Lasts, TestNumbers DEF Later, Is
  <2>7. Is(0, q, 1)' /\ Is(1, q, 2)' /\ Empty(0)' /\ Empty(1)' /\ Well'
    BY <1>1, <2>3 DEF Is, Empty, Well
  <2>8. Ahead(p)'
    BY <2>4, Phases DEF Ahead
  <2>9. mLastTime'[0] = mLastTime'[1] /\ mLastTime'[0] <= Pause + 1
    BY <2>4, <2>5, <2>6, Lasts, TestNumbers
  <2> QED
    BY <2>3, <2>4, <2>7, <2>8, <2>9 DEF Leaving
<1> QED
  BY <1>3, <1>4, <1>5, <1>6, <1>7, <1>8 DEF Together

(* Without a fault every step leads from stage to stage. *)
LEMMA TogetherKept ==
  ASSUME TestConstants, StartsClose,
         TestTypes, Opened, Together, testFaults = 0, testFaults' = 0, [TestNext]_testVars
  PROVE  Together'
<1>1. ASSUME NEW n \in {0, 1}, TestLoop(n) PROVE Together'
  <2>1. CASE lead[n] < skew /\ Works(n)
             /\ lead' = [lead EXCEPT ![n] = @ + 1, ![Other(n)] = 0]
    <3>1. Led(n)
      BY <2>1, LeadMoves
    <3>2. skew' = skew
      BY <1>1 DEF TestLoop
    <3> QED
      BY <2>1, <3>1, <3>2, WorksMoves, WaitKeeps, OpenKeeps, SendKeeps, RecvKeeps,
         TimeoutKeeps, EndKeeps, ErrorKeeps
  <2>2. CASE /\ ~Busy(n) /\ lead' = [lead EXCEPT ![Other(n)] = 0]
             /\ Stays(n) /\ KeepSocket /\ KeepWire /\ UNCHANGED failed
    BY <1>1, <2>2, IdleKeeps DEF TestLoop, Stays, KeepSocket, KeepWire
  <2> QED
    BY <1>1, <2>1, <2>2 DEF TestLoop
<1>2. ASSUME NEW n \in {0, 1}, Arrive(n) PROVE Together'
  BY <1>2, ArriveKeeps
<1>3. ASSUME NEW n \in {0, 1}, LoseTest(n) \/ RepeatTest(n) PROVE FALSE
  BY <1>3 DEF LoseTest, RepeatTest, Fails
<1>4. CASE TestTick
  BY <1>4, TickKeeps
<1>5. CASE UNCHANGED testVars
  <2>1. ASSUME NEW p \in Testing
        PROVE  (Leaving(p) => Leaving(p)') /\ (Greets(p) => Greets(p)') /\ (Talks(p) => Talks(p)')
    BY <1>5 DEF testVars, Leaving, Ahead, Greets, Talks, Is, Empty, Coming, Well, Fresh
  <2>2. (Begins => Begins') /\ (Early => Early') /\ (Missed => Missed')
    BY <1>5 DEF testVars, Begins, Early, Missed, Punctual, Clock, Is, Empty, Well, Fresh, Coming
  <2> QED
    BY <2>1, <2>2 DEF Together
<1> QED
  BY <1>1, <1>2, <1>3, <1>4, <1>5, Testers DEF TestNext

(* The self test passes on a mesh that delivers: on either node no phase   *)
(* ends in step 98, or only broadcast2() when one loop may be faster.      *)
THEOREM BothPassCorrect ==
  ASSUME TestConstants, StartsClose PROVE TestSpec => []BothPass
<1>1. TestInit => TestInv
  BY TypesInit
<1>2. TestInv /\ [TestNext]_testVars => TestInv'
  <2> SUFFICES ASSUME TestInv, [TestNext]_testVars PROVE TestInv'
    OBVIOUS
  <2>1. TestTypes'
    BY TypesKept DEF TestInv
  <2>2. ASSUME testFaults' = 0 PROVE Opened' /\ Together'
    <3>1. testFaults = 0
      <4>1. testFaults \in Nat /\ testFaults' \in {testFaults, testFaults + 1}
        BY DEF TestInv, TestTypes, TestNext, TestLoop, Works, WaitStart, OpenSocket, Send, Recv,
               Timeout, EndWithError, EndPhase, Arrive, LoseTest, RepeatTest, TestTick, Fails,
               KeepWire, testVars
      <4> QED
        BY <2>2, <4>1
    <3> QED
      BY <2>2, <3>1, OpenedKept, TogetherKept DEF TestInv
  <2> QED
    BY <2>1, <2>2 DEF TestInv
<1>3. TestInv => BothPass
  <2> SUFFICES ASSUME TestInv, testFaults = 0
               PROVE  \A n \in Tester :
                        failed[n] = "none" \/ (skew > 1 /\ failed[n] = "BROADCAST2")
    BY DEF BothPass
  <2>1. Well \/ Missed
    BY DEF TestInv, Together, Begins, Leaving, Greets, Talks, Early
  <2> QED
    BY <2>1, Testers DEF Well, Missed
<1> QED
  BY <1>1, <1>2, <1>3, PTL DEF TestSpec
-----------------------------------------------------------------------------
(* The audio pipeline.                                                     *)

-----------------------------------------------------------------------------
(* The invariant of the source.                                            *)

(* The numbers in s are those that follow from. *)
Run(s, from) ==
  /\ s \in Seq(Nat)
  /\ \A k \in 1 .. Len(s) : s[k] = from + k

(* Each piece begins where the one before it ends, and the last one ends   *)
(* with the last byte written.                                             *)
AfterCurrent == taken + Len(current)
AfterQueued == AfterCurrent + Len(queued)
AfterTrailing == AfterQueued + Len(item_trailing)
AfterSplice == AfterTrailing + Len(splice)

Order ==
  /\ written \in Nat /\ taken \in Nat /\ base \in Nat
  /\ base <= taken /\ written <= FileLength
  /\ Run(current, taken) /\ Run(queued, AfterCurrent)
  /\ Run(item_trailing, AfterQueued) /\ Run(splice, AfterTrailing)
  /\ Run(ring, AfterSplice) /\ AfterSplice + Len(ring) = written

(* A tail is part of the item, and there is none while a splice is kept.   *)
Held ==
  /\ HeldAsNeeded
  /\ acquired = <<>> => item_trailing = <<>>
  /\ item_trailing # <<>> => splice = <<>>

Space ==
  /\ head \in 0 .. RingSize - 1
  /\ acquired \in Seq(Nat) /\ Len(ring) + Len(acquired) <= RingSize
  /\ Len(splice) < Alignment /\ Len(item_trailing) < Alignment

SourceInv == Order /\ Held /\ Space /\ WholeFrames

-----------------------------------------------------------------------------
(* The invariant of the pipeline.                                          *)

Buffer == [data : Seq(Nat), start : Nat, size : Nat]

(* The bytes on their way to the ring follow what is written; none are on  *)
(* their way from a file.                                                  *)
Reading ==
  /\ reader \in {"idle", "READING", "FINISHED", "FAILED"}
  /\ input \in Buffer /\ Free(input) >= 0
  /\ silence \in 0 .. MaxSilence
  /\ Run(input.data, written) /\ Received <= FileLength
  /\ reader = "FINISHED" => ~client_ /\ written = FileLength
  /\ reader = "idle" \/ (reader = "READING" /\ ~client_) => input.data = <<>>

Control ==
  /\ decoder \in {"DECODING", "FINISHED", "FAILED"}
  /\ pc \in {"idle", "call", "flush", "fill", "codec"}
  /\ output \in Buffer /\ Free(output) >= 0
  /\ no_output_iterations \in 0 .. MaxIterations
  /\ pc \in {"flush", "fill", "codec"} => no_output_iterations < MaxIterations
  /\ potentially_failed_count_ \in Nat /\ glitches \in Nat
  /\ info \in BOOLEAN /\ audioEnd \in AudioEnds

(* The samples on their way to the sink.  Nothing is decoded before what   *)
(* was is with the sink.                                                   *)
Samples ==
  /\ played \in Nat /\ Run(output.data, played) /\ decoded = played + Len(output.data)
  /\ pc \in {"fill", "codec"} => output.data = <<>>

(* Whatever the codec has taken is header, a decoded or a lost frame, or   *)
(* inside it; with the last byte of the audio comes the last frame.        *)
Accounted == Header + lost + decoded

Accounting ==
  /\ lost \in Nat
  /\ IF info THEN /\ Accounted <= taken /\ Accounted <= audioEnd
                  /\ taken >= audioEnd => Accounted = audioEnd
             ELSE taken < Header /\ decoded = 0 /\ lost = 0
  /\ glitches = 0 => lost = 0

(* Without a glitch decode() takes no failure for one before the audio is  *)
(* over, except that of an output buffer too small for a frame, once.      *)
AudioOver == info /\ taken >= audioEnd

Ending ==
  /\ end_of_file_ => AudioOver
  /\ potentially_failed_count_ > 0 => output.data = <<>>
  /\ glitches = 0 => \/ potentially_failed_count_ = 0
                     \/ AudioOver
                     \/ potentially_failed_count_ = 1 /\ Free(output) >= Frame
  /\ decoder = "FINISHED" =>
       /\ pc = "call" /\ reader \in {"FINISHED", "FAILED"}
       /\ reader = "FINISHED" /\ glitches = 0 => played = audioEnd - Header

PipelineInv == SourceInv /\ Reading /\ Control /\ Samples /\ Accounting /\ Ending

-----------------------------------------------------------------------------
(* Pieces of the stream.                                                   *)

LEMMA RunEmpty ==
  ASSUME NEW from \in Nat
  PROVE  Run(<<>>, from) /\ Len(<<>>) = 0
BY EmptySeq DEF Run

LEMMA RunLen ==
  ASSUME NEW from \in Nat, NEW s, Run(s, from)
  PROVE  Len(s) \in Nat /\ (s = <<>> <=> Len(s) = 0)
BY EmptySeq, LenProperties DEF Run

LEMMA RunFirst ==
  ASSUME NEW from \in Nat, NEW s, Run(s, from), NEW n \in 0 .. Len(s)
  PROVE  Run(First(s, n), from) /\ Len(First(s, n)) = n
<1>1. Len(s) \in Nat /\ \A i \in 1 .. n : s[i] \in Nat
  BY ElementOfSeq, LenProperties DEF Run
<1>2. First(s, n) \in Seq(Nat) /\ Len(First(s, n)) = n
      /\ \A i \in 1 .. n : First(s, n)[i] = s[i]
  BY <1>1, SubSeqProperties DEF First
<1>3. \A i \in 1 .. n : s[i] = from + i
  BY <1>1 DEF Run
<1> HIDE DEF First
<1> QED
  BY <1>2, <1>3 DEF Run

LEMMA RunFrom ==
  ASSUME NEW from \in Nat, NEW s, Run(s, from), NEW n \in 0 .. Len(s)
  PROVE  Run(From(s, n), from + n) /\ Len(From(s, n)) = Len(s) - n
<1>1. Len(s) \in Nat /\ \A i \in n + 1 .. Len(s) : s[i] \in Nat
  BY ElementOfSeq, LenProperties DEF Run
<1>2. From(s, n) \in Seq(Nat) /\ Len(From(s, n)) = Len(s) - n
      /\ \A i \in 1 .. Len(s) - n : From(s, n)[i] = s[n + i]
  <2> DEFINE a == n + 1  z == Len(s)  p == SubSeq(s, a, z)
  <2>1. a \in Int /\ z \in Int /\ a <= z + 1 /\ \A i \in a .. z : s[i] \in Nat
    BY <1>1
  <2> HIDE DEF a, z
  <2>2. /\ p \in Seq(Nat)
        /\ Len(p) = IF a <= z THEN z - a + 1 ELSE 0
        /\ \A i \in 1 .. z - a + 1 : p[i] = s[a + i - 1]
    BY <2>1, SubSeqProperties
  <2>3. From(s, n) = p
    BY DEF From, a, z
  <2> HIDE DEF p
  <2>4. Len(p) = z - n /\ \A i \in 1 .. z - n : p[i] = s[n + i]
    BY <1>1, <2>1, <2>2 DEF a, z
  <2> QED
    BY <2>2, <2>3, <2>4 DEF z
<1> QED
  BY <1>1, <1>2 DEF Run

LEMMA RunConcat ==
  ASSUME NEW from \in Nat, NEW s, NEW t, Run(s, from), Run(t, from + Len(s))
  PROVE  Run(s \o t, from) /\ Len(s \o t) = Len(s) + Len(t)
<1>1. Len(s) \in Nat /\ Len(t) \in Nat
  BY LenProperties DEF Run
<1>2. /\ s \o t \in Seq(Nat) /\ Len(s \o t) = Len(s) + Len(t)
      /\ \A i \in 1 .. Len(s) + Len(t) :
           (s \o t)[i] = IF i <= Len(s) THEN s[i] ELSE t[i - Len(s)]
  BY ConcatProperties DEF Run
<1> QED
  BY <1>1, <1>2 DEF Run

LEMMA RunBytes ==
  ASSUME NEW from \in Nat, NEW n \in Nat
  PROVE  Run(Bytes(from, n), from) /\ Len(Bytes(from, n)) = n
<1>1. Bytes(from, n) \in [1 .. n -> Nat]
  BY DEF Bytes
<1>2. Bytes(from, n) \in Seq(Nat) /\ Len(Bytes(from, n)) = n
  BY <1>1, IsASeq, LenProperties DEF Bytes
<1> QED
  BY <1>2 DEF Run, Bytes

LEMMA RunIs ==
  ASSUME NEW from \in Nat, NEW s, Run(s, from)
  PROVE  s = Bytes(from, Len(s))
<1>1. Len(s) \in Nat /\ s \in [1 .. Len(s) -> Nat]
  BY LenProperties DEF Run
<1>2. Bytes(from, Len(s)) \in [1 .. Len(s) -> Nat]
  BY <1>1 DEF Bytes
<1>3. \A k \in 1 .. Len(s) : s[k] = Bytes(from, Len(s))[k]
  BY DEF Run, Bytes
<1> QED
  BY <1>1, <1>2, <1>3

-----------------------------------------------------------------------------
(* Whole frames.                                                           *)

LEMMA AudioSizes ==
  /\ RingSize \in Nat /\ MaxFill \in Nat /\ Alignment \in Nat /\ FileLength \in Nat
  /\ RingSize > 0 /\ MaxFill > 0 /\ Alignment > 0 /\ FileLength > 0
BY SourceAssumption DEF SourceConstants

LEMMA Multiple ==
  ASSUME NEW k \in Int
  PROVE  (Alignment * k) % Alignment = 0
<1> DEFINE A == Alignment  r == (A * k) % A  q == (A * k) \div A
<1>1. A \in Nat /\ A > 0 /\ A * k \in Int
  BY AudioSizes
<1>2. A * k = A * q + r /\ r \in 0 .. A - 1 /\ q \in Int
  BY <1>1
<1>3. A * (k - q) = r
  <2>1. A * (k - q) = A * k - A * q
    BY <1>1, <1>2
  <2>2. A * q \in Int /\ r \in Int
    BY <1>1, <1>2
  <2> QED
    BY <1>1, <1>2, <2>1, <2>2
<1>4. CASE k - q >= 1
  <2>1. A * (k - q) >= A
    BY <1>1, <1>2, <1>4
  <2> QED
    BY <1>1, <1>2, <1>3, <2>1
<1>5. CASE k - q <= -1
  <2>1. A * (k - q) <= -A
    BY <1>1, <1>2, <1>5
  <2> QED
    BY <1>1, <1>2, <1>3, <2>1
<1>6. CASE k - q = 0
  BY <1>1, <1>3, <1>6
<1> QED
  BY <1>2, <1>4, <1>5, <1>6

LEMMA Division ==
  ASSUME NEW x \in Int, NEW A \in Nat \ {0}
  PROVE  /\ x = A * (x \div A) + (x % A)
         /\ x % A \in 0 .. A - 1 /\ x \div A \in Int
<1>1. x = A * (x \div A) + (x % A)
  OBVIOUS
<1>2. x % A \in 0 .. A - 1
  OBVIOUS
<1>3. x \div A \in Int
  OBVIOUS
<1> QED
  BY <1>1, <1>2, <1>3

LEMMA WholeIs ==
  ASSUME NEW x \in Int, x % Alignment = 0
  PROVE  \E k \in Int : x = Alignment * k
<1> DEFINE q == x \div Alignment  y == Alignment * q
<1>1. x = y + (x % Alignment) /\ q \in Int
  BY AudioSizes, Division
<1>2. y \in Int
  BY <1>1, AudioSizes
<1> HIDE DEF y, q
<1>3. x = y
  BY <1>1, <1>2
<1> QED
  BY <1>1, <1>3 DEF y

LEMMA WholeSum ==
  ASSUME NEW x \in Int, NEW y \in Int, x % Alignment = 0, y % Alignment = 0
  PROVE  (x + y) % Alignment = 0
<1>1. PICK k \in Int : x = Alignment * k
  BY WholeIs
<1>2. PICK l \in Int : y = Alignment * l
  BY WholeIs
<1>3. x + y = Alignment * (k + l) /\ k + l \in Int
  BY <1>1, <1>2, AudioSizes
<1> QED
  BY <1>3, Multiple

LEMMA WholeBasics ==
  /\ 0 % Alignment = 0 /\ Alignment % Alignment = 0
  /\ \A x \in Nat : /\ (x - (x % Alignment)) % Alignment = 0
                    /\ x % Alignment \in Nat /\ x % Alignment < Alignment
                    /\ x - (x % Alignment) \in Nat
<1>1. 0 = Alignment * 0 /\ Alignment = Alignment * 1
  BY AudioSizes
<1>2. 0 % Alignment = 0 /\ Alignment % Alignment = 0
  BY <1>1, Multiple
<1>3. ASSUME NEW x \in Nat
      PROVE  /\ (x - (x % Alignment)) % Alignment = 0
             /\ x % Alignment \in Nat /\ x % Alignment < Alignment
             /\ x - (x % Alignment) \in Nat
  <2> DEFINE q == x \div Alignment  y == Alignment * q  z == x % Alignment
  <2>1. x = y + z /\ q \in Int /\ z \in 0 .. Alignment - 1
    BY AudioSizes, Division
  <2>2. (q <= -1 => y <= -Alignment) /\ (q >= 0 => y >= 0) /\ y \in Int
    BY <2>1, AudioSizes
  <2> HIDE DEF q, y, z
  <2>3. q >= 0 /\ y \in Nat /\ z \in Nat /\ z < Alignment /\ x - z = y
    BY <2>1, <2>2, AudioSizes
  <2>4. y % Alignment = 0
    BY <2>1, Multiple DEF y
  <2> QED
    BY <2>3, <2>4 DEF z
<1> QED
  BY <1>2, <1>3

-----------------------------------------------------------------------------
(* The steps of the source.                                                *)

(* The lengths of its pieces, and where they begin. *)
LEMMA Lengths ==
  ASSUME Order
  PROVE  /\ Len(current) \in Nat /\ Len(queued) \in Nat /\ Len(item_trailing) \in Nat
         /\ Len(splice) \in Nat /\ Len(ring) \in Nat
         /\ written \in Nat /\ taken \in Nat /\ base \in Nat
         /\ AfterCurrent \in Nat /\ AfterQueued \in Nat /\ AfterTrailing \in Nat
         /\ AfterSplice \in Nat
         /\ AfterCurrent = taken + Len(current) /\ AfterQueued = AfterCurrent + Len(queued)
         /\ AfterTrailing = AfterQueued + Len(item_trailing)
         /\ AfterSplice = AfterTrailing + Len(splice)
         /\ (current = <<>> <=> Len(current) = 0) /\ (queued = <<>> <=> Len(queued) = 0)
         /\ (item_trailing = <<>> <=> Len(item_trailing) = 0)
         /\ (splice = <<>> <=> Len(splice) = 0) /\ (ring = <<>> <=> Len(ring) = 0)
<1>1. Len(current) \in Nat /\ (current = <<>> <=> Len(current) = 0)
  BY RunLen DEF Order
<1>2. Len(queued) \in Nat /\ (queued = <<>> <=> Len(queued) = 0) /\ AfterCurrent \in Nat
  BY <1>1, RunLen DEF Order, AfterCurrent
<1>3. Len(item_trailing) \in Nat /\ (item_trailing = <<>> <=> Len(item_trailing) = 0)
      /\ AfterQueued \in Nat
  BY <1>2, RunLen DEF Order, AfterQueued
<1>4. Len(splice) \in Nat /\ (splice = <<>> <=> Len(splice) = 0) /\ AfterTrailing \in Nat
  BY <1>3, RunLen DEF Order, AfterTrailing
<1>5. Len(ring) \in Nat /\ (ring = <<>> <=> Len(ring) = 0) /\ AfterSplice \in Nat
  BY <1>4, RunLen DEF Order, AfterSplice
<1> QED
  BY <1>1, <1>2, <1>3, <1>4, <1>5 DEF Order, AfterCurrent, AfterQueued, AfterTrailing, AfterSplice

LEMMA SourceInitKeeps == SourceInit => SourceInv
<1> SUFFICES ASSUME SourceInit PROVE SourceInv
  OBVIOUS
<1>0. Run(<<>>, 0) /\ Len(<<>>) = 0
  BY RunEmpty
<1>1. AfterCurrent = 0 /\ AfterQueued = 0 /\ AfterTrailing = 0 /\ AfterSplice = 0
  BY <1>0 DEF SourceInit, AfterCurrent, AfterQueued, AfterTrailing, AfterSplice
<1>2. Order
  BY <1>0, <1>1, AudioSizes DEF SourceInit, Order
<1>3. Held
  BY DEF SourceInit, Held, HeldAsNeeded, NothingDepends
<1>4. Space
  BY <1>0, EmptySeq, AudioSizes DEF SourceInit, Space
<1>5. WholeFrames
  BY <1>0, WholeBasics DEF SourceInit, WholeFrames
<1> QED
  BY <1>2, <1>3, <1>4, <1>5 DEF SourceInv

LEMMA WriteKeeps ==
  ASSUME SourceInv, NEW bytes, Run(bytes, written), written + Len(bytes) <= FileLength,
         WriteRing(bytes)
  PROVE  SourceInv' /\ written' = written + Len(bytes) /\ taken' = taken /\ current' = current
<1>0. Order
  BY DEF SourceInv
<1>1. Len(bytes) \in Nat
  BY <1>0, RunLen, Lengths
<1>2. Run(ring \o bytes, AfterSplice) /\ Len(ring \o bytes) = Len(ring) + Len(bytes)
  BY <1>0, RunConcat, Lengths DEF Order
<1>3. UNCHANGED <<AfterCurrent, AfterQueued, AfterTrailing, AfterSplice>>
  BY DEF WriteRing, AfterCurrent, AfterQueued, AfterTrailing, AfterSplice
<1>4. Order'
  <2>1. /\ ring' = ring \o bytes /\ written' = written + Len(bytes)
        /\ UNCHANGED <<current, queued, item_trailing, splice, taken, base>>
    BY DEF WriteRing
  <2>5. Len(ring') = Len(ring) + Len(bytes) /\ AfterSplice + Len(ring) = written
        /\ AfterSplice \in Nat /\ Len(ring) \in Nat
    BY <1>0, <1>2, <2>1, Lengths DEF Order
  <2>2. AfterSplice' + Len(ring') = written'
    BY <1>1, <1>3, <2>1, <2>5
  <2>3. Run(ring', AfterSplice')
    BY <1>2, <1>3, <2>1
  <2>4. written' \in Nat /\ written' <= FileLength
    <3>1. written \in Nat
      BY <1>0, Lengths
    <3> QED
      BY <1>1, <2>1, <3>1, AudioSizes
  <2> QED
    BY <1>0, <1>3, <2>1, <2>2, <2>3, <2>4 DEF Order
<1>5. Held'
  BY DEF SourceInv, WriteRing, Held, HeldAsNeeded, NothingDepends
<1>6. Space'
  <2>1. Len(acquired) \in Nat
    BY LenProperties DEF SourceInv, Space
  <2> QED
    BY <1>0, <1>1, <1>2, <2>1, Lengths, AudioSizes DEF SourceInv, WriteRing, RingFree, Space
<1>7. WholeFrames'
  BY DEF SourceInv, WriteRing, WholeFrames
<1> QED
  BY <1>4, <1>5, <1>6, <1>7 DEF SourceInv, WriteRing

LEMMA ConsumeKeeps ==
  ASSUME SourceInv, NEW n, Consume(n)
  PROVE  /\ SourceInv' /\ written' = written /\ taken' = taken + n
         /\ n \in Nat /\ n > 0 /\ n <= Len(current)
         /\ current' # current
<1>0. Order /\ Held /\ Space /\ WholeFrames
  BY DEF SourceInv
<1>1. n \in Nat /\ n > 0 /\ n <= Len(current) /\ n \in 1 .. Len(current) /\ n \in 0 .. Len(current)
  BY <1>0, Lengths DEF Consume
<1>2. taken' = taken + n
  BY <1>0, <1>1 DEF Consume, Order, Run
<1>3. Run(current', taken') /\ Len(current') = Len(current) - n
  <2>1. current' = From(current, n)
    BY DEF Consume
  <2>2. Run(current, taken) /\ taken \in Nat
    BY <1>0 DEF Order
  <2> QED
    BY <1>1, <1>2, <2>1, <2>2, RunFrom
<1>4. /\ AfterCurrent' = AfterCurrent /\ AfterQueued' = AfterQueued
      /\ queued' = queued /\ ring' = ring /\ written' = written /\ base' = base /\ head' = head
  <2>1. queued' = queued /\ ring' = ring /\ written' = written /\ base' = base /\ head' = head
    BY DEF Consume
  <2>2. AfterCurrent' = AfterCurrent
    BY SMTT(30), <1>0, <1>1, <1>2, <1>3, Lengths DEF AfterCurrent
  <2> QED
    BY <2>1, <2>2 DEF AfterQueued
<1>5. acquired # <<>>
  BY <1>0, <1>1, Lengths DEF Held, HeldAsNeeded, NothingDepends
<1>6. ASSUME NothingDepends(current', queued)
      PROVE  Order' /\ Held' /\ Space'
  <2>1. /\ acquired' = <<>> /\ item_trailing' = <<>>
        /\ splice' = IF item_trailing # <<>> THEN item_trailing ELSE splice
    BY <1>5, <1>6 DEF Consume, SpliceAfter
  <2>2. AfterTrailing' = AfterQueued
    BY <1>0, <1>4, <2>1, Lengths, EmptySeq DEF AfterTrailing
  <2>3. Run(item_trailing', AfterQueued)
    BY <1>0, <2>1, RunEmpty, Lengths
  <2>4. Run(splice', AfterTrailing') /\ Len(splice') = Len(item_trailing) + Len(splice)
    <3>1. CASE item_trailing # <<>>
      BY <1>0, <2>1, <2>2, <3>1, Lengths DEF Order, Held
    <3>2. CASE item_trailing = <<>>
      BY <1>0, <2>1, <2>2, <3>2, Lengths DEF Order, Held
    <3> QED
      BY <3>1, <3>2
  <2>5. AfterSplice' = AfterSplice
    <3>1. AfterSplice' = AfterQueued + Len(splice')
      BY <2>2 DEF AfterSplice
    <3>2. AfterSplice = (AfterQueued + Len(item_trailing)) + Len(splice)
      BY DEF AfterSplice, AfterTrailing
    <3>3. AfterQueued \in Nat /\ Len(item_trailing) \in Nat /\ Len(splice) \in Nat
      BY <1>0, Lengths
    <3> QED
      BY <2>4, <3>1, <3>2, <3>3
  <2>6. Order'
    BY <1>0, <1>1, <1>2, <1>3, <1>4, <2>2, <2>3, <2>4, <2>5, Lengths DEF Order
  <2>7. Held'
    BY <1>4, <1>6, <2>1 DEF Held, HeldAsNeeded, NothingDepends
  <2>8. Space'
    <3>1. Len(acquired) \in Nat
      BY <1>0, LenProperties DEF Space
    <3>2. acquired' \in Seq(Nat) /\ Len(acquired') = 0 /\ Len(item_trailing') = 0
      BY <2>1, EmptySeq
    <3>3. splice' \in {item_trailing, splice}
      BY <2>1
    <3>4. Len(ring') + Len(acquired') <= RingSize
      BY <1>0, <1>4, <3>1, <3>2, Lengths, AudioSizes DEF Space
    <3> QED
      BY <1>0, <1>4, <3>2, <3>3, <3>4, AudioSizes DEF Space
  <2> QED
    BY <2>6, <2>7, <2>8
<1>7. ASSUME ~NothingDepends(current', queued)
      PROVE  Order' /\ Held' /\ Space'
  <2>1. UNCHANGED <<acquired, item_trailing, splice, inSplice>>
    BY <1>7 DEF Consume
  <2>2. AfterTrailing' = AfterTrailing /\ AfterSplice' = AfterSplice
    BY <1>4, <2>1 DEF AfterTrailing, AfterSplice
  <2>3. Order'
    BY <1>0, <1>1, <1>2, <1>3, <1>4, <2>1, <2>2, Lengths DEF Order
  <2>4. Held'
    BY <1>0, <1>1, <1>4, <1>5, <1>7, <2>1, Lengths DEF Held, HeldAsNeeded, NothingDepends
  <2>5. Space'
    BY <1>0, <1>4, <2>1 DEF Space
  <2> QED
    BY <2>3, <2>4, <2>5
<1>8. WholeFrames'
  <2>1. taken' - base' + Len(current') = taken - base + Len(current)
    <3>1. taken \in Nat /\ base \in Nat /\ Len(current) \in Nat
      BY <1>0, Lengths
    <3> QED
      BY <1>1, <1>2, <1>3, <1>4, <3>1
  <2> QED
    BY <1>0, <1>4, <2>1 DEF WholeFrames
<1>9. current' # current
  BY <1>0, <1>1, <1>3, Lengths
<1> QED
  BY <1>1, <1>2, <1>4, <1>6, <1>7, <1>8, <1>9 DEF SourceInv

LEMMA FillQueuedKeeps == ASSUME SourceInv, FillQueued PROVE SourceInv'
<1>0. Order /\ Held /\ Space /\ WholeFrames
  BY DEF SourceInv
<1>1. /\ current = <<>> /\ queued # <<>> /\ current' = queued /\ inSplice' = FALSE
      /\ queued' = <<>>
      /\ UNCHANGED <<ring, head, written, acquired, item_trailing, splice, taken, base>>
  BY DEF FillQueued
<1>2. Len(current) = 0 /\ Len(queued') = 0 /\ AfterCurrent = taken
  BY <1>0, <1>1, Lengths, EmptySeq
<1>3. AfterCurrent' = AfterQueued /\ AfterQueued' = AfterQueued
      /\ AfterTrailing' = AfterTrailing /\ AfterSplice' = AfterSplice
  BY SMTT(30), <1>0, <1>1, <1>2, Lengths DEF AfterCurrent, AfterQueued, AfterTrailing, AfterSplice
<1>4. Run(queued', AfterQueued)
  BY <1>0, <1>1, RunEmpty, Lengths
<1>5. Order'
  BY <1>0, <1>1, <1>2, <1>3, <1>4, Lengths DEF Order
<1>6. Held'
  BY <1>0, <1>1 DEF Held, HeldAsNeeded, NothingDepends
<1>7. Space'
  BY <1>0, <1>1 DEF Space
<1>8. WholeFrames'
  <2>1. (taken - base) % Alignment = 0
    <3>1. taken - base + Len(current) = taken - base
      BY <1>0, <1>2, Lengths
    <3> QED
      BY <1>0, <3>1 DEF WholeFrames
  <2>2. (taken - base + Len(queued)) % Alignment = 0
    <3>1. taken - base \in Int /\ Len(queued) \in Int /\ Len(queued) % Alignment = 0
      BY <1>0, Lengths DEF WholeFrames
    <3> QED
      BY <2>1, <3>1, WholeSum
  <2> QED
    BY <1>1, <1>2, <2>2, WholeBasics DEF WholeFrames
<1> QED
  BY <1>5, <1>6, <1>7, <1>8 DEF SourceInv

LEMMA FillChunkKeeps == ASSUME SourceInv, FillChunk PROVE SourceInv'
<1>0. Order /\ Held /\ Space /\ WholeFrames
  BY DEF SourceInv
<1>1. /\ current = <<>> /\ queued = <<>> /\ ring # <<>>
      /\ UNCHANGED <<written, taken, base>>
  BY DEF FillChunk
<1>2. acquired = <<>> /\ item_trailing = <<>>
  BY <1>0, <1>1 DEF Held, HeldAsNeeded, NothingDepends
<1> DEFINE k == ChunkLength
           chunk == First(ring, k)
           need == Needed(splice)
           rest == From(chunk, need)
           aligned == Len(rest) - (Len(rest) % Alignment)
           tail == From(rest, aligned)
           start == taken + Len(splice)
<1>3. SpliceAfter(acquired, item_trailing, splice) = splice
  BY <1>2 DEF SpliceAfter
<1>4. /\ ring' = From(ring, Len(chunk)) /\ head' = (head + Len(chunk)) % RingSize
      /\ \/ /\ Len(chunk) < need
            /\ splice' = splice \o chunk /\ acquired' = <<>> /\ item_trailing' = <<>>
            /\ UNCHANGED <<current, inSplice, queued>>
         \/ /\ splice # <<>> /\ Len(chunk) >= need
            /\ current' = splice \o First(chunk, need) /\ inSplice' = TRUE
            /\ queued' = First(rest, aligned) /\ splice' = <<>>
            /\ acquired' = chunk /\ item_trailing' = tail
         \/ /\ splice = <<>> /\ aligned = 0
            /\ splice' = tail /\ acquired' = <<>> /\ item_trailing' = <<>>
            /\ UNCHANGED <<current, inSplice, queued>>
         \/ /\ splice = <<>> /\ aligned > 0
            /\ current' = First(rest, aligned) /\ inSplice' = FALSE
            /\ splice' = <<>>
            /\ acquired' = chunk /\ item_trailing' = tail
            /\ UNCHANGED queued
  BY <1>3 DEF FillChunk, Acquire
<1> USE DEF k
<1>5. /\ taken \in Nat /\ Len(splice) \in Nat /\ Len(ring) \in Nat /\ Len(ring) > 0
      /\ base \in Nat /\ written \in Nat
      /\ Len(current) = 0 /\ Len(queued) = 0
      /\ AfterTrailing = taken /\ AfterSplice = start /\ start + Len(ring) = written
      /\ start \in Nat /\ start = taken + Len(splice)
  BY <1>0, <1>1, <1>2, Lengths DEF Order
<1> HIDE DEF start
<1>6. k \in Nat /\ k > 0 /\ k <= Len(ring)
  BY <1>0, <1>5, AudioSizes DEF ChunkLength, Smaller, Space
<1> HIDE DEF k
<1>7. Run(splice, taken) /\ Run(ring, start)
  BY <1>0, <1>5 DEF Order
<1>8. Run(chunk, start) /\ Len(chunk) = k
  BY <1>5, <1>6, <1>7, RunFirst
<1> HIDE DEF chunk
<1>9. Run(ring', start + k) /\ Len(ring') = Len(ring) - k
      /\ start + k \in Nat /\ start + k + Len(ring') = written
  <2>1. k \in 0 .. Len(ring) /\ ring' = From(ring, k)
    BY <1>4, <1>5, <1>6, <1>8
  <2>2. Run(ring', start + k) /\ Len(ring') = Len(ring) - k
    BY <1>5, <1>7, <2>1, RunFrom
  <2> QED
    BY <1>5, <1>6, <2>2
<1>10. head' \in 0 .. RingSize - 1
  BY <1>0, <1>4, <1>6, <1>8, AudioSizes DEF Space
<1>11. /\ need \in Nat /\ (splice = <<>> => need = 0 /\ Len(splice) = 0)
       /\ (splice # <<>> => need = Alignment - Len(splice) /\ need > 0 /\ Len(splice) > 0)
  BY <1>0, <1>5, Lengths, AudioSizes DEF Needed, Space
<1> HIDE DEF need
<1>12. ASSUME need <= k
       PROVE  /\ Run(First(chunk, need), start) /\ Len(First(chunk, need)) = need
              /\ Run(First(rest, aligned), start + need)
              /\ Len(First(rest, aligned)) = aligned /\ aligned % Alignment = 0
              /\ Run(tail, start + need + aligned) /\ Len(tail) < Alignment
              /\ aligned \in Nat /\ Len(tail) \in Nat
              /\ need + aligned + Len(tail) = k
  <2>1. need \in 0 .. Len(chunk)
    BY <1>6, <1>8, <1>11, <1>12
  <2>2. Run(First(chunk, need), start) /\ Len(First(chunk, need)) = need
    BY <1>5, <1>8, <2>1, RunFirst
  <2>3. Run(rest, start + need) /\ Len(rest) = k - need
    BY <1>5, <1>8, <2>1, RunFrom
  <2> HIDE DEF rest
  <2>4. Len(rest) \in Nat /\ start + need \in Nat
    BY <1>5, <1>6, <1>11, <1>12, <2>3
  <2>5. /\ aligned % Alignment = 0 /\ aligned \in Nat /\ aligned \in 0 .. Len(rest)
        /\ Len(rest) - aligned < Alignment
    <3>1. /\ aligned % Alignment = 0 /\ aligned \in Nat
          /\ Len(rest) % Alignment \in Nat /\ Len(rest) % Alignment < Alignment
      BY <2>4, WholeBasics
    <3> QED
      BY <2>4, <3>1, AudioSizes
  <2> HIDE DEF aligned
  <2>6. Run(First(rest, aligned), start + need) /\ Len(First(rest, aligned)) = aligned
    BY <2>3, <2>4, <2>5, RunFirst
  <2>7. Run(tail, start + need + aligned) /\ Len(tail) = Len(rest) - aligned
    BY <2>3, <2>4, <2>5, RunFrom
  <2> HIDE DEF tail
  <2> QED
    BY <1>6, <1>11, <2>2, <2>3, <2>4, <2>5, <2>6, <2>7
<1> HIDE DEF aligned, tail, rest
<1>13. /\ Len(<<>>) = 0 /\ <<>> \in Seq(Nat)
       /\ \A f \in Nat : Run(<<>>, f)
  BY EmptySeq, RunEmpty
<1>14. (taken - base) % Alignment = 0
  <2>1. taken - base + Len(current) = taken - base
    BY <1>5
  <2> QED
    BY <1>0, <2>1 DEF WholeFrames
<1>15. chunk \in Seq(Nat) /\ chunk # <<>>
  BY <1>6, <1>8, <1>13 DEF Run
<1>20. CASE /\ Len(chunk) < need
            /\ splice' = splice \o chunk /\ acquired' = <<>> /\ item_trailing' = <<>>
            /\ UNCHANGED <<current, inSplice, queued>>
  <2>1. Run(splice', taken) /\ Len(splice') = Len(splice) + k
    <3>1. Run(chunk, taken + Len(splice))
      BY <1>5, <1>8
    <3> QED
      BY <1>5, <1>7, <1>8, <1>20, <3>1, RunConcat
  <2>2. AfterCurrent' = taken /\ AfterQueued' = taken /\ AfterTrailing' = taken
        /\ AfterSplice' = start + k
    <3>1. Len(current') = 0 /\ Len(queued') = 0 /\ Len(item_trailing') = 0 /\ taken' = taken
      BY <1>1, <1>5, <1>13, <1>20
    <3>2. AfterCurrent' = taken /\ AfterQueued' = taken /\ AfterTrailing' = taken
      BY <1>5, <3>1 DEF AfterCurrent, AfterQueued, AfterTrailing
    <3> QED
      BY <1>5, <1>6, <2>1, <3>2 DEF AfterSplice
  <2>3. Order'
    <3>1. Run(current', taken') /\ Run(queued', AfterCurrent') /\ Run(item_trailing', AfterQueued')
      BY <1>1, <1>2, <1>5, <1>13, <1>20, <2>2
    <3>2. Run(splice', AfterTrailing') /\ Run(ring', AfterSplice')
          /\ AfterSplice' + Len(ring') = written'
      BY <1>1, <1>9, <2>1, <2>2
    <3> QED
      BY <1>0, <1>1, <3>1, <3>2 DEF Order
  <2>4. Held'
    BY <1>1, <1>20 DEF Held, HeldAsNeeded, NothingDepends
  <2>5. Space'
    <3>1. Len(splice') < Alignment
      <4>1. splice # <<>> /\ k < need
        BY <1>6, <1>8, <1>11, <1>20
      <4> QED
        BY <1>5, <1>6, <1>11, <2>1, <4>1, AudioSizes
    <3>2. Len(ring') + Len(acquired') <= RingSize
      BY <1>0, <1>2, <1>5, <1>6, <1>9, <1>13, <1>20, AudioSizes DEF Space
    <3> QED
      BY <1>10, <1>13, <1>20, <3>1, <3>2, AudioSizes DEF Space
  <2>6. WholeFrames'
    BY <1>0, <1>1, <1>20 DEF WholeFrames
  <2> QED
    BY <2>3, <2>4, <2>5, <2>6 DEF SourceInv
<1>21. CASE /\ splice # <<>> /\ Len(chunk) >= need
            /\ current' = splice \o First(chunk, need) /\ inSplice' = TRUE
            /\ queued' = First(rest, aligned) /\ splice' = <<>>
            /\ acquired' = chunk /\ item_trailing' = tail
  <2>0. need <= k
    BY <1>6, <1>8, <1>11, <1>21
  <2>1. Run(current', taken) /\ Len(current') = Alignment
    <3>1. Run(First(chunk, need), taken + Len(splice)) /\ Len(First(chunk, need)) = need
      BY <1>5, <1>12, <2>0
    <3>2. Run(current', taken) /\ Len(current') = Len(splice) + need
      <4>1. current' = splice \o First(chunk, need)
        BY <1>21
      <4>2. Run(splice \o First(chunk, need), taken)
            /\ Len(splice \o First(chunk, need)) = Len(splice) + Len(First(chunk, need))
        BY <1>5, <1>7, <3>1, RunConcat
      <4> QED
        BY <3>1, <4>1, <4>2
    <3> QED
      BY <1>5, <1>11, <1>21, <3>2, AudioSizes
  <2>2. AfterCurrent' = start + need /\ AfterQueued' = start + need + aligned
        /\ AfterTrailing' = start + k /\ AfterSplice' = start + k
    <3>1. Len(queued') = aligned /\ Len(item_trailing') = Len(tail) /\ Len(splice') = 0
          /\ taken' = taken /\ need + aligned + Len(tail) = k
          /\ aligned \in Nat /\ Len(tail) \in Nat
      BY <1>1, <1>12, <1>13, <1>21, <2>0
    <3>2. taken + Alignment = start + need
      BY SMTT(30), <1>5, <1>11, <1>21, AudioSizes
    <3>3. AfterCurrent' = start + need
      BY <2>1, <3>1, <3>2 DEF AfterCurrent
    <3>4. AfterQueued' = start + need + aligned
      BY <3>1, <3>3 DEF AfterQueued
    <3>5. AfterTrailing' = start + k
      BY SMTT(30), <1>5, <1>6, <1>11, <3>1, <3>4 DEF AfterTrailing
    <3> QED
      BY <1>5, <1>6, <3>1, <3>3, <3>4, <3>5 DEF AfterSplice
  <2>3. start + k \in Nat
    BY <1>5, <1>6
  <2>4. Order'
    <3>1. Run(queued', AfterCurrent') /\ Run(item_trailing', AfterQueued')
      BY <1>12, <1>21, <2>0, <2>2
    <3>2. Run(splice', AfterTrailing') /\ Run(ring', AfterSplice')
          /\ AfterSplice' + Len(ring') = written'
      BY <1>1, <1>9, <1>13, <1>21, <2>2, <2>3
    <3> QED
      BY <1>0, <1>1, <2>1, <3>1, <3>2 DEF Order
  <2>5. current' # <<>>
    BY <1>13, <2>1, AudioSizes
  <2>6. Held'
    BY <1>15, <1>21, <2>5 DEF Held, HeldAsNeeded, NothingDepends
  <2>7. Space'
    <3>1. Len(acquired') = k /\ Len(splice') = 0 /\ Len(item_trailing') < Alignment
          /\ acquired' \in Seq(Nat)
      BY <1>8, <1>12, <1>13, <1>15, <1>21, <2>0
    <3>2. Len(ring') + Len(acquired') <= RingSize
      BY <1>0, <1>2, <1>5, <1>6, <1>9, <1>13, <3>1, AudioSizes DEF Space
    <3> QED
      BY <1>10, <3>1, <3>2, AudioSizes DEF Space
  <2>8. WholeFrames'
    <3>1. (taken - base + Alignment) % Alignment = 0
      <4>1. taken - base \in Int /\ Alignment \in Int /\ Alignment % Alignment = 0
        BY <1>5, WholeBasics, AudioSizes
      <4> QED
        BY <1>14, <4>1, WholeSum
    <3> QED
      BY <1>1, <1>12, <1>21, <2>0, <2>1, <3>1 DEF WholeFrames
  <2> QED
    BY <2>4, <2>6, <2>7, <2>8 DEF SourceInv
<1>22. CASE /\ splice = <<>> /\ aligned = 0
            /\ splice' = tail /\ acquired' = <<>> /\ item_trailing' = <<>>
            /\ UNCHANGED <<current, inSplice, queued>>
  <2>0. need <= k /\ need = 0 /\ start = taken
    BY <1>5, <1>6, <1>11, <1>22
  <2>1. Run(splice', taken) /\ Len(splice') = k
    BY <1>5, <1>6, <1>12, <1>22, <2>0
  <2>2. AfterCurrent' = taken /\ AfterQueued' = taken /\ AfterTrailing' = taken
        /\ AfterSplice' = start + k
    <3>1. Len(current') = 0 /\ Len(queued') = 0 /\ Len(item_trailing') = 0 /\ taken' = taken
      BY <1>1, <1>5, <1>13, <1>22
    <3>2. AfterCurrent' = taken /\ AfterQueued' = taken /\ AfterTrailing' = taken
      BY <1>5, <3>1 DEF AfterCurrent, AfterQueued, AfterTrailing
    <3> QED
      BY <1>5, <1>6, <2>0, <2>1, <3>2 DEF AfterSplice
  <2>3. Order'
    <3>1. Run(current', taken') /\ Run(queued', AfterCurrent') /\ Run(item_trailing', AfterQueued')
      BY <1>1, <1>2, <1>5, <1>13, <1>22, <2>2
    <3>2. Run(splice', AfterTrailing') /\ Run(ring', AfterSplice')
          /\ AfterSplice' + Len(ring') = written'
      BY <1>1, <1>9, <2>1, <2>2
    <3> QED
      BY <1>0, <1>1, <3>1, <3>2 DEF Order
  <2>4. Held'
    BY <1>1, <1>22 DEF Held, HeldAsNeeded, NothingDepends
  <2>5. Len(splice') < Alignment
    BY <1>12, <1>22, <2>0
  <2>6. Space'
    <3>1. Len(ring') + Len(acquired') <= RingSize
      BY <1>0, <1>2, <1>5, <1>6, <1>9, <1>13, <1>22, AudioSizes DEF Space
    <3> QED
      BY <1>10, <1>13, <1>22, <2>5, <3>1, AudioSizes DEF Space
  <2>7. WholeFrames'
    BY <1>0, <1>1, <1>22 DEF WholeFrames
  <2> QED
    BY <2>3, <2>4, <2>6, <2>7 DEF SourceInv
<1>23. CASE /\ splice = <<>> /\ aligned > 0
            /\ current' = First(rest, aligned) /\ inSplice' = FALSE
            /\ splice' = <<>>
            /\ acquired' = chunk /\ item_trailing' = tail
            /\ UNCHANGED queued
  <2>0. need <= k /\ need = 0 /\ start = taken
    BY <1>5, <1>6, <1>11, <1>23
  <2>1. Run(current', taken) /\ Len(current') = aligned
    BY <1>5, <1>12, <1>23, <2>0
  <2>2. AfterCurrent' = taken + aligned /\ AfterQueued' = taken + aligned
        /\ AfterTrailing' = start + k /\ AfterSplice' = start + k
    <3>1. Len(queued') = 0 /\ Len(item_trailing') = Len(tail) /\ Len(splice') = 0
          /\ taken' = taken /\ aligned + Len(tail) = k
          /\ aligned \in Nat /\ Len(tail) \in Nat
      BY <1>1, <1>5, <1>6, <1>11, <1>12, <1>13, <1>23, <2>0
    <3>2. AfterCurrent' = taken + aligned
      BY <2>1, <3>1 DEF AfterCurrent
    <3>3. AfterQueued' = taken + aligned
      BY <1>5, <3>1, <3>2 DEF AfterQueued
    <3>4. AfterTrailing' = start + k
      BY <1>5, <1>6, <2>0, <3>1, <3>3 DEF AfterTrailing
    <3> QED
      BY <1>5, <1>6, <3>1, <3>2, <3>3, <3>4 DEF AfterSplice
  <2>3. start + k \in Nat /\ taken + aligned \in Nat /\ start + need + aligned = taken + aligned
    BY <1>5, <1>6, <1>12, <2>0
  <2>4. Order'
    <3>1. Run(queued', AfterCurrent') /\ Run(item_trailing', AfterQueued')
      BY <1>1, <1>12, <1>13, <1>23, <2>0, <2>2, <2>3
    <3>2. Run(splice', AfterTrailing') /\ Run(ring', AfterSplice')
          /\ AfterSplice' + Len(ring') = written'
      BY <1>1, <1>9, <1>13, <1>23, <2>2, <2>3
    <3> QED
      BY <1>0, <1>1, <2>1, <3>1, <3>2 DEF Order
  <2>5. current' # <<>>
    BY <1>12, <1>13, <1>23, <2>0, <2>1
  <2>6. Held'
    BY <1>15, <1>23, <2>5 DEF Held, HeldAsNeeded, NothingDepends
  <2>7. Space'
    <3>1. Len(acquired') = k /\ Len(splice') = 0 /\ Len(item_trailing') < Alignment
          /\ acquired' \in Seq(Nat)
      BY <1>8, <1>12, <1>13, <1>15, <1>23, <2>0
    <3>2. Len(ring') + Len(acquired') <= RingSize
      BY <1>0, <1>2, <1>5, <1>6, <1>9, <1>13, <3>1, AudioSizes DEF Space
    <3> QED
      BY <1>10, <3>1, <3>2, AudioSizes DEF Space
  <2>8. WholeFrames'
    <3>1. (taken - base + aligned) % Alignment = 0
      <4>1. taken - base \in Int /\ aligned \in Int /\ aligned % Alignment = 0
        BY <1>5, <1>12, <2>0
      <4> QED
        BY <1>14, <4>1, WholeSum
    <3> QED
      BY <1>0, <1>1, <1>23, <2>1, <3>1 DEF WholeFrames
  <2> QED
    BY <2>4, <2>6, <2>7, <2>8 DEF SourceInv
<1> QED
  BY <1>4, <1>20, <1>21, <1>22, <1>23

LEMMA ClearKeeps == ASSUME SourceInv, ClearBufferedData PROVE SourceInv'
<1>0. written \in Nat /\ written <= FileLength
  BY DEF SourceInv, Order
<1>1. /\ ring' = <<>> /\ head' = 0 /\ acquired' = <<>> /\ current' = <<>> /\ queued' = <<>>
      /\ item_trailing' = <<>> /\ splice' = <<>> /\ inSplice' = FALSE
      /\ taken' = written /\ base' = written /\ written' = written
  BY DEF ClearBufferedData
<1>2. Len(<<>>) = 0 /\ <<>> \in Seq(Nat) /\ Run(<<>>, written)
  BY <1>0, EmptySeq, RunEmpty
<1>3. AfterCurrent' = written /\ AfterQueued' = written /\ AfterTrailing' = written
      /\ AfterSplice' = written
  BY <1>0, <1>1, <1>2 DEF AfterCurrent, AfterQueued, AfterTrailing, AfterSplice
<1>4. Order'
  BY <1>0, <1>1, <1>2, <1>3 DEF Order
<1>5. Held'
  BY <1>1 DEF Held, HeldAsNeeded, NothingDepends
<1>6. Space'
  BY <1>1, <1>2, AudioSizes DEF Space
<1>7. WholeFrames'
  BY <1>0, <1>1, <1>2, WholeBasics DEF WholeFrames
<1> QED
  BY <1>4, <1>5, <1>6, <1>7 DEF SourceInv

LEMMA StutterKeeps == ASSUME SourceInv, UNCHANGED sourceVars PROVE SourceInv'
BY DEF SourceInv, sourceVars, Order, AfterCurrent, AfterQueued, AfterTrailing, AfterSplice,
   Held, HeldAsNeeded, NothingDepends, Space, WholeFrames

LEMMA SourceStep == ASSUME SourceInv, [SourceNext]_sourceVars PROVE SourceInv'
<1>1. CASE Write
  <2>1. PICK n \in 1 .. FileLength - written : WriteRing(Bytes(written, n))
    BY <1>1 DEF Write
  <2>2. written \in Nat /\ n \in Nat /\ written + n <= FileLength
    BY <2>1, AudioSizes DEF SourceInv, Order
  <2> QED
    BY <2>1, <2>2, RunBytes, WriteKeeps
<1>2. CASE \E n \in 1 .. Len(current) : Consume(n)
  BY <1>2, ConsumeKeeps
<1>3. CASE Fill
  BY <1>3, FillQueuedKeeps, FillChunkKeeps DEF Fill
<1> QED
  BY <1>1, <1>2, <1>3, ClearKeeps, StutterKeeps DEF SourceNext

-----------------------------------------------------------------------------
(* What the invariant says of the source.                                  *)

LEMMA InOrder == ASSUME SourceInv PROVE StreamInOrder /\ HeldAsNeeded /\ WholeFrames
<1> DEFINE two == current \o queued
           three == two \o item_trailing
           four == three \o splice
           all == four \o ring
<1>0. Order
  BY DEF SourceInv
<1>1. Run(two, taken) /\ Len(two) = Len(current) + Len(queued)
  <2>1. Run(current, taken) /\ Run(queued, taken + Len(current)) /\ taken \in Nat
    BY <1>0 DEF Order, AfterCurrent
  <2> QED
    BY <2>1, RunConcat
<1> HIDE DEF two
<1>2. taken + Len(two) = AfterQueued /\ taken + Len(two) \in Nat
  <2>1. /\ taken \in Nat /\ Len(current) \in Nat /\ Len(queued) \in Nat
        /\ AfterCurrent = taken + Len(current) /\ AfterQueued = AfterCurrent + Len(queued)
    BY <1>0, Lengths
  <2> QED
    BY <1>1, <2>1
<1>3. Run(three, taken) /\ Len(three) = Len(two) + Len(item_trailing)
  <2>1. Run(item_trailing, taken + Len(two)) /\ taken \in Nat
    BY <1>0, <1>2 DEF Order
  <2> QED
    BY <1>1, <2>1, RunConcat
<1>4. taken + Len(three) = AfterTrailing
  BY <1>0, <1>1, <1>2, <1>3, Lengths
<1> HIDE DEF three
<1>5. Run(four, taken) /\ Len(four) = Len(three) + Len(splice)
  <2>1. Run(splice, taken + Len(three)) /\ taken \in Nat
    BY <1>0, <1>4 DEF Order
  <2> QED
    BY <1>3, <2>1, RunConcat
<1>6. taken + Len(four) = AfterSplice
  BY <1>0, <1>1, <1>3, <1>4, <1>5, Lengths
<1> HIDE DEF four
<1>7. Run(all, taken) /\ Len(all) = Len(four) + Len(ring)
  <2>1. Run(ring, taken + Len(four)) /\ taken \in Nat
    BY <1>0, <1>6 DEF Order
  <2> QED
    BY <1>5, <2>1, RunConcat
<1>8. Len(all) = written - taken
  BY <1>0, <1>1, <1>3, <1>5, <1>6, <1>7, Lengths DEF Order
<1> HIDE DEF all
<1>9. all = Bytes(taken, written - taken)
  BY <1>0, <1>7, <1>8, RunIs DEF Order
<1>10. StreamInOrder
  BY <1>9 DEF StreamInOrder, all, four, three, two
<1> QED
  BY <1>10 DEF SourceInv, Held

LEMMA SourceTypes == ASSUME SourceInv PROVE SourceTypeOK
<1>1. Order /\ Space
  BY DEF SourceInv
<1>2. Len(acquired) \in Nat
  BY <1>1, LenProperties DEF Space
<1>3. RingFree \in 0 .. RingSize
  BY <1>1, <1>2, Lengths, AudioSizes DEF Space, RingFree
<1>4. written \in 0 .. FileLength /\ taken \in 0 .. written
  BY <1>1, Lengths, AudioSizes DEF Order
<1> QED
  BY <1>1, <1>3, <1>4 DEF Space, SourceTypeOK

LEMMA SourceAlways == SourceSpec => []SourceInv
BY SourceInitKeeps, SourceStep, PTL DEF SourceSpec

(* However long the chunks, the frames and the ring are, and wherever they *)
(* end: what a consumer is shown is the stream, without a gap.             *)
THEOREM SourceStream == SourceSpec => []StreamInOrder
BY SourceAlways, InOrder, PTL

(* No pointer looks into storage that was given back, and none is kept for *)
(* nothing.                                                                *)
THEOREM SourceHeld == SourceSpec => []HeldAsNeeded
BY SourceAlways, InOrder, PTL

(* Frames cut by the end of a chunk are put together again.                *)
THEOREM SourceFrames == SourceSpec => []WholeFrames
BY SourceAlways, InOrder, PTL

(* No tail or splice grows to a frame, and the ring is never overfilled.   *)
THEOREM SourceTypeCorrect == SourceSpec => []SourceTypeOK
BY SourceAlways, SourceTypes, PTL

-----------------------------------------------------------------------------
(* The transfer buffers.                                                   *)

LEMMA PipelineSizes ==
  ASSUME PipelineConstants
  PROVE  /\ Header \in Nat /\ Frame \in Nat /\ BufferSize \in Nat /\ OutputSize \in Nat
         /\ MaxSilence \in Nat /\ MaxIterations \in Nat /\ MaxPotentiallyFailed \in Nat
         /\ Header > 0 /\ MaxIterations > 0 /\ MaxPotentiallyFailed > 0
         /\ \A e \in AudioEnds : e \in Nat /\ Header < e /\ e <= FileLength
         /\ Alignment = 1
<1>1. \A e \in AudioEnds : e \in Header + 1 .. FileLength
  BY DEF PipelineConstants
<1>2. Header \in Nat /\ Header # 0 /\ MaxIterations # 0 /\ MaxPotentiallyFailed # 0
      /\ MaxIterations \in Nat /\ MaxPotentiallyFailed \in Nat
  BY DEF PipelineConstants
<1>3. Frame \in Nat /\ BufferSize \in Nat /\ OutputSize \in Nat /\ MaxSilence \in Nat
      /\ Alignment = 1
  BY DEF PipelineConstants
<1> QED
  BY <1>1, <1>2, <1>3, AudioSizes

LEMMA AllocatedIs ==
  ASSUME NEW n \in Nat
  PROVE  /\ Allocated(n) \in Buffer /\ Allocated(n).data = <<>> /\ Free(Allocated(n)) = n
BY EmptySeq DEF Allocated, Buffer, Free

LEMMA FreeIs ==
  ASSUME NEW b \in Buffer
  PROVE  /\ b.start \in Nat /\ b.size \in Nat /\ Len(b.data) \in Nat
         /\ Free(b) = b.size - (Len(b.data) + b.start) /\ Free(b) \in Int
<1>1. b.start \in Nat /\ b.size \in Nat /\ b.data \in Seq(Nat)
  BY DEF Buffer
<1>2. Len(b.data) \in Nat
  BY <1>1, LenProperties
<1>3. Free(b) = b.size - (Len(b.data) + b.start)
  BY DEF Free
<1> QED
  BY <1>1, <1>2, <1>3

LEMMA DecreaseIs ==
  ASSUME NEW b \in Buffer, Free(b) >= 0, NEW from \in Nat, Run(b.data, from),
         NEW n \in 0 .. Len(b.data)
  PROVE  LET left == Decrease(b, n)
         IN /\ left \in Buffer /\ Free(left) >= 0
            /\ Run(left.data, from + n) /\ Len(left.data) = Len(b.data) - n
            /\ Free(left) >= Free(b)
<1> DEFINE d == From(b.data, n)
           first == IF n < Len(b.data) THEN b.start + n ELSE 0
<1>1. b.start \in Nat /\ b.size \in Nat /\ Len(b.data) \in Nat
  BY LenProperties DEF Buffer
<1>2. Run(d, from + n) /\ Len(d) = Len(b.data) - n
  BY RunFrom
<1> HIDE DEF d
<1>3. d \in Seq(Nat)
  BY <1>2 DEF Run
<1>4. first \in Nat /\ first + Len(d) <= b.start + Len(b.data)
  BY SMTT(30), <1>1, <1>2
<1>5. Decrease(b, n) = [b EXCEPT !.data = d, !.start = first]
  BY DEF Decrease, d
<1> HIDE DEF first
<1>6. /\ Decrease(b, n) \in Buffer /\ Decrease(b, n).data = d /\ Decrease(b, n).start = first
      /\ Decrease(b, n).size = b.size
  BY <1>3, <1>4, <1>5 DEF Buffer
<1>7. Free(Decrease(b, n)) >= Free(b)
  <2>1. Free(Decrease(b, n)) = b.size - (Len(d) + first) /\ Len(d) \in Nat
    BY <1>6, FreeIs
  <2>2. Free(b) = b.size - (Len(b.data) + b.start)
    BY FreeIs
  <2> QED
    BY <1>1, <1>4, <2>1, <2>2
<1>8. Free(b) \in Int /\ Free(Decrease(b, n)) \in Int
  BY <1>6, FreeIs
<1> QED
  BY <1>2, <1>6, <1>7, <1>8

LEMMA IncreaseIs ==
  ASSUME NEW b \in Buffer, NEW from \in Nat, Run(b.data, from),
         NEW bytes, Run(bytes, from + Len(b.data)), Free(b) >= Len(bytes)
  PROVE  LET more == Increase(b, bytes)
         IN /\ more \in Buffer /\ Free(more) >= 0
            /\ Run(more.data, from) /\ Len(more.data) = Len(b.data) + Len(bytes)
<1> DEFINE d == b.data \o bytes
<1>1. b.start \in Nat /\ b.size \in Nat /\ Len(b.data) \in Nat
  BY LenProperties DEF Buffer
<1>2. Run(d, from) /\ Len(d) = Len(b.data) + Len(bytes) /\ Len(bytes) \in Nat
  BY SMTT(30), <1>1, RunConcat, RunLen
<1> HIDE DEF d
<1>3. Increase(b, bytes) = [b EXCEPT !.data = d]
  BY DEF Increase, d
<1>4. d \in Seq(Nat)
  BY <1>2 DEF Run
<1>5. /\ Increase(b, bytes) \in Buffer /\ Increase(b, bytes).data = d
      /\ Increase(b, bytes).start = b.start /\ Increase(b, bytes).size = b.size
  BY <1>3, <1>4 DEF Buffer
<1>6. Free(Increase(b, bytes)) >= 0
  <2>1. Free(Increase(b, bytes)) = b.size - (Len(d) + b.start)
    BY <1>5, FreeIs
  <2>2. Free(b) = b.size - (Len(b.data) + b.start) /\ Free(b) >= Len(bytes)
    BY FreeIs
  <2> QED
    BY <1>1, <1>2, <2>1, <2>2
<1> QED
  BY <1>2, <1>5, <1>6

LEMMA ReallocateIs ==
  ASSUME NEW b \in Buffer, b.data = <<>>, NEW n \in Nat
  PROVE  LET new == Reallocate(b, n)
         IN new \in Buffer /\ new.data = <<>> /\ Free(new) = n
<1>1. Reallocate(b, n) \in Buffer /\ Reallocate(b, n).data = <<>>
      /\ Reallocate(b, n).start = 0 /\ Reallocate(b, n).size = n
  BY DEF Reallocate, Buffer
<1> QED
  BY <1>1, EmptySeq DEF Free

-----------------------------------------------------------------------------
(* The reader's steps.                                                     *)

(* What the reader does leaves the decoder as it was, and a decoder that   *)
(* has finished has seen the reader's end.                                 *)
LEMMA ReaderSide ==
  ASSUME PipelineInv, SourceInv', Reading', taken' = taken,
         reader \in {"idle", "READING"}, UNCHANGED <<decoderVars, codecVars>>
  PROVE  PipelineInv'
<1>1. /\ UNCHANGED <<decoder, pc, no_output_iterations, end_of_file_,
                     potentially_failed_count_, played>>
      /\ UNCHANGED <<audioEnd, info, output, decoded, lost, glitches>>
  BY DEF decoderVars, codecVars
<1>2. Control' /\ Samples' /\ Accounting'
  BY <1>1 DEF PipelineInv, Control, Samples, Accounting, Accounted, Free
<1>3. Ending'
  BY <1>1 DEF PipelineInv, Ending, AudioOver, Free
<1> QED
  BY <1>2, <1>3 DEF PipelineInv

LEMMA StartFileKeeps == ASSUME PipelineInv, StartFile PROVE PipelineInv'
<1>1. SourceInv' /\ taken' = taken
  BY StutterKeeps DEF PipelineInv, StartFile, sourceVars
<1>2. Reading'
  BY DEF PipelineInv, StartFile, Reading, Received, sourceVars
<1> QED
  BY <1>1, <1>2, ReaderSide DEF StartFile

LEMMA StartHttpKeeps ==
  ASSUME PipelineConstants, PipelineInv, StartHttp
  PROVE  PipelineInv'
<1>1. SourceInv' /\ taken' = taken /\ written' = written
  BY StutterKeeps DEF PipelineInv, StartHttp, sourceVars
<1>2. CASE /\ reader' = "READING" /\ client_' = TRUE
           /\ silence' = 0 /\ input' = Allocated(BufferSize) /\ starts' = 0
  <2>1. written \in Nat /\ written <= FileLength
    BY DEF PipelineInv, SourceInv, Order
  <2>2. input' \in Buffer /\ input'.data = <<>> /\ Free(input') = BufferSize /\ BufferSize \in Nat
    BY <1>2, AllocatedIs, PipelineSizes
  <2>3. Run(input'.data, written') /\ Len(input'.data) = 0
    BY <1>1, <2>1, <2>2, RunEmpty
  <2>4. Received' <= FileLength
    BY <1>1, <2>1, <2>3 DEF Received
  <2> QED
    BY <1>1, <1>2, <2>2, <2>3, <2>4, PipelineSizes, ReaderSide DEF StartHttp, Reading, Free
<1>3. CASE UNCHANGED <<reader, silence, input>>
  <2>1. Reading'
    BY <1>1, <1>3 DEF PipelineInv, StartHttp, Reading, Received
  <2> QED
    BY <1>1, <2>1, ReaderSide DEF StartHttp
<1> QED
  BY <1>2, <1>3 DEF StartHttp

LEMMA FileReadKeeps == ASSUME PipelineInv, FileRead PROVE PipelineInv'
<1>0. /\ written \in Nat /\ written <= FileLength /\ FileLength \in Nat
      /\ reader = "READING" /\ ~client_ /\ client_' = client_
      /\ input' = input /\ silence' = silence /\ input.data = <<>> /\ Len(<<>>) = 0
  BY AudioSizes, EmptySeq DEF PipelineInv, SourceInv, Order, Reading, FileRead
<1>1. CASE Write /\ UNCHANGED reader
  <2>1. PICK n \in 1 .. FileLength - written : WriteRing(Bytes(written, n))
    BY <1>1 DEF Write
  <2>2. n \in Nat /\ written + n <= FileLength
    BY <1>0, <2>1
  <2>3. Run(Bytes(written, n), written) /\ Len(Bytes(written, n)) = n
    BY <1>0, <2>2, RunBytes
  <2>4. SourceInv' /\ written' = written + n /\ taken' = taken
    BY <2>1, <2>2, <2>3, WriteKeeps DEF PipelineInv
  <2>5. Run(input'.data, written') /\ Received' <= FileLength
    BY <1>0, <2>2, <2>4, RunEmpty DEF Received
  <2>6. Reading'
    BY <1>0, <1>1, <2>5 DEF PipelineInv, Reading, Free
  <2> QED
    BY <2>4, <2>6, <1>0, ReaderSide DEF FileRead
<1>2. CASE written = FileLength /\ reader' = "FINISHED" /\ UNCHANGED sourceVars
  <2>1. SourceInv' /\ taken' = taken /\ written' = written
    BY <1>2, StutterKeeps DEF PipelineInv, sourceVars
  <2>2. Reading'
    BY <1>0, <1>2, <2>1 DEF PipelineInv, Reading, Received, Free
  <2> QED
    BY <2>1, <2>2, <1>0, ReaderSide DEF FileRead
<1> QED
  BY <1>1, <1>2 DEF FileRead

(* What http_read_() gives to the sink is the head of its buffer.          *)
LEMMA HttpWrites ==
  ASSUME PipelineInv, NEW n \in 0 .. Len(input.data),
         IF n > 0 THEN WriteRing(First(input.data, n)) ELSE UNCHANGED sourceVars
  PROVE  SourceInv' /\ written' = written + n /\ taken' = taken
<1>0. written \in Nat /\ Run(input.data, written) /\ written + Len(input.data) <= FileLength
  BY DEF PipelineInv, SourceInv, Order, Reading, Received
<1>1. Len(input.data) \in Nat /\ n \in Nat
  BY <1>0, RunLen
<1>2. CASE n > 0
  <2>1. Run(First(input.data, n), written) /\ Len(First(input.data, n)) = n
    BY <1>0, RunFirst
  <2>2. written + Len(First(input.data, n)) <= FileLength
    BY <1>0, <1>1, <2>1, AudioSizes
  <2>3. WriteRing(First(input.data, n))
    BY <1>2
  <2> HIDE DEF First
  <2> QED
    BY <2>1, <2>2, <2>3, WriteKeeps DEF PipelineInv
<1>3. CASE ~(n > 0)
  <2>1. n = 0 /\ UNCHANGED sourceVars
    BY <1>1, <1>3
  <2> QED
    BY <1>0, <2>1, StutterKeeps DEF PipelineInv, sourceVars
<1> QED
  BY <1>2, <1>3

LEMMA HttpReadKeeps == ASSUME PipelineConstants, PipelineInv, HttpRead PROVE PipelineInv'
<1>0. /\ reader = "READING" /\ client_ /\ UNCHANGED <<decoderVars, codecVars>>
      /\ silence \in Nat /\ silence <= MaxSilence /\ MaxSilence \in Nat
      /\ written \in Nat /\ input \in Buffer /\ Free(input) >= 0
      /\ Run(input.data, written) /\ Len(input.data) \in Nat
      /\ Received <= FileLength /\ Received = written + Len(input.data)
      /\ FileLength \in Nat
  <2>1. written \in Nat /\ input \in Buffer /\ Free(input) >= 0
        /\ Run(input.data, written) /\ Received <= FileLength
        /\ silence \in 0 .. MaxSilence
    BY DEF PipelineInv, SourceInv, Order, Reading
  <2>2. Len(input.data) \in Nat
    BY <2>1, RunLen
  <2> QED
    BY <2>1, <2>2, PipelineSizes, AudioSizes DEF HttpRead, Received
<1>1. PICK n \in 0 .. Len(input.data) :
        LET left == Decrease(input, n)
            complete == Received = FileLength
        IN /\ IF n > 0 THEN WriteRing(First(input.data, n)) ELSE UNCHANGED sourceVars
           /\ \/ complete /\ input' = left /\ HttpFinish /\ UNCHANGED silence
              \/ /\ complete /\ left.data # <<>> /\ input' = left
                 /\ UNCHANGED <<reader, client_, silence>>
              \/ /\ ~complete /\ Free(left) = 0
                 /\ input' = left /\ silence' \in {silence, Smaller(silence + 1, MaxSilence)}
                 /\ UNCHANGED <<reader, client_>>
              \/ /\ ~complete /\ silence' = 0
                 /\ \E k \in 1 .. Smaller(Free(left), FileLength - Received) :
                      input' = Increase(left, Bytes(Received, k))
                 /\ UNCHANGED <<reader, client_>>
              \/ /\ ~complete /\ Free(left) > 0 /\ input' = left
                 /\ HttpClose /\ UNCHANGED silence
              \/ /\ ~complete /\ Free(left) > 0 /\ input' = left
                 /\ silence' = Smaller(silence + 1, MaxSilence)
                 /\ IF silence = MaxSilence THEN HttpClose ELSE UNCHANGED <<reader, client_>>
  BY DEF HttpRead
<1> DEFINE left == Decrease(input, n)
<1>2. SourceInv' /\ written' = written + n /\ taken' = taken
  BY <1>1, HttpWrites
<1>3. /\ left \in Buffer /\ Free(left) >= 0 /\ Run(left.data, written')
      /\ Len(left.data) = Len(input.data) - n
  BY <1>0, <1>2, DecreaseIs
<1>4. /\ n \in Nat /\ written' \in Nat /\ Len(left.data) \in Nat
      /\ written' + Len(left.data) = Received /\ Free(left) \in Int
  <2>1. n \in Nat /\ n <= Len(input.data)
    BY <1>0, <1>1
  <2>2. left.start \in Nat /\ left.size \in Nat /\ Len(left.data) \in Nat
    BY <1>3, LenProperties DEF Buffer
  <2> HIDE DEF left
  <2>3. Free(left) \in Int
    BY <2>2 DEF Free
  <2>4. written' + Len(left.data) = written + Len(input.data) /\ written' \in Nat
    <3>1. written \in Nat /\ Len(input.data) \in Nat
      BY <1>0
    <3> DEFINE before == Len(input.data)  after == Len(left.data)
    <3>2. written' = written + n /\ after = before - n /\ before \in Nat /\ n \in Nat
      BY <1>2, <1>3, <2>1, <3>1
    <3> HIDE DEF before, after
    <3>3. written' + after = written + before /\ written' \in Nat
      BY <3>1, <3>2
    <3> QED
      BY <3>3 DEF before, after
  <2> QED
    BY <1>0, <2>1, <2>2, <2>3, <2>4
<1>5. Smaller(silence + 1, MaxSilence) \in 0 .. MaxSilence /\ silence \in 0 .. MaxSilence
  BY <1>0 DEF Smaller
<1> HIDE DEF left
<1>6. CASE input' = left
  <2>1. Run(input'.data, written') /\ Received' = Received /\ input' \in Buffer /\ Free(input') >= 0
    BY <1>3, <1>4, <1>6 DEF Received
  <2>2. /\ silence' \in 0 .. MaxSilence
        /\ \/ /\ reader' = "FINISHED" /\ ~client_' /\ input'.data = <<>> /\ Received = FileLength
           \/ reader' = "FAILED"
           \/ reader' = reader /\ client_' = client_
    <3>1. \/ Received = FileLength /\ HttpFinish /\ UNCHANGED silence
          \/ UNCHANGED <<reader, client_, silence>>
          \/ silence' \in {silence, Smaller(silence + 1, MaxSilence)} /\ UNCHANGED <<reader, client_>>
          \/ silence' = 0 /\ UNCHANGED <<reader, client_>>
          \/ HttpClose /\ UNCHANGED silence
          \/ /\ silence' = Smaller(silence + 1, MaxSilence)
             /\ HttpClose \/ UNCHANGED <<reader, client_>>
      BY <1>1
    <3>2. CASE Received = FileLength /\ HttpFinish /\ UNCHANGED silence
      BY <1>5, <3>2 DEF HttpFinish
    <3>3. CASE HttpClose /\ silence' \in {silence, Smaller(silence + 1, MaxSilence)}
      BY <1>5, <3>3 DEF HttpClose
    <3>4. CASE UNCHANGED <<reader, client_>> /\ silence' \in {silence, 0, Smaller(silence + 1, MaxSilence)}
      <4>1. reader' = reader /\ client_' = client_
        BY <3>4
      <4>2. silence' \in 0 .. MaxSilence
        BY <1>0, <1>5, <3>4
      <4> QED
        BY <4>1, <4>2
    <3> QED
      BY <3>1, <3>2, <3>3, <3>4
  <2>3. reader' = "FINISHED" => ~client_' /\ written' = FileLength
    BY <1>0, <1>4, <1>6, <2>2, EmptySeq
  <2>4. Reading'
    BY <1>0, <2>1, <2>2, <2>3 DEF Reading, Free
  <2> QED
    BY <1>0, <1>2, <2>4, ReaderSide
<1>7. CASE /\ silence' = 0
           /\ \E k \in 1 .. Smaller(Free(left), FileLength - Received) :
                input' = Increase(left, Bytes(Received, k))
           /\ UNCHANGED <<reader, client_>>
  <2>1. PICK k \in 1 .. Smaller(Free(left), FileLength - Received) :
              input' = Increase(left, Bytes(Received, k))
    BY <1>7
  <2>2. k \in Nat /\ k <= Free(left) /\ Received + k <= FileLength /\ Received \in Nat
    <3>1. Received \in Nat /\ FileLength - Received \in Int
      BY <1>0
    <3>2. Smaller(Free(left), FileLength - Received) \in Int
          /\ Smaller(Free(left), FileLength - Received) <= Free(left)
          /\ Smaller(Free(left), FileLength - Received) <= FileLength - Received
      BY <1>4, <3>1 DEF Smaller
    <3>3. k \in Nat /\ k <= Free(left) /\ k <= FileLength - Received
      BY <1>4, <2>1, <3>1, <3>2
    <3> QED
      BY <1>0, <3>1, <3>3
  <2>3. Run(Bytes(Received, k), written' + Len(left.data)) /\ Len(Bytes(Received, k)) = k
    BY <1>4, <2>2, RunBytes
  <2>4. /\ input' \in Buffer /\ Free(input') >= 0 /\ Run(input'.data, written')
        /\ Len(input'.data) = Len(left.data) + k
    <3>1. Free(left) >= Len(Bytes(Received, k))
      BY <2>2, <2>3
    <3> HIDE DEF Bytes, Increase
    <3>2. /\ input' \in Buffer /\ Free(input') >= 0 /\ Run(input'.data, written')
          /\ Len(input'.data) = Len(left.data) + Len(Bytes(Received, k))
      BY <1>3, <1>4, <2>1, <2>3, <3>1, IncreaseIs DEF Free
    <3> QED
      BY <2>3, <3>2
  <2>5. Received' <= FileLength
    BY <1>4, <2>2, <2>4 DEF Received
  <2>6. Reading'
    BY <1>0, <1>7, <2>4, <2>5 DEF Reading, Free
  <2> QED
    BY <1>0, <1>2, <2>6, ReaderSide
<1> QED
  BY <1>1, <1>6, <1>7 DEF left

LEMMA PipelineInitKeeps == ASSUME PipelineConstants, PipelineInit PROVE PipelineInv
<1>1. SourceInv /\ written = 0 /\ taken = 0
  BY SourceInitKeeps DEF PipelineInit, SourceInit
<1>2. /\ input \in Buffer /\ input.data = <<>> /\ Free(input) = 0
      /\ output \in Buffer /\ output.data = <<>> /\ Free(output) = OutputSize
  BY AllocatedIs, PipelineSizes DEF PipelineInit
<1>3. Run(<<>>, 0) /\ Len(<<>>) = 0
  BY RunEmpty
<1>4. Reading
  <2>1. Run(input.data, written) /\ Received = 0
    BY <1>1, <1>2, <1>3 DEF Received
  <2> QED
    BY <1>2, <2>1, PipelineSizes, AudioSizes DEF PipelineInit, Reading
<1>5. Control
  <2>1. /\ decoder = "DECODING" /\ pc = "idle" /\ no_output_iterations = 0
        /\ potentially_failed_count_ = 0 /\ glitches = 0
        /\ info = FALSE /\ audioEnd \in AudioEnds
    BY DEF PipelineInit
  <2>2. no_output_iterations \in 0 .. MaxIterations /\ Free(output) >= 0
    BY <1>2, <2>1, PipelineSizes
  <2> QED
    BY <1>2, <2>1, <2>2 DEF Control
<1>6. Samples
  BY <1>2, <1>3 DEF PipelineInit, Samples
<1>7. Accounting
  BY <1>1, PipelineSizes DEF PipelineInit, Accounting
<1>8. Ending
  BY <1>2 DEF PipelineInit, Ending
<1> QED
  BY <1>1, <1>4, <1>5, <1>6, <1>7, <1>8 DEF PipelineInv

-----------------------------------------------------------------------------
(* The decoder's steps.                                                    *)

LEMMA ReaderWaits ==
  ASSUME PipelineInv, UNCHANGED readerVars, written' = written
  PROVE  Reading' /\ reader' = reader
BY DEF PipelineInv, readerVars, Reading, Received, Free

(* What decode() has found out and what it has sent is left as it was.     *)
LEMMA CodecWaits ==
  ASSUME PipelineInv, UNCHANGED codecVars, taken' = taken
  PROVE  /\ Accounting' /\ (AudioOver' <=> AudioOver) /\ Free(output') = Free(output)
         /\ UNCHANGED <<audioEnd, info, output, decoded, lost, glitches>>
BY DEF PipelineInv, codecVars, Accounting, Accounted, AudioOver, Free

LEMMA Positions ==
  ASSUME PipelineConstants, PipelineInv
  PROVE  /\ written \in Nat /\ taken \in Nat /\ taken <= written /\ written <= FileLength
         /\ audioEnd \in Nat /\ Header \in Nat /\ Header > 0 /\ Header < audioEnd
         /\ audioEnd <= FileLength /\ FileLength \in Nat
         /\ played \in Nat /\ decoded \in Nat /\ lost \in Nat
         /\ Len(output.data) \in Nat /\ decoded = played + Len(output.data)
         /\ potentially_failed_count_ \in Nat /\ glitches \in Nat
         /\ Free(output) \in Int /\ Free(output) >= 0
<1>1. SourceTypeOK /\ Order /\ Control /\ Samples /\ Accounting
  BY SourceTypes DEF PipelineInv, SourceInv
<1>2. written \in Nat /\ taken \in Nat /\ taken <= written /\ written <= FileLength
  BY <1>1, AudioSizes DEF SourceTypeOK, Order
<1>3. Len(output.data) \in Nat /\ output.start \in Nat /\ output.size \in Nat
  BY <1>1, LenProperties DEF Control, Buffer
<1>4. decoded \in Nat /\ played \in Nat /\ lost \in Nat /\ decoded = played + Len(output.data)
  BY <1>1, <1>3 DEF Samples, Accounting
<1>5. Free(output) \in Int /\ Free(output) >= 0
  BY <1>1, <1>3 DEF Free, Control
<1>6. potentially_failed_count_ \in Nat /\ glitches \in Nat /\ audioEnd \in AudioEnds
  BY <1>1 DEF Control
<1> QED
  BY <1>2, <1>3, <1>4, <1>5, <1>6, PipelineSizes, AudioSizes

LEMMA StartDecoderKeeps == ASSUME PipelineConstants, PipelineInv, StartDecoder PROVE PipelineInv'
<1>1. SourceInv' /\ taken' = taken /\ written' = written
  BY StutterKeeps DEF PipelineInv, StartDecoder, sourceVars
<1>2. Reading' /\ reader' = reader
  BY <1>1, ReaderWaits DEF StartDecoder
<1>3. /\ Accounting' /\ (AudioOver' <=> AudioOver) /\ Free(output') = Free(output)
      /\ UNCHANGED <<audioEnd, info, output, decoded, lost, glitches>>
  BY <1>1, CodecWaits DEF StartDecoder
<1>4. /\ pc = "idle" /\ pc' = "call" /\ potentially_failed_count_' = 0 /\ end_of_file_' = FALSE
      /\ UNCHANGED <<decoder, no_output_iterations, played>>
  BY DEF StartDecoder
<1>5. Control' /\ Samples'
  BY <1>3, <1>4 DEF PipelineInv, Control, Samples
<1>6. Ending'
  BY <1>4 DEF PipelineInv, Ending
<1> QED
  BY <1>1, <1>2, <1>3, <1>5, <1>6 DEF PipelineInv

(* Nothing left to read or to send: the audio is over.                     *)
LEMMA InputDoneIs ==
  ASSUME PipelineConstants, PipelineInv, InputDone, reader = "FINISHED"
  PROVE  AudioOver
<1>1. CASE end_of_file_
  BY <1>1 DEF PipelineInv, Ending
<1>2. CASE ~HasBufferedData
  <2>1. Order /\ Space /\ Accounting /\ written = FileLength /\ info \in BOOLEAN
    BY DEF PipelineInv, SourceInv, Reading, Control
  <2>2. Len(current) = 0 /\ Len(queued) = 0 /\ Len(ring) = 0
    BY <1>2, EmptySeq DEF HasBufferedData
  <2>3. Len(item_trailing) = 0 /\ Len(splice) = 0
    BY SMTT(30), <2>1, Lengths, PipelineSizes DEF Space
  <2>4. taken = FileLength
    <3>1. AfterSplice = taken
      BY <2>1, <2>2, <2>3, Lengths
    <3> QED
      BY <2>1, <2>2, <3>1, Lengths DEF Order
  <2>5. taken >= audioEnd /\ ~(taken < Header)
    BY <2>4, Positions
  <2> QED
    BY <2>1, <2>5 DEF Accounting, AudioOver
<1> QED
  BY <1>1, <1>2 DEF InputDone

LEMMA PlayedAll ==
  ASSUME PipelineConstants, PipelineInv, AudioOver, output.data = <<>>, glitches = 0
  PROVE  played = audioEnd - Header
<1>1. Len(output.data) = 0
  BY EmptySeq
<1>2. decoded = played
  BY <1>1, Positions
<1>3. Header + lost + decoded = audioEnd /\ lost = 0
  BY DEF PipelineInv, Accounting, Accounted, AudioOver
<1> QED
  BY <1>2, <1>3, Positions

LEMMA CallKeeps == ASSUME PipelineConstants, PipelineInv, Call PROVE PipelineInv'
<1>1. SourceInv' /\ taken' = taken /\ written' = written
  BY StutterKeeps DEF PipelineInv, Call, sourceVars
<1>2. Reading' /\ reader' = reader
  BY <1>1, ReaderWaits DEF Call
<1>3. /\ Accounting' /\ (AudioOver' <=> AudioOver) /\ Free(output') = Free(output)
      /\ UNCHANGED <<audioEnd, info, output, decoded, lost, glitches>>
  BY <1>1, CodecWaits DEF Call
<1>4. /\ pc = "call" /\ decoder = "DECODING"
      /\ stop_gracefully' <=> reader \in {"FINISHED", "FAILED"}
      /\ UNCHANGED <<end_of_file_, potentially_failed_count_, played>>
  BY DEF Call
<1>5. \/ /\ stop_gracefully' /\ AllDone
         /\ pc' = "call" /\ decoder' = "FINISHED" /\ UNCHANGED no_output_iterations
      \/ /\ potentially_failed_count_ > MaxPotentiallyFailed
         /\ pc' = "call" /\ decoder' \in {"FINISHED", "FAILED"}
         /\ decoder' = "FINISHED" => stop_gracefully'
         /\ UNCHANGED no_output_iterations
      \/ pc' = "flush" /\ no_output_iterations' = 0 /\ decoder' = decoder
  BY DEF Call, Return
<1>6. Control'
  BY <1>3, <1>4, <1>5, PipelineSizes DEF PipelineInv, Control
<1>7. Samples'
  BY <1>3, <1>4, <1>5 DEF PipelineInv, Samples
<1>8. decoder' = "FINISHED" => /\ pc' = "call" /\ reader' \in {"FINISHED", "FAILED"}
                              /\ stop_gracefully'
  BY <1>2, <1>4, <1>5
<1>9. ASSUME decoder' = "FINISHED", reader' = "FINISHED", glitches' = 0
      PROVE  played' = audioEnd' - Header
  <2>1. reader = "FINISHED" /\ glitches = 0 /\ played' = played /\ audioEnd' = audioEnd
    BY <1>2, <1>3, <1>4, <1>9
  <2>2. CASE AllDone
    BY <2>1, <2>2, InputDoneIs, PlayedAll DEF AllDone
  <2>3. CASE potentially_failed_count_ > MaxPotentiallyFailed
    <3>1. potentially_failed_count_ > 1 /\ potentially_failed_count_ > 0
      <4>1. potentially_failed_count_ \in Nat
        BY Positions
      <4>2. MaxPotentiallyFailed \in Nat /\ MaxPotentiallyFailed > 0
        BY PipelineSizes
      <4> QED
        BY <2>3, <4>1, <4>2
    <3>2. AudioOver /\ output.data = <<>>
      BY <2>1, <3>1, Positions DEF PipelineInv, Ending
    <3> QED
      BY <2>1, <3>2, PlayedAll
  <2> QED
    BY <1>4, <1>5, <1>9, <2>2, <2>3
<1>10. Ending'
  BY <1>3, <1>4, <1>8, <1>9 DEF PipelineInv, Ending
<1> QED
  BY <1>1, <1>2, <1>3, <1>6, <1>7, <1>10 DEF PipelineInv

LEMMA FlushKeeps == ASSUME PipelineConstants, PipelineInv, Flush PROVE PipelineInv'
<1>1. SourceInv' /\ taken' = taken /\ written' = written
  BY StutterKeeps DEF PipelineInv, Flush, FlushTo, sourceVars
<1>2. Reading' /\ reader' = reader
  BY <1>1, ReaderWaits DEF Flush, FlushTo
<1>3. PICK n \in 0 .. Len(output.data) : FlushTo(n)
  BY DEF Flush
<1>4. /\ pc = "flush" /\ output' = Decrease(output, n)
      /\ played' = IF n > 0 THEN output.data[n] ELSE played
      /\ UNCHANGED <<end_of_file_, potentially_failed_count_, audioEnd, info, decoded, lost,
                     glitches>>
  BY <1>3 DEF FlushTo
<1>5. \/ /\ output.data # <<>> /\ pc' = "call" /\ decoder' = "DECODING"
         /\ UNCHANGED no_output_iterations
      \/ /\ output.data = <<>> /\ no_output_iterations' = no_output_iterations + 1
         /\ \/ pc' = "call"
            \/ pc' = "fill" /\ ~(no_output_iterations' >= MaxIterations)
         /\ decoder' = decoder
  BY <1>3 DEF FlushTo, Return
<1>6. /\ played \in Nat /\ Run(output.data, played) /\ n \in Nat /\ n <= Len(output.data)
      /\ Len(output.data) \in Nat /\ decoded = played + Len(output.data)
      /\ output \in Buffer /\ Free(output) \in Int /\ Free(output) >= 0
  BY <1>3, Positions DEF PipelineInv, Control, Samples
<1>7. played' = played + n
  <2>1. n > 0 => n \in 1 .. Len(output.data)
    BY <1>6
  <2>2. n > 0 => output.data[n] = played + n
    BY <1>6, <2>1 DEF Run
  <2> QED
    BY <1>4, <1>6, <2>2
<1>8. /\ output' \in Buffer /\ Free(output') >= 0 /\ Free(output') >= Free(output)
      /\ Run(output'.data, played') /\ Len(output'.data) = Len(output.data) - n
  BY <1>4, <1>6, <1>7, DecreaseIs
<1>9. output.data = <<>> => output'.data = <<>>
  BY <1>6, <1>7, <1>8, RunLen
<1>10. Control'
  <2>1. no_output_iterations \in Nat /\ no_output_iterations < MaxIterations
    BY <1>4, PipelineSizes DEF PipelineInv, Control
  <2>2. no_output_iterations' \in 0 .. MaxIterations
        /\ (pc' = "fill" => no_output_iterations' < MaxIterations)
    BY <1>5, <2>1, PipelineSizes
  <2>3. pc' \in {"call", "fill"} /\ decoder' \in {"DECODING", decoder}
    BY <1>5
  <2> QED
    BY <1>4, <1>8, <2>2, <2>3 DEF PipelineInv, Control, Free
<1>11. Samples'
  <2>1. decoded' = played' + Len(output'.data) /\ played' \in Nat
    <3>1. decoded' = decoded /\ played' = played + n
      BY <1>4, <1>7
    <3>2. Len(output'.data) = Len(output.data) - n /\ decoded = played + Len(output.data)
      BY <1>6, <1>8
    <3>3. played \in Nat /\ n \in Nat /\ Len(output.data) \in Nat
      BY <1>6
    <3> DEFINE before == Len(output.data)
               after == Len(output'.data)
    <3>4. after = before - n /\ decoded = played + before /\ before \in Nat
      BY <3>2, <3>3
    <3>5. decoded' = played' + after /\ played' \in Nat
      <4> HIDE DEF before, after
      <4> QED
        BY <3>1, <3>3, <3>4
    <3> QED
      BY <3>5
  <2> QED
    BY <1>5, <1>8, <1>9, <2>1 DEF Samples
<1>12. Accounting' /\ (AudioOver' <=> AudioOver)
  BY <1>1, <1>4 DEF PipelineInv, Accounting, Accounted, AudioOver
<1>13. Ending'
  <2>1. Free(output) >= Frame => Free(output') >= Frame
    <3>1. output'.start \in Nat /\ output'.size \in Nat /\ Len(output'.data) \in Nat
      BY <1>8, LenProperties DEF Buffer
    <3>2. Free(output') \in Int
      BY <3>1 DEF Free
    <3> QED
      BY <1>6, <1>8, <3>2, PipelineSizes
  <2>2. decoder' # "FINISHED"
    BY <1>4, <1>5 DEF PipelineInv, Ending
  <2> QED
    BY <1>4, <1>9, <1>12, <2>1, <2>2 DEF PipelineInv, Ending, Free
<1> QED
  BY <1>1, <1>2, <1>10, <1>11, <1>12, <1>13 DEF PipelineInv

LEMMA FillInputKeeps == ASSUME PipelineConstants, PipelineInv, FillInput PROVE PipelineInv'
<1>1. SourceInv'
  BY SourceStep, StutterKeeps DEF PipelineInv, FillInput, SourceNext
<1>2. taken' = taken /\ written' = written
  BY DEF FillInput, sourceVars, Fill, FillQueued, FillChunk
<1>3. Reading' /\ reader' = reader
  BY <1>2, ReaderWaits DEF FillInput
<1>4. /\ Accounting' /\ (AudioOver' <=> AudioOver) /\ Free(output') = Free(output)
      /\ UNCHANGED <<audioEnd, info, output, decoded, lost, glitches>>
  BY <1>2, CodecWaits DEF FillInput
<1>5. /\ pc = "fill" /\ pc' = "codec"
      /\ UNCHANGED <<decoder, no_output_iterations, end_of_file_, potentially_failed_count_,
                     played>>
  BY DEF FillInput
<1>6. Control' /\ Samples'
  BY <1>4, <1>5 DEF PipelineInv, Control, Samples
<1>7. Ending'
  BY <1>4, <1>5 DEF PipelineInv, Ending
<1> QED
  BY <1>1, <1>3, <1>4, <1>6, <1>7 DEF PipelineInv

LEMMA SetPauseKeeps ==
  ASSUME PipelineConstants, PipelineInv, NEW on \in BOOLEAN, SetPause(on)
  PROVE  PipelineInv'
<1>1. SourceInv' /\ taken' = taken /\ written' = written
  BY StutterKeeps DEF PipelineInv, SetPause, sourceVars
<1>2. Reading' /\ reader' = reader
  BY <1>1, ReaderWaits DEF SetPause
<1>3. /\ Accounting' /\ (AudioOver' <=> AudioOver) /\ Free(output') = Free(output)
      /\ UNCHANGED <<audioEnd, info, output, decoded, lost, glitches>>
  BY <1>1, CodecWaits DEF SetPause
<1>4. UNCHANGED <<decoder, pc, no_output_iterations, end_of_file_, potentially_failed_count_,
                  played>>
  BY DEF SetPause
<1>5. Control' /\ Samples'
  BY <1>3, <1>4 DEF PipelineInv, Control, Samples
<1>6. Ending'
  BY <1>2, <1>3, <1>4 DEF PipelineInv, Ending
<1> QED
  BY <1>1, <1>2, <1>3, <1>5, <1>6 DEF PipelineInv

-----------------------------------------------------------------------------
(* The codec's steps.                                                      *)

OutsideCodec == <<stop_gracefully, no_output_iterations, pause_output_, pauses, played,
                    readerVars>>

(* What all of them have in common: they come between a fill and the next  *)
(* look at the output, when it is empty, and leave the reader alone.       *)
LEMMA CodecSide ==
  ASSUME PipelineConstants, PipelineInv, pc = "codec", UNCHANGED OutsideCodec,
         SourceInv', written' = written,
         audioEnd' = audioEnd, info' \in BOOLEAN, glitches' \in Nat,
         output' \in Buffer, Free(output') >= 0,
         Run(output'.data, played), decoded' = played + Len(output'.data),
         pc' \in {"call", "flush"}, decoder' \in {"DECODING", "FAILED"},
         potentially_failed_count_' \in Nat,
         Accounting', end_of_file_' => AudioOver',
         potentially_failed_count_' > 0 => output'.data = <<>>,
         glitches' = 0 => \/ potentially_failed_count_' = 0
                          \/ AudioOver'
                          \/ potentially_failed_count_' = 1 /\ Free(output') >= Frame
  PROVE  PipelineInv'
<1>1. UNCHANGED <<no_output_iterations, played>> /\ UNCHANGED readerVars
  BY DEF OutsideCodec
<1>2. Reading' /\ reader' = reader
  BY <1>1, ReaderWaits
<1>3. Control'
  BY <1>1 DEF PipelineInv, Control, Free
<1>4. Samples'
  BY <1>1 DEF PipelineInv, Samples
<1>5. Ending'
  BY <1>1 DEF Ending, Free
<1> QED
  BY <1>2, <1>3, <1>4, <1>5 DEF PipelineInv

LEMMA CodecState ==
  ASSUME PipelineConstants, PipelineInv, pc = "codec"
  PROVE  /\ output \in Buffer /\ output.data = <<>> /\ Len(output.data) = 0
         /\ decoded = played /\ decoder # "FINISHED"
         /\ Run(output.data, played) /\ decoded = played + Len(output.data)
<1>1. output \in Buffer /\ output.data = <<>> /\ decoder # "FINISHED"
  BY DEF PipelineInv, Control, Samples, Ending
<1>2. Len(output.data) = 0
  BY <1>1, EmptySeq
<1> QED
  BY <1>1, <1>2, Positions DEF PipelineInv, Samples

(* The ways a call of the codec ends, for the counter of failures. *)
LEMMA AfterCodec ==
  ASSUME PipelineConstants, PipelineInv,
         MoreToProcess \/ PotentiallyFailed \/ EndOfFile \/ Failed \/ Idle
  PROVE  /\ pc' \in {"call", "flush"} /\ decoder' \in {"DECODING", "FAILED", decoder}
         /\ potentially_failed_count_' \in Nat
BY Positions DEF MoreToProcess, PotentiallyFailed, EndOfFile, Failed, Idle, Return

LEMMA CodecIdleKeeps ==
  ASSUME PipelineConstants, PipelineInv, CodecIdle, UNCHANGED OutsideCodec
  PROVE  PipelineInv'
<1>1. SourceInv' /\ taken' = taken /\ written' = written
  BY StutterKeeps DEF PipelineInv, CodecIdle, sourceVars
<1>2. /\ Accounting' /\ (AudioOver' <=> AudioOver) /\ Free(output') = Free(output)
      /\ UNCHANGED <<audioEnd, info, output, decoded, lost, glitches>>
  BY <1>1, CodecWaits DEF CodecIdle
<1>3. pc = "codec" /\ pc' = "call" /\ decoder' = "DECODING"
      /\ UNCHANGED <<end_of_file_, potentially_failed_count_>>
  BY DEF CodecIdle, Idle, Return
<1>4. output \in Buffer /\ Free(output) >= 0 /\ Run(output.data, played)
      /\ decoded = played + Len(output.data) /\ info \in BOOLEAN
  BY <1>3, CodecState DEF PipelineInv, Control
<1>5. /\ potentially_failed_count_' \in Nat /\ (end_of_file_' => AudioOver')
      /\ (potentially_failed_count_' > 0 => output'.data = <<>>)
      /\ glitches' = 0 => \/ potentially_failed_count_' = 0
                          \/ AudioOver'
                          \/ potentially_failed_count_' = 1 /\ Free(output') >= Frame
  BY <1>2, <1>3, Positions DEF PipelineInv, Ending
<1>6. glitches' \in Nat /\ info' \in BOOLEAN /\ output' \in Buffer /\ Free(output') >= 0
      /\ Run(output'.data, played) /\ decoded' = played + Len(output'.data)
  BY <1>2, <1>4, Positions
<1> QED
  BY <1>1, <1>2, <1>3, <1>5, <1>6, CodecSide

LEMMA CodecHeaderKeeps ==
  ASSUME PipelineConstants, PipelineInv, CodecHeader, UNCHANGED OutsideCodec
  PROVE  PipelineInv'
<1>1. PICK c \in 1 .. Smaller(Len(current), Header - taken) :
        /\ Consume(c)
        /\ info' = (taken' = Header)
        /\ output' \in IF info' THEN {output, Reallocate(output, Frame)} ELSE {output}
  BY DEF CodecHeader
<1>2. /\ pc = "codec" /\ ~info /\ MoreToProcess
      /\ UNCHANGED <<audioEnd, decoded, lost, glitches>>
  BY DEF CodecHeader, Decoding
<1>3. /\ SourceInv' /\ written' = written /\ taken' = taken + c /\ c \in Nat /\ c > 0
      /\ c <= Len(current) /\ current' # current
  BY <1>1, ConsumeKeeps DEF PipelineInv
<1>4. /\ Accounting /\ info \in BOOLEAN /\ taken < Header /\ decoded = 0 /\ lost = 0
      /\ ~end_of_file_
  BY <1>2 DEF PipelineInv, Control, Accounting, Ending, AudioOver
<1>5. taken' <= Header /\ taken' \in Nat
  <2>0. taken \in Nat /\ Header \in Nat
    BY Positions
  <2>1. Header - taken \in Int /\ Len(current) \in Nat
    <3>1. Len(current) \in Nat
      BY Lengths DEF PipelineInv, SourceInv
    <3> QED
      BY <2>0, <3>1
  <2>2. c <= Header - taken
    BY <1>1, <1>3, <2>1 DEF Smaller
  <2> QED
    BY <1>3, <2>0, <2>2
<1>6. Accounting'
  <2>1. CASE info'
    <3>1. taken' = Header
      BY <1>1, <2>1
    <3>2. Accounted' = Header
      BY <1>2, <1>4, Positions DEF Accounted
    <3>3. audioEnd' = audioEnd /\ Header < audioEnd /\ Header \in Nat /\ audioEnd \in Nat
      BY <1>2, Positions
    <3> QED
      BY <1>2, <1>4, <2>1, <3>1, <3>2, <3>3 DEF Accounting
  <2>2. CASE ~info'
    <3>1. taken' < Header
      <4>1. taken' # Header
        BY <1>1, <2>2
      <4> QED
        BY <1>5, <4>1, PipelineSizes
    <3> QED
      BY <1>2, <1>4, <2>2, <3>1 DEF Accounting
  <2> QED
    BY <2>1, <2>2
<1>7. output' \in Buffer /\ output'.data = <<>> /\ Free(output') >= 0
  <2>1. output \in Buffer /\ output.data = <<>> /\ Free(output) >= 0
    BY <1>2, CodecState, Positions
  <2>2. CASE output' = output
    BY <2>1, <2>2 DEF Free
  <2>3. CASE output' = Reallocate(output, Frame)
    BY <2>1, <2>3, ReallocateIs, PipelineSizes DEF Free
  <2> QED
    BY <1>1, <2>2, <2>3
<1>8. Run(output'.data, played) /\ decoded' = played + Len(output'.data)
  BY <1>2, <1>7, CodecState
<1>9. /\ pc' = "flush" /\ decoder' = decoder /\ end_of_file_' = end_of_file_
      /\ potentially_failed_count_' = 0
  BY <1>2, <1>3 DEF MoreToProcess
<1>10. decoder' \in {"DECODING", "FAILED"} /\ glitches' \in Nat /\ info' \in BOOLEAN
  BY <1>1, <1>2, <1>9, CodecState, Positions DEF PipelineInv, Control
<1> QED
  BY <1>2, <1>3, <1>4, <1>6, <1>7, <1>8, <1>9, <1>10, CodecSide

LEMMA CodecFrameKeeps ==
  ASSUME PipelineConstants, PipelineInv, CodecFrame, UNCHANGED OutsideCodec
  PROVE  PipelineInv'
<1>1. PICK c \in 1 .. Smaller(Len(current), FrameSize - Inside) :
        /\ Consume(c)
        /\ IF Inside + c = FrameSize
           THEN /\ output' = Increase(output, Bytes(decoded, FrameSize))
                /\ decoded' = decoded + FrameSize
           ELSE UNCHANGED <<output, decoded>>
  BY DEF CodecFrame
<1>2. /\ pc = "codec" /\ info /\ taken < audioEnd /\ Free(output) >= FrameSize
      /\ MoreToProcess /\ UNCHANGED <<audioEnd, info, lost, glitches>>
  BY DEF CodecFrame, Decoding
<1>3. /\ SourceInv' /\ written' = written /\ taken' = taken + c /\ c \in Nat /\ c > 0
      /\ c <= Len(current) /\ current' # current
  BY <1>1, ConsumeKeeps DEF PipelineInv
<1>4. /\ Accounted \in Nat /\ Accounted <= taken /\ Accounted <= audioEnd
      /\ Inside = taken - Accounted /\ ~end_of_file_
      /\ FrameSize = Smaller(Frame, audioEnd - Accounted)
  <2>1. Accounted \in Nat /\ Inside = taken - Accounted
        /\ audioEnd - Header - lost - decoded = audioEnd - Accounted
    <3>1. /\ Header \in Nat /\ lost \in Nat /\ decoded \in Nat /\ taken \in Nat
          /\ audioEnd \in Nat
      BY Positions
    <3> QED
      BY <3>1 DEF Accounted, Inside
  <2>2. Accounted <= taken /\ Accounted <= audioEnd /\ ~end_of_file_
    BY <1>2, Positions DEF PipelineInv, Accounting, Ending, AudioOver
  <2>3. FrameSize = Smaller(Frame, audioEnd - Accounted)
    BY <2>1 DEF FrameSize
  <2> QED
    BY <2>1, <2>2, <2>3
<1>20. /\ taken \in Nat /\ audioEnd \in Nat /\ taken < audioEnd /\ Frame \in Nat
      /\ Header \in Nat /\ lost \in Nat /\ decoded \in Nat
  BY <1>2, Positions, PipelineSizes
<1>5. FrameSize \in Nat /\ Accounted + FrameSize <= audioEnd /\ Inside \in Nat
  <2>1. audioEnd - Accounted \in Nat
    BY <1>4, <1>20
  <2>2. FrameSize \in Nat /\ FrameSize <= audioEnd - Accounted
    BY <1>4, <1>20, <2>1 DEF Smaller
  <2>3. Inside \in Nat
    BY <1>4, <1>20
  <2> HIDE DEF FrameSize, Inside, Accounted
  <2> QED
    BY <1>4, <1>20, <2>2, <2>3
<1>6. c <= FrameSize - Inside
  <2>1. FrameSize - Inside \in Int /\ Len(current) \in Nat
    BY <1>5, Lengths DEF PipelineInv, SourceInv
  <2> QED
    BY <1>1, <1>3, <2>1 DEF Smaller
<1> HIDE DEF FrameSize, Inside
<1>7. /\ output \in Buffer /\ output.data = <<>> /\ Len(output.data) = 0
      /\ decoded = played /\ Run(output.data, played) /\ decoder # "FINISHED"
      /\ played \in Nat /\ Free(output) >= 0
  BY <1>2, CodecState, Positions
<1>8. Accounting' /\ output' \in Buffer /\ Free(output') >= 0
      /\ Run(output'.data, played) /\ decoded' = played + Len(output'.data)
  <2>1. CASE Inside + c = FrameSize
    <3>1. Accounted' = Accounted + FrameSize
      BY SMTT(30), <1>1, <1>2, <1>5, <2>1, Positions DEF Accounted
    <3>2. taken' = Accounted'
      <4>1. /\ taken' = taken + c /\ Inside = taken - Accounted /\ Inside + c = FrameSize
            /\ taken \in Nat /\ c \in Nat /\ Accounted \in Nat
        BY <1>3, <1>4, <1>20, <2>1
      <4>2. taken + c = Accounted + (Inside + c)
        BY <4>1
      <4> QED
        BY <3>1, <4>1, <4>2
    <3>3. Accounting'
      <4>1. Accounted' \in Nat /\ Accounted' <= audioEnd /\ audioEnd' = audioEnd
        BY <1>2, <1>4, <1>5, <3>1
      <4>2. /\ Accounted' <= taken' /\ Accounted' <= audioEnd'
            /\ taken' >= audioEnd' => Accounted' = audioEnd'
        BY <1>20, <3>2, <4>1
      <4>3. info' /\ lost' = lost /\ glitches' = glitches /\ lost \in Nat
            /\ (glitches = 0 => lost = 0)
        BY <1>2, <1>20 DEF PipelineInv, Accounting
      <4> QED
        BY <4>2, <4>3 DEF Accounting
    <3>4. Run(Bytes(decoded, FrameSize), played + Len(output.data))
          /\ Len(Bytes(decoded, FrameSize)) = FrameSize
      BY <1>5, <1>7, RunBytes
    <3>5. output' = Increase(output, Bytes(decoded, FrameSize)) /\ decoded' = decoded + FrameSize
      BY <1>1, <2>1
    <3>6. Free(output) >= Len(Bytes(decoded, FrameSize))
      BY <1>2, <3>4
    <3>7. /\ output' \in Buffer /\ Free(output') >= 0 /\ Run(output'.data, played)
          /\ Len(output'.data) = Len(output.data) + FrameSize
      BY <1>7, <3>4, <3>5, <3>6, IncreaseIs DEF Free
    <3> QED
      BY <1>5, <1>7, <3>3, <3>5, <3>7
  <2>2. CASE Inside + c # FrameSize
    <3>1. output' = output /\ decoded' = decoded
      BY <1>1, <2>2
    <3>2. Accounted' = Accounted
      BY <1>2, <3>1 DEF Accounted
    <3>3. Accounted' <= taken' /\ taken' < audioEnd
      <4>1. c < FrameSize - Inside
        BY <1>3, <1>5, <1>6, <2>2
      <4>2. /\ taken' = taken + c /\ Inside = taken - Accounted /\ taken \in Nat /\ c \in Nat
            /\ Accounted \in Nat /\ Accounted <= taken
        BY <1>3, <1>4, <1>20
      <4>3. taken + c < Accounted + FrameSize
        BY <1>5, <4>1, <4>2
      <4> QED
        BY <1>5, <1>20, <3>2, <4>2, <4>3
    <3>4. Accounting'
      <4>1. Accounted' \in Nat /\ taken' \in Nat /\ audioEnd' = audioEnd
        BY <1>2, <1>3, <1>4, <1>20, <3>2
      <4>2. /\ Accounted' <= taken' /\ Accounted' <= audioEnd'
            /\ ~(taken' >= audioEnd')
        BY <1>4, <1>20, <3>2, <3>3, <4>1
      <4>3. info' /\ lost' = lost /\ glitches' = glitches /\ lost \in Nat
            /\ (glitches = 0 => lost = 0)
        BY <1>2, <1>20 DEF PipelineInv, Accounting
      <4> QED
        BY <4>2, <4>3 DEF Accounting
    <3> QED
      BY <1>7, <3>1, <3>4 DEF Free
  <2> QED
    BY <2>1, <2>2
<1>9. /\ pc' = "flush" /\ decoder' = decoder /\ end_of_file_' = end_of_file_
      /\ potentially_failed_count_' = 0
  BY <1>2, <1>3 DEF MoreToProcess
<1>10. decoder' \in {"DECODING", "FAILED"} /\ glitches' \in Nat /\ info' \in BOOLEAN
  BY <1>2, <1>7, <1>9, Positions DEF PipelineInv, Control
<1> QED
  BY <1>2, <1>3, <1>4, <1>8, <1>9, <1>10, CodecSide

LEMMA CodecTooSmallKeeps ==
  ASSUME PipelineConstants, PipelineInv, CodecTooSmall, UNCHANGED OutsideCodec
  PROVE  PipelineInv'
<1>1. /\ pc = "codec" /\ info /\ taken < audioEnd /\ Free(output) < FrameSize
      /\ output' = Reallocate(output, Frame) /\ MoreToProcess /\ UNCHANGED sourceVars
      /\ UNCHANGED <<audioEnd, info, decoded, lost, glitches>>
  BY DEF CodecTooSmall, Decoding
<1>2. SourceInv' /\ taken' = taken /\ written' = written /\ current' = current
  BY <1>1, StutterKeeps DEF PipelineInv, sourceVars
<1>3. /\ output \in Buffer /\ output.data = <<>> /\ Len(output.data) = 0
      /\ decoded = played /\ Run(output.data, played) /\ decoder # "FINISHED"
      /\ Free(output) \in Int /\ played \in Nat
  BY <1>1, CodecState, Positions
<1>4. output' \in Buffer /\ output'.data = <<>> /\ Free(output') = Frame /\ Frame \in Nat
  BY <1>1, <1>3, ReallocateIs, PipelineSizes DEF Free
<1>5. ~(Free(output) >= Frame)
  <2>1. audioEnd - Header - lost - decoded \in Int
    BY Positions
  <2>2. FrameSize \in Int /\ FrameSize <= Frame
    BY <1>4, <2>1 DEF FrameSize, Smaller
  <2> QED
    BY <1>1, <1>3, <1>4, <2>2
<1>6. ~AudioOver /\ ~end_of_file_ /\ (glitches = 0 => potentially_failed_count_ = 0)
  <2>1. ~AudioOver
    BY <1>1, Positions DEF AudioOver
  <2> QED
    BY <1>5, <2>1 DEF PipelineInv, Ending
<1>7. Accounting'
  BY <1>1, <1>2 DEF PipelineInv, Accounting, Accounted
<1>8. /\ pc' = "flush" /\ decoder' = decoder /\ end_of_file_' = end_of_file_
      /\ potentially_failed_count_' = potentially_failed_count_ + 1
  BY <1>1, <1>2, <1>4 DEF MoreToProcess
<1>9. /\ decoder' \in {"DECODING", "FAILED"} /\ glitches' \in Nat /\ info' \in BOOLEAN
      /\ potentially_failed_count_' \in Nat
  BY <1>1, <1>3, <1>8, Positions DEF PipelineInv, Control
<1>10. Free(output') >= 0 /\ Free(output') >= Frame
       /\ Run(output'.data, played) /\ decoded' = played + Len(output'.data)
  BY <1>1, <1>3, <1>4
<1>11. glitches' = 0 => potentially_failed_count_' = 1
  BY <1>1, <1>6, <1>8
<1> QED
  BY <1>1, <1>2, <1>4, <1>6, <1>7, <1>8, <1>9, <1>10, <1>11, CodecSide

LEMMA CodecAfterAudioKeeps ==
  ASSUME PipelineConstants, PipelineInv, CodecAfterAudio, UNCHANGED OutsideCodec
  PROVE  PipelineInv'
<1>1. PICK c \in 0 .. Len(current) :
        Eat(c) /\ (EndOfFile \/ PotentiallyFailed \/ (c > 0 /\ MoreToProcess))
  BY DEF CodecAfterAudio
<1>2. /\ pc = "codec" /\ info /\ taken >= audioEnd
      /\ UNCHANGED <<audioEnd, info, output, decoded, lost, glitches>>
  BY DEF CodecAfterAudio, Decoding, codecVars
<1>3. SourceInv' /\ written' = written /\ taken' \in Nat /\ taken' >= taken
  <2>1. taken \in Nat /\ SourceInv
    BY Positions DEF PipelineInv
  <2>2. CASE c = 0
    BY <1>1, <2>1, <2>2, StutterKeeps DEF Eat, sourceVars
  <2>3. CASE c # 0
    <3>1. SourceInv' /\ written' = written /\ taken' = taken + c /\ c \in Nat
      BY <1>1, <2>1, <2>3, ConsumeKeeps DEF Eat
    <3> QED
      BY <2>1, <3>1
  <2> QED
    BY <2>2, <2>3
<1>4. AudioOver' /\ AudioOver
  <2>1. taken \in Nat /\ audioEnd \in Nat
    BY Positions
  <2> QED
    BY <1>2, <1>3, <2>1 DEF AudioOver
<1>5. Accounting'
  <2>1. /\ Accounted = audioEnd /\ Accounted' = Accounted /\ lost \in Nat
        /\ (glitches = 0 => lost = 0)
    BY <1>2 DEF PipelineInv, Accounting, Accounted
  <2>2. audioEnd \in Nat /\ taken \in Nat
    BY Positions
  <2>3. audioEnd <= taken'
    BY <1>2, <1>3, <2>2
  <2> QED
    BY <1>2, <2>1, <2>2, <2>3 DEF Accounting
<1>6. /\ output \in Buffer /\ output.data = <<>> /\ decoder # "FINISHED"
      /\ Run(output.data, played) /\ decoded = played + Len(output.data)
      /\ Free(output) >= 0 /\ glitches \in Nat
  BY <1>2, CodecState, Positions
<1>7. /\ pc' \in {"call", "flush"} /\ decoder' \in {"DECODING", "FAILED", decoder}
      /\ potentially_failed_count_' \in Nat
  BY <1>1, AfterCodec
<1>8. Free(output') >= 0 /\ decoder' \in {"DECODING", "FAILED"} /\ info' \in BOOLEAN
  BY <1>2, <1>6, <1>7 DEF Free, PipelineInv, Control
<1> QED
  BY <1>2, <1>3, <1>4, <1>5, <1>6, <1>7, <1>8, CodecSide

LEMMA CodecGlitchKeeps ==
  ASSUME PipelineConstants, PipelineInv, CodecGlitch, UNCHANGED OutsideCodec
  PROVE  PipelineInv'
<1>1. /\ pc = "codec" /\ glitches' = glitches + 1 /\ UNCHANGED <<audioEnd, info, output, decoded>>
  BY DEF CodecGlitch, Decoding
<1>2. /\ output \in Buffer /\ output.data = <<>> /\ decoder # "FINISHED"
      /\ Run(output.data, played) /\ decoded = played + Len(output.data)
      /\ Free(output) >= 0 /\ glitches \in Nat
  BY <1>1, CodecState, Positions
<1>3. glitches' \in Nat /\ glitches' # 0
  BY <1>1, <1>2
<1>4. /\ pc' \in {"call", "flush"} /\ decoder' \in {"DECODING", "FAILED", decoder}
      /\ potentially_failed_count_' \in Nat /\ end_of_file_' = end_of_file_
  <2>1. PotentiallyFailed \/ Failed \/ MoreToProcess
    BY DEF CodecGlitch
  <2>2. end_of_file_' = end_of_file_
    BY <2>1 DEF PotentiallyFailed, Failed, MoreToProcess
  <2> QED
    BY <2>1, <2>2, AfterCodec
<1>5. SourceInv' /\ written' = written /\ Accounting' /\ (end_of_file_' => AudioOver')
  <2>1. CASE /\ info /\ taken < audioEnd
             /\ \E c \in 1 .. Smaller(Len(current), FrameSize - Inside) :
                  Consume(c) /\ lost' = lost + Inside + c
    <3>1. PICK c \in 1 .. Smaller(Len(current), FrameSize - Inside) :
                  Consume(c) /\ lost' = lost + Inside + c
      BY <2>1
    <3>2. /\ SourceInv' /\ written' = written /\ taken' = taken + c /\ c \in Nat /\ c > 0
          /\ c <= Len(current)
      BY <3>1, ConsumeKeeps DEF PipelineInv
    <3>3. /\ Header \in Nat /\ lost \in Nat /\ decoded \in Nat /\ taken \in Nat
          /\ audioEnd \in Nat /\ Frame \in Nat /\ Len(current) \in Nat
      BY Positions, PipelineSizes, Lengths DEF PipelineInv, SourceInv
    <3>4. /\ Accounted \in Nat /\ Inside = taken - Accounted
          /\ FrameSize = Smaller(Frame, audioEnd - Accounted)
      BY <3>3 DEF Accounted, Inside, FrameSize
    <3>5. Accounted <= taken /\ ~end_of_file_
      BY <2>1, <3>3 DEF PipelineInv, Accounting, Ending, AudioOver
    <3>6. c <= FrameSize - Inside /\ FrameSize <= audioEnd - Accounted /\ FrameSize \in Int
          /\ Inside \in Nat
      <4>1. audioEnd - Accounted \in Int /\ Inside \in Nat
        BY <3>3, <3>4, <3>5
      <4>2. FrameSize \in Int /\ FrameSize <= audioEnd - Accounted
        BY <3>3, <3>4, <4>1 DEF Smaller
      <4>3. c <= FrameSize - Inside
        <5>1. FrameSize - Inside \in Int
          BY <4>1, <4>2
        <5> HIDE DEF FrameSize, Inside
        <5> QED
          BY <3>1, <3>2, <3>3, <5>1 DEF Smaller
      <4> QED
        BY <4>1, <4>2, <4>3
    <3> HIDE DEF FrameSize, Inside
    <3>7. lost' = lost + Inside + c /\ lost' \in Nat
      BY <3>1, <3>2, <3>3, <3>6
    <3>8. Accounted' = taken'
      <4>1. Accounted' = Accounted + Inside + c
        BY <1>1, <3>2, <3>3, <3>6, <3>7 DEF Accounted
      <4> HIDE DEF Accounted
      <4> QED
        BY <3>2, <3>3, <3>4, <4>1
    <3>9. taken' <= audioEnd /\ taken' \in Nat
      <4> HIDE DEF Accounted
      <4> QED
        BY <3>2, <3>3, <3>4, <3>6
    <3>10. Accounting'
      <4>1. /\ Accounted' <= taken' /\ Accounted' <= audioEnd'
            /\ taken' >= audioEnd' => Accounted' = audioEnd'
        BY <1>1, <3>3, <3>8, <3>9
      <4> QED
        BY <1>1, <1>3, <2>1, <3>7, <4>1 DEF Accounting
    <3> QED
      BY <1>4, <3>2, <3>5, <3>10
  <2>2. CASE UNCHANGED <<sourceVars, lost>>
    <3>1. SourceInv' /\ written' = written /\ taken' = taken
      BY <2>2, StutterKeeps DEF PipelineInv, sourceVars
    <3>2. Accounting' /\ (AudioOver' <=> AudioOver)
      BY <1>1, <1>3, <2>2, <3>1 DEF PipelineInv, Accounting, Accounted, AudioOver
    <3> QED
      BY <1>4, <3>1, <3>2 DEF PipelineInv, Ending
  <2> QED
    BY <2>1, <2>2 DEF CodecGlitch
<1>6. Free(output') >= 0 /\ decoder' \in {"DECODING", "FAILED"} /\ info' \in BOOLEAN
  BY <1>1, <1>2, <1>4 DEF Free, PipelineInv, Control
<1>7. /\ output' \in Buffer /\ output'.data = <<>> /\ Run(output'.data, played)
      /\ decoded' = played + Len(output'.data)
  BY <1>1, <1>2
<1> QED
  BY <1>1, <1>3, <1>4, <1>5, <1>6, <1>7, CodecSide

-----------------------------------------------------------------------------
(* The pipeline.                                                           *)

LEMMA PipelineStutter == ASSUME PipelineInv, UNCHANGED pipelineVars PROVE PipelineInv'
<1>1. /\ UNCHANGED sourceVars /\ UNCHANGED readerVars /\ UNCHANGED decoderVars
      /\ UNCHANGED codecVars
  BY DEF pipelineVars
<1>2. SourceInv' /\ written' = written /\ taken' = taken
  BY <1>1, StutterKeeps DEF PipelineInv, sourceVars
<1>3. Reading' /\ reader' = reader
  BY <1>1, <1>2, ReaderWaits
<1>4. /\ Accounting' /\ (AudioOver' <=> AudioOver) /\ Free(output') = Free(output)
      /\ UNCHANGED <<audioEnd, info, output, decoded, lost, glitches>>
  BY <1>1, <1>2, CodecWaits
<1>5. Control' /\ Samples' /\ Ending'
  BY <1>1, <1>3, <1>4 DEF PipelineInv, decoderVars, Control, Samples, Ending
<1> QED
  BY <1>2, <1>3, <1>4, <1>5 DEF PipelineInv

LEMMA PipelineStep ==
  ASSUME PipelineConstants, PipelineInv, [PipelineNext]_pipelineVars
  PROVE  PipelineInv'
<1>1. CASE Codec
  <2>1. UNCHANGED OutsideCodec
    BY <1>1 DEF Codec, OutsideCodec
  <2> QED
    BY <1>1, <2>1, CodecIdleKeeps, CodecHeaderKeeps, CodecFrameKeeps, CodecTooSmallKeeps,
       CodecAfterAudioKeeps, CodecGlitchKeeps DEF Codec
<1>2. CASE \E on \in BOOLEAN : SetPause(on)
  BY <1>2, SetPauseKeeps
<1>3. CASE StartFile \/ StartHttp \/ FileRead \/ HttpRead
  BY <1>3, StartFileKeeps, StartHttpKeeps, FileReadKeeps, HttpReadKeeps
<1>4. CASE StartDecoder \/ Call \/ Flush \/ FillInput
  BY <1>4, StartDecoderKeeps, CallKeeps, FlushKeeps, FillInputKeeps
<1> QED
  BY <1>1, <1>2, <1>3, <1>4, PipelineStutter DEF PipelineNext

LEMMA PipelineAlways == ASSUME PipelineConstants PROVE PipelineSpec => []PipelineInv
<1>1. PipelineInit => PipelineInv
  BY PipelineInitKeeps
<1>2. PipelineInv /\ [PipelineNext]_pipelineVars => PipelineInv'
  BY PipelineStep
<1> QED
  BY <1>1, <1>2, PTL DEF PipelineSpec

LEMMA PipelineMeans ==
  ASSUME PipelineConstants, PipelineInv
  PROVE  SamplesInOrder /\ FinishedMeansAll /\ PipelineTypeOK
<1>1. SamplesInOrder
  <2>1. /\ Run(output.data, played) /\ played \in Nat /\ decoded = played + Len(output.data)
        /\ Run(input.data, written) /\ written \in Nat /\ Len(output.data) \in Nat
    BY Positions DEF PipelineInv, Samples, Reading
  <2>2. decoded - played = Len(output.data)
    BY <2>1
  <2> QED
    BY <2>1, <2>2, RunIs DEF SamplesInOrder
<1>2. FinishedMeansAll
  BY DEF PipelineInv, Reading, Ending, FinishedMeansAll
<1>3. PipelineTypeOK
  BY DEF PipelineInv, Reading, Control, PipelineTypeOK
<1> QED
  BY <1>1, <1>2, <1>3

(* Between the file and the sink nothing is lost, repeated or reordered,   *)
(* whatever the sizes of the buffers and the ring, and wherever data_start_ *)
(* stands in them.                                                         *)
THEOREM SamplesCorrect == ASSUME PipelineConstants PROVE PipelineSpec => []SamplesInOrder
BY PipelineAlways, PipelineMeans, PTL

(* A FINISHED that no corrupt data explains comes after the last sample of *)
(* the audio has been heard.                                               *)
THEOREM FinishedCorrect == ASSUME PipelineConstants PROVE PipelineSpec => []FinishedMeansAll
BY PipelineAlways, PipelineMeans, PTL

(* Neither transfer buffer is ever overfilled, decode() never loops beyond *)
(* its bound, and a reader that has finished has closed its client.        *)
THEOREM PipelineTypeCorrect == ASSUME PipelineConstants PROVE PipelineSpec => []PipelineTypeOK
BY PipelineAlways, PipelineMeans, PTL

(* The reader writes to the ring, and the decoder fills and consumes, in   *)
(* no other way than the source allows.                                    *)
LEMMA PipelineStepOfSource ==
  ASSUME PipelineInv, [PipelineNext]_pipelineVars
  PROVE  [SourceNext]_sourceVars
<1>1. CASE HttpRead
  <2>1. PICK n \in 0 .. Len(input.data) :
          IF n > 0 THEN WriteRing(First(input.data, n)) ELSE UNCHANGED sourceVars
    BY <1>1 DEF HttpRead
  <2>2. CASE n > 0
    <3>1. written \in Nat /\ Run(input.data, written) /\ written + Len(input.data) <= FileLength
      BY DEF PipelineInv, SourceInv, Order, Reading, Received
    <3>2. Len(input.data) \in Nat /\ n \in Nat
      BY <3>1, RunLen
    <3>3. n \in 1 .. FileLength - written
      BY <2>2, <3>1, <3>2, AudioSizes
    <3>4. First(input.data, n) = Bytes(written, n)
      <4>1. Run(First(input.data, n), written) /\ Len(First(input.data, n)) = n
        BY <3>1, RunFirst
      <4> HIDE DEF First
      <4> QED
        BY <3>1, <4>1, RunIs
    <3>5. WriteRing(Bytes(written, n))
      BY <2>1, <2>2, <3>4
    <3> QED
      BY <3>3, <3>5 DEF SourceNext, Write
  <2> QED
    BY <2>1, <2>2
<1>2. CASE Codec
  <2>1. UNCHANGED sourceVars \/ \E c : Consume(c)
    BY <1>2 DEF Codec, CodecIdle, CodecHeader, CodecFrame, CodecTooSmall, CodecAfterAudio,
               CodecGlitch, Eat
  <2>2. (\E c : Consume(c)) => \E c \in 1 .. Len(current) : Consume(c)
    BY DEF Consume
  <2> QED
    BY <2>1, <2>2 DEF SourceNext
<1>3. CASE StartFile \/ StartHttp \/ StartDecoder \/ Call \/ Flush
           \/ \E on \in BOOLEAN : SetPause(on)
  BY <1>3 DEF StartFile, StartHttp, StartDecoder, Call, Flush, FlushTo, SetPause
<1>4. CASE FileRead \/ FillInput
  BY <1>4 DEF FileRead, FillInput, SourceNext
<1>5. CASE UNCHANGED pipelineVars
  BY <1>5 DEF pipelineVars
<1> QED
  BY <1>1, <1>2, <1>3, <1>4, <1>5 DEF PipelineNext

(* The pipeline implements the source: the promises proved of a source and *)
(* any consumer hold of the decoder's.                                     *)
THEOREM PipelineImplementsSource == ASSUME PipelineConstants PROVE PipelineSpec => SourceSpec
<1>1. PipelineInit => SourceInit
  BY DEF PipelineInit
<1>2. PipelineInv /\ [PipelineNext]_pipelineVars => [SourceNext]_sourceVars
  BY PipelineStepOfSource
<1> QED
  BY <1>1, <1>2, PipelineAlways, PTL DEF PipelineSpec, SourceSpec
==============================================================================
