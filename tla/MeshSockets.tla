----------------------------- MODULE MeshSockets ------------------------------
(***************************************************************************)
(* The descriptors of the mesh's stream sockets                            *)
(* (components/socket/meshmesh_socket_impl): every MeshMeshSocketImpl      *)
(* finds its MeshSocket through a map that all of them share.              *)
(*                                                                         *)
(* A MeshSocket is a record of the library, known here by a serial number; *)
(* its data are the library's business.  Keys of the map are uint16_t,     *)
(* last_fd_ is an int: Keys is 2^16.                                       *)
(***************************************************************************)
EXTENDS Integers

CONSTANTS Impl,        (* the socket objects that exist at a time *)
          Keys,
          MaxSockets   (* MeshSockets ever created *)

SocketConstants == Keys \in Nat \ {0} /\ MaxSockets \in Nat

None == -1

VARIABLES
  last_fd_,    (* the next descriptor: MeshSockets created so far *)
  sockets_,    (* [keys in use -> MeshSocket] *)
  impl,        (* [Impl -> [fd, closed, own, alive]], own being the MeshSocket *)
               (* it was made for                                              *)
  heap,        (* the MeshSockets that have not been deleted *)
  listening,   (* the MeshSockets that listen() was called on *)
  aborted,     (* a lookup has thrown: the node restarts *)
  outlived,    (* history: an object has stayed open while Keys more sockets *)
               (* were created                                               *)
  late,        (* history: an object was used after its close() *)
  crossed      (* history: an object found a MeshSocket that is not its own *)

socketVars ==
  <<last_fd_, sockets_, impl, heap, listening, aborted, outlived, late, crossed>>

Gone == [fd |-> None, closed |-> TRUE, own |-> None, alive |-> FALSE]

SocketsInit ==
  /\ last_fd_ = 0
  /\ sockets_ = << >>
  /\ impl = [i \in Impl |-> Gone]
  /\ heap = {} /\ listening = {}
  /\ aborted = FALSE
  /\ outlived = FALSE /\ late = FALSE /\ crossed = FALSE

Open == {i \in Impl : impl[i].alive /\ ~impl[i].closed}

(* The key is a uint16_t: the descriptor of a closed object, -1, is key    *)
(* Keys - 1.                                                               *)
Key(fd) == fd % Keys
Found(i) == Key(impl[i].fd) \in DOMAIN sockets_
Get(i) == sockets_[Key(impl[i].fd)]

(* getSocket() is sockets_.at(): a key that is not there is no nullptr. *)
Throws(i) ==
  /\ ~Found(i) /\ aborted' = TRUE
  /\ UNCHANGED <<last_fd_, sockets_, impl, heap, listening, outlived, crossed>>
Reaches(i) ==
  /\ Found(i) /\ UNCHANGED aborted
  /\ crossed' = (crossed \/ Get(i) # impl[i].own)

(* A method that looks its socket up, without a look at closed_. *)
Uses(i) == ~aborted /\ impl[i].alive /\ late' = (late \/ impl[i].closed)

(* addSocket(), and the object that is made for the descriptor. *)
Add(i) ==
  /\ ~impl[i].alive /\ last_fd_ < MaxSockets
  /\ sockets_' = [k \in DOMAIN sockets_ \cup {Key(last_fd_)} |->
                    IF k = Key(last_fd_) THEN last_fd_ ELSE sockets_[k]]
  /\ last_fd_' = last_fd_ + 1
  /\ heap' = heap \cup {last_fd_}
  /\ impl' = [impl EXCEPT ![i] = [fd |-> last_fd_, closed |-> FALSE,
                                  own |-> last_fd_, alive |-> TRUE]]
  /\ outlived' = (outlived \/ \E j \in Open : last_fd_ - impl[j].own >= Keys)
  /\ UNCHANGED listening

CreateSocket(i) == ~aborted /\ Add(i) /\ UNCHANGED <<aborted, late, crossed>>

(* bind() and listen(): what they do to the MeshSocket is its business, but *)
(* that it listens.                                                         *)
BindListen(i) ==
  /\ Uses(i)
  /\ \/ Throws(i)
     \/ /\ Reaches(i)
        /\ listening' = listening \cup {Get(i)}
        /\ UNCHANGED <<last_fd_, sockets_, impl, heap, outlived>>

(* accept_loop_monitored(): a new object j for a connection of the socket   *)
(* found; where nobody waits it is a lookup as in Transfer.                 *)
Accept(i, j) == Uses(i) /\ Reaches(i) /\ Get(i) \in listening /\ Add(j)

(* read, readv, write, send, writev, getpeername: they look the socket up, *)
(* whatever it then moves.                                                 *)
Transfer(i) ==
  /\ Uses(i)
  /\ \/ Throws(i)
     \/ /\ Reaches(i)
        /\ UNCHANGED <<last_fd_, sockets_, impl, heap, listening, outlived>>

(* removeSocket().  The mutant forgets to. *)
StillThere(fd) == sockets_
Erased(fd) == [k \in DOMAIN sockets_ \ {Key(fd)} |-> sockets_[k]]

(* What close() does to the socket of an object that is not yet closed, and *)
(* leaves of the object.                                                    *)
Closes(i, left) ==
  \/ Throws(i)
  \/ /\ Reaches(i)
     /\ heap' = heap \ {Get(i)} /\ listening' = listening \ {Get(i)}
     /\ sockets_' = Erased(impl[i].fd)
     /\ impl' = [impl EXCEPT ![i] = left]
     /\ UNCHANGED <<last_fd_, outlived>>

(* close(), shutdown(); a second one finds closed_ and does nothing. *)
Close(i) ==
  /\ ~aborted /\ i \in Open
  /\ Closes(i, [fd |-> None, closed |-> TRUE, own |-> impl[i].own, alive |-> TRUE])
  /\ UNCHANGED late

(* The destructor closes what is not yet closed. *)
Destroy(i) ==
  /\ ~aborted /\ impl[i].alive
  /\ \/ i \in Open /\ Closes(i, Gone)
     \/ /\ impl[i].closed
        /\ impl' = [impl EXCEPT ![i] = Gone]
        /\ UNCHANGED <<last_fd_, sockets_, heap, listening, aborted, outlived, crossed>>
  /\ UNCHANGED late

SocketsNext ==
  \E i \in Impl :
    \/ CreateSocket(i) \/ BindListen(i) \/ Transfer(i) \/ Close(i) \/ Destroy(i)
    \/ \E j \in Impl \ {i} : Accept(i, j)

SocketsSpec == SocketsInit /\ [][SocketsNext]_socketVars

----------------------------------------------------------------------------
(* Properties. *)

SocketsTypeOK ==
  /\ last_fd_ \in 0 .. MaxSockets
  /\ DOMAIN sockets_ \subseteq 0 .. Keys - 1
  /\ \A i \in Impl : impl[i].fd \in None .. MaxSockets - 1
  /\ heap \subseteq 0 .. MaxSockets - 1 /\ listening \subseteq heap

(* Unless one has outlived Keys others, every open object finds the        *)
(* MeshSocket that was made for it, not deleted, which nobody else finds;  *)
(* no entry is left behind, and no MeshSocket that nobody can close        *)
(* (addSocket, getSocket and close share one map and a key of 16 bits; a   *)
(* listener loses its own to the 65536th connection after it).  No lookup  *)
(* throws but one of an object that is closed already, whose descriptor is *)
(* -1; and such a lookup finds somebody else's socket only once the        *)
(* descriptors have reached the last key.                                  *)
SocketsMatch ==
  ~outlived =>
    /\ heap = {impl[i].own : i \in Open}
    /\ DOMAIN sockets_ = {Key(impl[i].fd) : i \in Open}
    /\ \A i \in Open : Found(i) /\ Get(i) = impl[i].own
    /\ aborted => late
    /\ crossed => late /\ last_fd_ >= Keys
=============================================================================
