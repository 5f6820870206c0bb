--------------------------------- MODULE Ping ---------------------------------
(***************************************************************************)
(* The ping component (components/ping): a node asks its target for an     *)
(* answer once an interval and publishes whether the target is present.    *)
(*                                                                         *)
(* Time passes in ticks.  The main loop goes round many times a tick, so a *)
(* tick waits for whatever is due.  mLastPingTime is kept as the age of    *)
(* the ping, and as Never when it is 0.                                    *)
(***************************************************************************)
EXTENDS Integers, FiniteSets

CONSTANTS Node, NoNode,
          Coordinator,     (* the node mesh->isCoordinator() is true of *)
          ToCoordinator,   (* the nodes configured with address: coordinator *)
          Address,         (* [Node -> Node \cup {NoNode}]: the configured   *)
                           (* target of the others; NoNode is address 1, a   *)
                           (* server.  A node with address 0 opens no socket *)
                           (* (openSocket), neither asks nor answers, and is *)
                           (* not in Node.                                   *)
          Interval,        (* update_interval, in ticks *)
          Second,          (* the 1000 ms of loop() and of recvDatagram() *)
          MaxDelay,        (* the longest a datagram travels *)
          MaxLate,         (* how much longer a postponed one does *)
          MaxFaults, MaxCrashes

ASSUME PingConstants ==
  /\ NoNode \notin Node /\ Coordinator \in Node /\ ToCoordinator \subseteq Node
  /\ Address \in [Node -> Node \cup {NoNode}]
  /\ {Interval, Second, MaxDelay, MaxLate, MaxFaults, MaxCrashes} \subseteq Nat
  (* With a shorter interval every ping restarts the timeout of the last.  *)
  /\ Second > 0 /\ Interval > Second + 1

Never == -1

(* What setup() makes of the configuration: a coordinator that would ping  *)
(* itself is a server and pings nobody.                                    *)
Target == [n \in Node |-> IF n \notin ToCoordinator THEN Address[n]
                          ELSE IF n = Coordinator THEN NoNode ELSE Coordinator]
Pinging == {n \in Node : Target[n] # NoNode}

VARIABLES
  mLastPingTime,   (* [Node -> Never or ticks since the ping] *)
  presence,        (* [Node -> "present", "absent" or "unknown"], the *)
                   (* state of mPresenceSensor, unknown until published  *)
  due,             (* [Node -> ticks until the next update()] *)
  up,              (* the nodes that run *)
  uptime,          (* [Node -> ticks since its boot, up to Second]: millis() *)
  air,             (* the datagrams on their way: a set of records, the copy *)
                   (* number telling repeated ones apart *)
  faults, crashes,
  together,        (* history: [Node -> ticks for which the node and its     *)
                   (* target have run without a crash]                       *)
  alone            (* history: [Node -> ticks since the target crashed]      *)

pingVars ==
  <<mLastPingTime, presence, due, up, uptime, air, faults, crashes, together, alone>>

Datagram == [kind : {"PING", "PONG"}, from : Node, to : Node,
             age : -MaxLate .. MaxDelay, copy : 0 .. MaxFaults]

(* How long the history counts. *)
Horizon == Interval + Second + 2 * MaxDelay + MaxFaults * MaxLate + 2
Count(t) == IF t < Horizon THEN t + 1 ELSE t

Packet(kind, n, m, c) == [kind |-> kind, from |-> n, to |-> m, age |-> 0, copy |-> c]
Published(b) == IF b THEN "present" ELSE "absent"

PingInit ==
  /\ mLastPingTime = [n \in Node |-> Never]
  /\ presence = [n \in Node |-> "unknown"]
  /\ due = [n \in Node |-> Interval]
  /\ up = Node /\ uptime = [n \in Node |-> 0]
  /\ air = {}
  /\ faults = 0 /\ crashes = 0
  /\ together = [n \in Node |-> 0]
  /\ alone = [n \in Node |-> 0]

Fault == faults < MaxFaults /\ faults' = faults + 1
SameHistory == UNCHANGED <<up, uptime, crashes, together, alone>>

(* loop(): an answer is overdue. *)
TimedOutAfterNext(age) == age > Interval    (* mutant: the next ping comes first *)
TimedOut(age) == age > Second

Loop(n) ==
  /\ n \in up /\ TimedOut(mLastPingTime[n])
  /\ mLastPingTime' = [mLastPingTime EXCEPT ![n] = Never]
  /\ presence' = [presence EXCEPT ![n] = Published(FALSE)]
  /\ UNCHANGED <<due, air, faults>> /\ SameHistory

(* update(): the time is stored before the ping is sent. *)
Update(n) ==
  /\ n \in up /\ n \in Pinging /\ due[n] = 0
  /\ due' = [due EXCEPT ![n] = Interval]
  /\ mLastPingTime' = [mLastPingTime EXCEPT ![n] = 0]
  /\ \/ /\ air' = air \cup {Packet("PING", n, Target[n], 0)}
        /\ UNCHANGED <<presence, faults>>
     \/ /\ Fault   (* sendDatagram fails *)
        /\ presence' = [presence EXCEPT ![n] = IF @ = "present" THEN Published(FALSE) ELSE @]
        /\ UNCHANGED air
  /\ SameHistory

(* recvDatagram(): whoever asks is answered; an answer is taken from       *)
(* anybody.  With mLastPingTime = 0 the age is the time since boot.        *)
InTimeAfterReset(n) == uptime[n] < Second   (* mutant: mLastPingTime is reset before *)
                                            (* it is read                            *)
InTime(n) == IF mLastPingTime[n] = Never THEN uptime[n] < Second
             ELSE mLastPingTime[n] < Second

RecvPing(n, d) ==
  /\ d.kind = "PING"
  /\ air' = (air \ {d}) \cup {Packet("PONG", n, d.from, d.copy)}
  /\ UNCHANGED <<mLastPingTime, presence>>

RecvPong(n, d) ==
  /\ d.kind = "PONG"
  /\ presence' = [presence EXCEPT ![n] = Published(InTime(n))]
  /\ mLastPingTime' = [mLastPingTime EXCEPT ![n] = Never]
  /\ air' = air \ {d}

RecvDatagram(n, d) ==
  /\ d \in air /\ d.to = n /\ d.age >= 0
  /\ IF n \in up THEN RecvPing(n, d) \/ RecvPong(n, d)
     ELSE air' = air \ {d} /\ UNCHANGED <<mLastPingTime, presence>>
  /\ UNCHANGED <<due, faults>> /\ SameHistory

(* The mesh loses a datagram, delivers it again, or late. *)
Lose(d) ==
  /\ Fault /\ air' = air \ {d}
  /\ UNCHANGED <<mLastPingTime, presence, due>> /\ SameHistory

Repeat(d) ==
  /\ Fault /\ air' = air \cup {[d EXCEPT !.copy = faults + 1]}
  /\ UNCHANGED <<mLastPingTime, presence, due>> /\ SameHistory

Postpone(d) ==
  /\ Fault /\ d.age = 0
  /\ air' = (air \ {d}) \cup {[d EXCEPT !.age = -MaxLate]}
  /\ UNCHANGED <<mLastPingTime, presence, due>> /\ SameHistory

Crash(n) ==
  /\ n \in up /\ crashes < MaxCrashes
  /\ crashes' = crashes + 1
  /\ up' = up \ {n} /\ uptime' = [uptime EXCEPT ![n] = 0]
  /\ mLastPingTime' = [mLastPingTime EXCEPT ![n] = Never]
  /\ presence' = [presence EXCEPT ![n] = "unknown"]
  /\ together' = [m \in Node |-> IF n \in {m, Target[m]} THEN 0 ELSE together[m]]
  /\ UNCHANGED <<due, air, faults, alone>>

(* setup(), and the first update an interval later. *)
Boot(n) ==
  /\ n \notin up
  /\ up' = up \cup {n} /\ UNCHANGED uptime
  /\ due' = [due EXCEPT ![n] = Interval]
  /\ together' = [m \in Node |-> IF n \in {m, Target[m]} THEN 0 ELSE together[m]]
  /\ alone' = [m \in Node |-> IF Target[m] = n THEN 0 ELSE alone[m]]
  /\ UNCHANGED <<mLastPingTime, presence, air, faults, crashes>>

Tick ==
  /\ \A n \in up : ~TimedOut(mLastPingTime[n]) /\ (n \in Pinging => due[n] > 0)
  /\ \A d \in air : d.age < MaxDelay
  /\ air' = {[d EXCEPT !.age = @ + 1] : d \in air}
  /\ mLastPingTime' = [n \in Node |-> IF mLastPingTime[n] = Never THEN Never
                                      ELSE mLastPingTime[n] + 1]
  /\ due' = [n \in Node |-> IF n \in Pinging \cap up THEN due[n] - 1 ELSE due[n]]
  /\ uptime' = [n \in Node |-> IF n \in up /\ uptime[n] < Second THEN uptime[n] + 1
                               ELSE uptime[n]]
  /\ together' = [n \in Node |-> IF {n, Target[n]} \subseteq up THEN Count(together[n]) ELSE 0]
  /\ alone' = [n \in Node |-> IF Target[n] \notin up THEN Count(alone[n]) ELSE 0]
  /\ UNCHANGED <<presence, up, faults, crashes>>

PingNext ==
  \/ Tick
  \/ \E n \in Node :
       \/ Loop(n) \/ Update(n) \/ Crash(n) \/ Boot(n)
       \/ \E d \in air : RecvDatagram(n, d)
  \/ \E d \in air : Lose(d) \/ Repeat(d) \/ Postpone(d)

PingSpec == PingInit /\ [][PingNext]_pingVars

----------------------------------------------------------------------------
(* Properties. *)

PingTypeOK ==
  /\ mLastPingTime \in [Node -> Never .. Second + 1]
  /\ presence \in [Node -> {"present", "absent", "unknown"}]
  /\ due \in [Node -> 0 .. Interval]
  /\ up \subseteq Node /\ uptime \in [Node -> 0 .. Second]
  /\ air \subseteq Datagram
  /\ faults \in 0 .. MaxFaults /\ crashes \in 0 .. MaxCrashes
  /\ {together[n] : n \in Node} \cup {alone[n] : n \in Node} \subseteq 0 .. Horizon

(* A target that is gone is noticed: once it has been down for an interval *)
(* and a timeout, and for as long as its last answers can be under way, it *)
(* is not shown as present, whatever the mesh loses, repeats or delivers   *)
(* late (loop(), update() and recvDatagram() share mLastPingTime).         *)
DeadIsNoticed ==
  \A n \in Pinging : alone[n] >= Horizon => presence[n] # "present"

(* A target that answers is shown as present: once both have run for an    *)
(* interval and a round trip, unless the mesh has lost, repeated or        *)
(* delayed a datagram (two repeated answers, and the second one says the   *)
(* target is absent).                                                      *)
AliveIsSeen ==
  \A n \in Pinging :
    faults = 0 /\ together[n] > Interval + 2 * MaxDelay => presence[n] = "present"
=============================================================================
