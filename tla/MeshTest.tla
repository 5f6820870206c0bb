------------------------------- MODULE MeshTest -------------------------------
(***************************************************************************)
(* The self test of the mesh (components/meshmesh_test): node 0, the       *)
(* director, and a responder go through four phases.  In each one opens a  *)
(* socket, the director says hello, the responder replies, and a big       *)
(* packet goes each way.                                                   *)
(*                                                                         *)
(* One call of loop() is one step.  One node may go round its loop skew    *)
(* times between two loops of the other, and both do many times a tick: a  *)
(* tick passes when every node waits.                                      *)
(***************************************************************************)
EXTENDS Integers, Sequences

CONSTANTS Start,       (* [0 .. 1 -> ticks that wait_start() waits] *)
          Pause,       (* 2000 ms: the director, before it says hello *)
          Short,       (* 1000 ms: most answers *)
          Brief,       (* 5000 ms: in the second and the fourth phase *)
          Long,        (* 30000 ms: the first hello of a phase *)
          MaxSkew,
          MaxTestFaults

Director == 0
Responder == 1
Tester == {Director, Responder}
Other(n) == 1 - n

State == {"WAIT_START", "BROADCAST1", "BROADCAST2", "UNICAST1", "UNICAST2", "DONE"}
After == [s \in State |->
            CASE s = "WAIT_START" -> "BROADCAST1" [] s = "BROADCAST1" -> "BROADCAST2"
              [] s = "BROADCAST2" -> "UNICAST1" [] s = "UNICAST1" -> "UNICAST2"
              [] OTHER -> "DONE"]

TestConstants ==
  /\ Start \in [Tester -> Nat]
  /\ {Pause, Short, Brief, Long, MaxTestFaults} \subseteq Nat /\ MaxSkew \in Nat \ {0}
  /\ Short < Pause /\ Pause < Brief /\ Brief < Long

(* The nodes start within the director's first pause and the responder's   *)
(* first wait of each other (the delays of wait_start() and the timeouts   *)
(* of broadcast1()).                                                       *)
StartsClose ==
  /\ \A n \in Tester : Start[n] <= Long
  /\ Start[Responder] <= Start[Director] + Pause
  /\ Start[Director] + Pause < Start[Responder] + Long

TestPacket == {"HELLO", "REPLY", "BIG"}   (* what the checksums tell apart *)

VARIABLES
  mState, mSubState,   (* [Tester -> ...] *)
  mLastTime,           (* [Tester -> ticks since millis() was stored] *)
  mSocket,             (* [Tester -> is the socket open?] *)
  unread,              (* [Tester -> Seq(TestPacket)]: received by the socket *)
  wire,                (* [Tester -> Seq(TestPacket)]: on the way to the node *)
  skew,                (* how much faster one loop may be than the other *)
  lead,                (* [Tester -> loops since the last one of the other] *)
  testFaults,
  failed               (* history: [Tester -> the phase it has been through  *)
                       (* step 98 in, or "none"]                             *)

testVars == <<mState, mSubState, mLastTime, mSocket, unread, wire, skew, lead,
              testFaults, failed>>

TestInit ==
  /\ mState = [n \in Tester |-> "WAIT_START"]
  /\ mSubState = [n \in Tester |-> 0]
  /\ mLastTime = [n \in Tester |-> 0]
  /\ mSocket = [n \in Tester |-> FALSE]
  /\ unread = [n \in Tester |-> <<>>]
  /\ wire = [n \in Tester |-> <<>>]
  /\ skew \in 1 .. MaxSkew
  /\ lead = [n \in Tester |-> 0]
  /\ testFaults = 0
  /\ failed = [n \in Tester |-> "none"]

(* CHANGE_STATE *)
Goes(n, s, k) ==
  /\ mState' = [mState EXCEPT ![n] = s]
  /\ mSubState' = [mSubState EXCEPT ![n] = k]
  /\ mLastTime' = [mLastTime EXCEPT ![n] = 0]
Step(n, k) == Goes(n, mState[n], k)
Stays(n) == UNCHANGED <<mState, mSubState, mLastTime>>

KeepSocket == UNCHANGED <<mSocket, unread>>
KeepWire == UNCHANGED <<wire, testFaults>>
Fails == testFaults < MaxTestFaults /\ testFaults' = testFaults + 1
At(n, S, k) == mState[n] \in S /\ mSubState[n] = k
Testing == State \ {"WAIT_START", "DONE"}

WaitStart(n) ==
  /\ At(n, {"WAIT_START"}, 0)
  /\ mLastTime[n] > Start[n]
  /\ Goes(n, "BROADCAST1", 0)
  /\ KeepSocket /\ KeepWire /\ UNCHANGED failed

(* Step 0: openTestSocket() closes what an earlier phase left. *)
OpenSocket(n) ==
  /\ At(n, Testing, 0)
  /\ \/ Step(n, IF n = Director THEN 1 ELSE 2) /\ KeepWire
     \/ Step(n, 98) /\ Fails /\ UNCHANGED wire
  /\ mSocket' = [mSocket EXCEPT ![n] = TRUE]
  /\ unread' = [unread EXCEPT ![n] = <<>>]
  /\ UNCHANGED failed

(* Steps 1, 4, 5 and 8: the packet each sends and the step that follows.   *)
Sends == [k \in {1, 4, 5, 8} |->
            CASE k = 1 -> [packet |-> "HELLO", next |-> 3]
              [] k = 4 -> [packet |-> "REPLY", next |-> 6]
              [] k = 5 -> [packet |-> "BIG", next |-> 7]
              [] k = 8 -> [packet |-> "BIG", next |-> 99]]

(* The director pauses before it says hello, but not in the second phase.  *)
NeverPauses(n) == FALSE   (* mutant: no phase has a pause *)
Pauses(n) == mSubState[n] = 1 /\ mState[n] # "BROADCAST2" /\ mLastTime[n] <= Pause

(* The unicast phases send to the sender of the last packet, which is the  *)
(* other node: both have heard it in the broadcast phases.                 *)
Send(n) ==
  /\ mState[n] \in Testing /\ mSubState[n] \in DOMAIN Sends
  /\ ~Pauses(n)
  /\ \/ /\ Step(n, Sends[mSubState[n]].next)
        /\ wire' = [wire EXCEPT ![Other(n)] = Append(@, Sends[mSubState[n]].packet)]
        /\ UNCHANGED testFaults
     \/ Step(n, 98) /\ Fails /\ UNCHANGED wire
  /\ KeepSocket /\ UNCHANGED failed

(* The step that follows a packet in steps 2, 3, 6 and 7.  A wrong answer  *)
(* ends the phase, as if it were right; the second phase does not look at  *)
(* the first packet and goes on after a wrong second one; the fourth fails.*)
Wrong(s, k) == CASE s = "BROADCAST2" -> k + 2 [] s = "UNICAST2" -> 98 [] OTHER -> 99
Heard(s, k, p) ==
  CASE k = 2 -> IF p = "HELLO" THEN 4 ELSE Wrong(s, k)
    [] k = 3 -> IF p = "REPLY" THEN 5 ELSE Wrong(s, k)
    [] k = 6 -> 8
    [] k = 7 -> 99

Waiting == {2, 3, 6, 7}
Polled == Testing \ {"UNICAST2"}

Recv(n) ==
  /\ mState[n] \in Polled /\ mSubState[n] \in Waiting
  /\ unread[n] # <<>>
  /\ Step(n, Heard(mState[n], mSubState[n], Head(unread[n])))
  /\ unread' = [unread EXCEPT ![n] = Tail(@)]
  /\ KeepWire /\ UNCHANGED <<mSocket, failed>>

(* TIMEOUT_CHECK *)
Patience(s, k) ==
  CASE s = "UNICAST2" -> Brief
    [] k = 2 -> IF s = "BROADCAST2" THEN Brief ELSE Long
    [] OTHER -> Short
OverdueHello(n) ==   (* mutant: only the hello and its reply have a timeout *)
  mSubState[n] \in {2, 3} /\ mLastTime[n] > Patience(mState[n], mSubState[n])
Overdue(n) == mLastTime[n] > Patience(mState[n], mSubState[n])

Timeout(n) ==
  /\ mState[n] \in Testing /\ mSubState[n] \in Waiting
  /\ mState[n] \in Polled => unread[n] = <<>>
  /\ Overdue(n)
  /\ Step(n, 98)
  /\ KeepSocket /\ KeepWire /\ UNCHANGED failed

(* Step 98 ends the test, step 99 begins the next phase. *)
CloseResources(n) ==
  /\ mSocket' = [mSocket EXCEPT ![n] = FALSE]
  /\ unread' = [unread EXCEPT ![n] = <<>>]

EndWithError(n) ==
  /\ At(n, Testing, 98)
  /\ Goes(n, "DONE", 0) /\ CloseResources(n) /\ KeepWire
  /\ failed' = [failed EXCEPT ![n] = mState[n]]

EndPhase(n) ==
  /\ At(n, Testing, 99)
  /\ Goes(n, After[mState[n]], 0) /\ CloseResources(n) /\ KeepWire
  /\ UNCHANGED failed

Works(n) == WaitStart(n) \/ OpenSocket(n) \/ Send(n) \/ Recv(n) \/ Timeout(n)
            \/ EndWithError(n) \/ EndPhase(n)

Busy(n) ==
  IF mState[n] = "WAIT_START" THEN mLastTime[n] > Start[n]
  ELSE /\ mState[n] # "DONE"
       /\ ~Pauses(n)
       /\ mSubState[n] \in Waiting =>
            Overdue(n) \/ (mState[n] \in Polled /\ unread[n] # <<>>)

(* A loop that does nothing lets the other node run on. *)
TestLoop(n) ==
  /\ \/ lead[n] < skew /\ Works(n) /\ lead' = [lead EXCEPT ![n] = @ + 1, ![Other(n)] = 0]
     \/ /\ ~Busy(n) /\ lead[Other(n)] > 0
        /\ lead' = [lead EXCEPT ![Other(n)] = 0]
        /\ Stays(n) /\ KeepSocket /\ KeepWire /\ UNCHANGED failed
  /\ UNCHANGED skew

(* A datagram arrives: it is queued in an open socket, taken by the        *)
(* callback of the fourth phase, which ignores it in the other steps, or   *)
(* dropped because the socket is closed.                                   *)
Arrive(n) ==
  /\ wire[n] # <<>>
  /\ wire' = [wire EXCEPT ![n] = Tail(@)]
  /\ IF ~mSocket[n] THEN Stays(n) /\ UNCHANGED unread
     ELSE IF mState[n] # "UNICAST2"
     THEN /\ unread' = [unread EXCEPT ![n] = Append(@, Head(wire[n]))]
          /\ Stays(n)
     ELSE /\ IF mSubState[n] \in Waiting
             THEN Step(n, Heard("UNICAST2", mSubState[n], Head(wire[n])))
             ELSE Stays(n)
          /\ UNCHANGED unread
  /\ UNCHANGED <<mSocket, skew, lead, testFaults, failed>>

LoseTest(n) ==
  /\ wire[n] # <<>> /\ Fails
  /\ wire' = [wire EXCEPT ![n] = Tail(@)]
  /\ Stays(n) /\ KeepSocket /\ UNCHANGED <<skew, lead, failed>>

RepeatTest(n) ==
  /\ wire[n] # <<>> /\ Fails
  /\ wire' = [wire EXCEPT ![n] = Append(@, Head(@))]
  /\ Stays(n) /\ KeepSocket /\ UNCHANGED <<skew, lead, failed>>

(* Nothing tells times above Long apart. *)
Later(t) == IF t <= Long THEN t + 1 ELSE t

TestTick ==
  /\ \A n \in Tester : ~Busy(n) /\ wire[n] = <<>>
  /\ \E n \in Tester : mState[n] # "DONE"
  /\ mLastTime' = [n \in Tester |-> IF mState[n] = "DONE" THEN 0 ELSE Later(mLastTime[n])]
  /\ lead' = [n \in Tester |-> 0]
  /\ UNCHANGED <<mState, mSubState, skew, failed>> /\ KeepSocket /\ KeepWire

TestNext == TestTick \/ \E n \in Tester :
              TestLoop(n) \/ Arrive(n) \/ LoseTest(n) \/ RepeatTest(n)

TestSpec == TestInit /\ [][TestNext]_testVars

(* The loops go round, datagrams arrive or are lost, time passes. *)
TestFairness == WF_testVars(TestTick) /\
                \A n \in Tester : WF_testVars(TestLoop(n)) /\ WF_testVars(Arrive(n))

----------------------------------------------------------------------------
(* Properties. *)

TestTypeOK ==
  /\ mState \in [Tester -> State]
  /\ mSubState \in [Tester -> 0 .. 8 \cup {98, 99}]
  /\ mLastTime \in [Tester -> 0 .. Long + 1]
  /\ \A n \in Tester : Len(unread[n]) + Len(wire[n]) <= 3 + MaxTestFaults
  /\ skew \in 1 .. MaxSkew /\ lead \in [Tester -> 0 .. skew]
  /\ failed \in [Tester -> State \cup {"none"}]

(* On a mesh that delivers, the test passes: each phase closes the socket  *)
(* and opens another, and no packet falls in between, if the loops take    *)
(* turns.  If one loop is faster, only the second phase can fail, where    *)
(* the director says hello without a pause (step 1 of broadcast2()).       *)
BothPass ==
  testFaults = 0 =>
    \A n \in Tester :
      failed[n] = "none" \/ (skew > 1 /\ failed[n] = "BROADCAST2")

(* The test ends, whatever the mesh loses or repeats: every wait has its   *)
(* TIMEOUT_CHECK, and an error on one side leaves the other one to it.     *)
TestEnds == <>(\A n \in Tester : mState[n] = "DONE")
=============================================================================
