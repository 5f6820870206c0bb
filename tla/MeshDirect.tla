------------------------------ MODULE MeshDirect ------------------------------
(***************************************************************************)
(* The direct entity protocol (components/meshmesh_direct): every node     *)
(* answers requests about its entities and sets its switches and lights on *)
(* request, and a remote switch stands for a switch of another node.       *)
(*                                                                         *)
(* A frame is a record of what the handlers read of it.  The handlers run  *)
(* from the mesh's loop, one frame at a time; between two nodes the mesh   *)
(* keeps the order, unless a fault loses or repeats a frame.               *)
(***************************************************************************)
EXTENDS Integers, Sequences, SequencesExt, FiniteSets, TLC

CONSTANTS Device,      (* the nodes *)
          NoDevice,
          Entity,      (* [Device -> Seq([type, hash, addr, target, pub])],  *)
                       (* in the order of the App lists; addr is NoDevice    *)
                       (* unless it is a remote switch, pub is <<>> or the   *)
                       (* <<node, hash>> its on_state automation publishes   *)
                       (* to                                                 *)
          Level,       (* [Device -> [index -> initial state]] *)
          Hub,         (* the node whose software asks questions *)
          Asked,       (* the frames it may send *)
          Half,        (* 2^15: a value of a frame is below 2 * Half *)
          Full,        (* 1024, the value of a light at full brightness *)
          MaxMoves     (* commands, questions, faults and restarts together *)

Type == {"sensor", "binary", "switch", "light", "text"}
Index(n) == DOMAIN Entity[n]
IsRemote(n, i) == Entity[n][i].type = "switch" /\ Entity[n][i].addr # NoDevice
Remotes == UNION {{n} \X {i \in Index(n) : IsRemote(n, i)} : n \in Device}

Unknown == -1

DirectConstants ==
  /\ NoDevice \notin Device /\ Hub \in Device
  /\ Half \in Nat /\ Half > 10 /\ Full \in 1 .. Half - 1
  /\ DOMAIN Level = Device
  /\ \A n \in Device :
       /\ Entity[n] \in Seq([type : Type, hash : Nat, target : Nat,
                             addr : Device \cup {NoDevice},
                             pub : {<<>>} \cup (Device \X Nat)])
       /\ Level[n] \in [Index(n) -> Unknown .. Full]
  /\ \A f \in Asked : f.cmd = "SET_ENTITY_STATE_REQ" => f.val \in 0 .. 2 * Half - 1

VARIABLES
  state,           (* [Device -> [index -> Int]]: a switch is 1, 0 or, before   *)
                   (* its first publish, Unknown; a light is 0 .. Full        *)
  mRequestUpdate,  (* the remote switches that have yet to query their target *)
  net,             (* [Device \X Device -> Seq(frame)] *)
  spent,           (* how many moves of each kind there have been *)
  spoiled,         (* history: remote switches written during a query, or     *)
                   (* whose target another node changed, since their query    *)
  heard            (* history: who sent the last reply a remote switch took   *)

directVars == <<state, mRequestUpdate, net, spent, spoiled, heard>>

----------------------------------------------------------------------------
(* Finding an entity. *)

OfType(n, t) == SelectSeq([i \in Index(n) |-> i], LAMBDA i : Entity[n][i].type = t)
(* 0 when there is none. *)
Lowest(S) == IF S = {} THEN 0 ELSE Min(S)
Highest(S) == IF S = {} THEN 0 ELSE Max(S)

FindEntity(n, t, h) ==
  Lowest({i \in Index(n) : Entity[n][i].type = t /\ Entity[n][i].hash = h})

(* The loop assigns the result before it compares: with no match the last  *)
(* sensor is what it returns.                                              *)
FindSensor(n, h) ==
  IF FindEntity(n, "sensor", h) # 0 THEN FindEntity(n, "sensor", h)
  ELSE Highest({i \in Index(n) : Entity[n][i].type = "sensor"})

Find(n, t, h) == IF t = "sensor" THEN FindSensor(n, h) ELSE FindEntity(n, t, h)

----------------------------------------------------------------------------
(* Frames and how they are sent. *)

Signed(v) == IF v < Half THEN v ELSE v - 2 * Half
OnOff(b) == IF b = 1 THEN 10 ELSE 0

GetReq(h) == [cmd |-> "GET_ENTITY_STATE_REQ", type |-> "switch", hash |-> h]
SetReq(t, h, v) == [cmd |-> "SET_ENTITY_STATE_REQ", type |-> t, hash |-> h, val |-> v]
PubReq(h, v) == [cmd |-> "PUB_ENTITY_STATE_REQ", type |-> "switch", hash |-> h, val |-> v]
GetRep(vt, h, v) == [cmd |-> "GET_ENTITY_STATE_REP", value_type |-> vt, hash |-> h, val |-> v]
(* SET_ENTITY_STATE_REQ is acknowledged with the reply of a get and no     *)
(* payload, which no handler takes for a state.                            *)
SetRep == [cmd |-> "GET_ENTITY_STATE_REP", value_type |-> 0, hash |-> 0, val |-> 0]
PubRep == [cmd |-> "PUB_ENTITY_STATE_REP"]

(* unicastSend: what a handler sends, for each node the frames in order;   *)
(* what the mesh makes of them is the business of the faults.              *)
Nothing == [x \in Device |-> <<>>]
To(m, f) == [x \in Device |-> IF x = m THEN <<f>> ELSE <<>>]
Then(first, second) == [x \in Device |-> first[x] \o second[x]]
Sent(nw, n, out) ==
  [l \in Device \X Device |-> IF l[1] = n THEN nw[l] \o out[l[2]] ELSE nw[l]]

(* publish_state ignores a value it has already published, and otherwise   *)
(* runs on_state, which may call publishRemoteSwitchState.  The mutant     *)
(* publishes whatever it is told.                                          *)
PublishOutAlways(n, i, b) ==
  IF Entity[n][i].pub # <<>>
  THEN To(Entity[n][i].pub[1], PubReq(Entity[n][i].pub[2], OnOff(b)))
  ELSE Nothing

PublishOut(n, i, b) ==
  IF state[n][i] # b /\ Entity[n][i].pub # <<>>
  THEN To(Entity[n][i].pub[1], PubReq(Entity[n][i].pub[2], OnOff(b)))
  ELSE Nothing

(* turn_on and turn_off: a remote switch sends the request and publishes   *)
(* the new state without waiting for an answer.                            *)
CommandOut(n, i, b) ==
  Then(IF IsRemote(n, i)
       THEN To(Entity[n][i].addr, SetReq("switch", Entity[n][i].target, OnOff(b)))
       ELSE Nothing,
       PublishOut(n, i, b))

----------------------------------------------------------------------------
(* What the history variables remember. *)

(* A query of remote switch r, or an answer to it, is under way. *)
Outstanding(r) ==
  LET e == Entity[r[1]][r[2]] IN
  \/ \E k \in DOMAIN net[<<r[1], e.addr>>] : net[<<r[1], e.addr>>][k] = GetReq(e.target)
  \/ \E k \in DOMAIN net[<<e.addr, r[1]>>] :
       LET f == net[<<e.addr, r[1]>>][k] IN
       f.cmd = "GET_ENTITY_STATE_REP" /\ f.value_type = 1 /\ f.hash = e.target

(* The entity that remote switch r stands for: <<node, index>>. *)
TargetOf(r) ==
  LET e == Entity[r[1]][r[2]] IN <<e.addr, FindEntity(e.addr, "switch", e.target)>>

(* Switch i of n takes state b on behalf of node by. *)
Spoils(n, i, b, by) ==
  IF state[n][i] = b THEN {} ELSE {r \in Remotes : TargetOf(r) = <<n, i>> /\ r[1] # by}
Races(n, i) == {r \in Remotes : r = <<n, i>> /\ Outstanding(r)}

----------------------------------------------------------------------------
DirectInit ==
  /\ state = Level
  /\ mRequestUpdate = Remotes
  /\ net = [l \in Device \X Device |-> <<>>]
  /\ spent = [commands |-> 0, asks |-> 0, faults |-> 0, restarts |-> 0]
  /\ spoiled = {}
  /\ heard = [r \in Remotes |-> NoDevice]

Spend(what) == SumFunction(spent) < MaxMoves /\ spent' = [spent EXCEPT ![what] = @ + 1]

(* MeshMeshSwitch::loop, half a second after setup: the one query it sends. *)
Query(n, i) ==
  /\ <<n, i>> \in mRequestUpdate
  /\ mRequestUpdate' = mRequestUpdate \ {<<n, i>>}
  /\ net' = Sent(net, n, To(Entity[n][i].addr, GetReq(Entity[n][i].target)))
  /\ spoiled' = spoiled \ {<<n, i>>}
  /\ UNCHANGED <<state, spent, heard>>

(* Home Assistant or an automation of the node turns a switch on or off. *)
Command(n, i, b) ==
  /\ Entity[n][i].type = "switch"
  /\ Spend("commands")
  /\ state' = [state EXCEPT ![n][i] = b]
  /\ net' = Sent(net, n, CommandOut(n, i, b))
  /\ spoiled' = spoiled \cup Races(n, i) \cup Spoils(n, i, b, NoDevice)
  /\ UNCHANGED <<mRequestUpdate, heard>>

(* broadcastSend and unicastSend called by other software. *)
Ask(m, f) ==
  /\ m # Hub
  /\ Spend("asks")
  /\ net' = Sent(net, Hub, To(m, f))
  /\ UNCHANGED <<state, mRequestUpdate, spoiled, heard>>

(* The mesh hands node n the frame f of node m, and n answers with out. *)
Receives(n, m, f, cmd) == net[<<m, n>>] # <<>> /\ f = Head(net[<<m, n>>]) /\ f.cmd = cmd
Answer(n, m, out) == net' = Sent([net EXCEPT ![<<m, n>>] = Tail(@)], n, out)

(* Each count is a byte, and so is their sum. *)
CountRep(n) ==
  LET count == [t \in Type |-> Len(OfType(n, t)) % 256] IN
  [cmd |-> "ENTITIES_COUNT_REP", count |-> count, all |-> SumFunction(count) % 256]

HandleEntitiesCount(n, m, f) ==
  /\ Receives(n, m, f, "ENTITIES_COUNT_REQ")
  /\ Answer(n, m, To(m, CountRep(n)))
  /\ UNCHANGED <<state, mRequestUpdate, spent, spoiled, heard>>

(* The hash and the name (here: its index) of an entity, or "E!". *)
HashRep(n, t, k) ==
  IF k < Len(OfType(n, t))
  THEN [cmd |-> "GET_ENTITY_HASH_REP", hash |-> Entity[n][OfType(n, t)[k + 1]].hash, info |-> k]
  ELSE [cmd |-> "GET_ENTITY_HASH_REP", hash |-> 0, info |-> "E!"]

HandleGetEntityHash(n, m, f) ==
  /\ Receives(n, m, f, "GET_ENTITY_HASH_REQ")
  /\ Answer(n, m, To(m, HashRep(n, f.type, f.index)))
  /\ UNCHANGED <<state, mRequestUpdate, spent, spoiled, heard>>

(* What a reply carries of an entity's state; a sensor out of range of     *)
(* int16_t converts to anything.                                           *)
Reading(n, i) ==
  CASE Entity[n][i].type = "sensor" ->
         IF 10 * state[n][i] \in -Half .. Half - 1
         THEN {(10 * state[n][i]) % (2 * Half)} ELSE 0 .. 2 * Half - 1
    [] Entity[n][i].type = "binary" -> {OnOff(state[n][i])}
    [] Entity[n][i].type = "switch" -> {IF state[n][i] = 1 THEN 1 ELSE 0}
    [] OTHER -> {state[n][i]}

(* An entity the node does not have is not answered. *)
HandleGetEntityState(n, m, f) ==
  /\ Receives(n, m, f, "GET_ENTITY_STATE_REQ")
  /\ LET i == Find(n, f.type, f.hash) IN
     IF i = 0 THEN Answer(n, m, Nothing)
     ELSE \E v \in Reading(n, i) :
            Answer(n, m, To(m, GetRep(IF f.type = "text" THEN 2 ELSE 1, f.hash, v)))
  /\ UNCHANGED <<state, mRequestUpdate, spent, spoiled, heard>>

(* A light is off at 0 and below, and no brighter than Full. *)
LightOf(v) == IF Signed(v) <= 0 THEN 0 ELSE IF Signed(v) > Full THEN Full ELSE Signed(v)
(* The mutant takes every value for one in tenths, as those of requests    *)
(* are; a reply says 1 or 0.                                               *)
SwitchOfTenths(v) == IF Signed(v) >= 10 THEN 1 ELSE 0
SwitchOf(v) == IF Signed(v) > 0 THEN 1 ELSE 0

(* Only switches and lights are set; a switch may be a remote one, which   *)
(* passes the request on before this one is acknowledged.                  *)
HandleSetEntityState(n, m, f) ==
  /\ Receives(n, m, f, "SET_ENTITY_STATE_REQ")
  /\ LET i == IF f.type \in {"switch", "light"} THEN FindEntity(n, f.type, f.hash) ELSE 0
         b == IF f.type = "switch" THEN SwitchOf(f.val) ELSE LightOf(f.val)
         switch == i # 0 /\ f.type = "switch"
     IN /\ state' = IF i = 0 THEN state ELSE [state EXCEPT ![n][i] = b]
        /\ Answer(n, m, Then(IF switch THEN CommandOut(n, i, b) ELSE Nothing,
                             IF i = 0 THEN Nothing ELSE To(m, SetRep)))
        /\ spoiled' = IF switch THEN spoiled \cup Races(n, i) \cup Spoils(n, i, b, m)
                      ELSE spoiled
  /\ UNCHANGED <<mRequestUpdate, spent, heard>>

(* Only a switch is published, unsigned; every request is acknowledged. *)
HandlePublishEntityState(n, m, f) ==
  /\ Receives(n, m, f, "PUB_ENTITY_STATE_REQ")
  /\ LET i == IF f.type = "switch" THEN FindEntity(n, "switch", f.hash) ELSE 0
         b == IF f.val > 0 THEN 1 ELSE 0
     IN /\ state' = IF i = 0 THEN state ELSE [state EXCEPT ![n][i] = b]
        /\ Answer(n, m, Then(IF i = 0 THEN Nothing ELSE PublishOut(n, i, b),
                             To(m, PubRep)))
        /\ spoiled' = IF i = 0 THEN spoiled ELSE spoiled \cup Spoils(n, i, b, NoDevice)
  /\ UNCHANGED <<mRequestUpdate, spent, heard>>

(* The on_receive automations run, every one of them; no answer. *)
HandleCustomData(n, m, f) ==
  /\ Receives(n, m, f, "CUSTOM_DATA_REQ")
  /\ Answer(n, m, Nothing)
  /\ UNCHANGED <<state, mRequestUpdate, spent, spoiled, heard>>

(* onCommandReply of the remote switches of n: the first one whose hash    *)
(* the reply carries takes it, 0 if none does.                             *)
Taker(n, f) ==
  IF f.cmd = "GET_ENTITY_STATE_REP" /\ f.value_type = 1
  THEN Lowest({i \in Index(n) : IsRemote(n, i) /\ Entity[n][i].target = f.hash})
  ELSE 0

Reply == {"ENTITIES_COUNT_REP", "GET_ENTITY_HASH_REP", "GET_ENTITY_STATE_REP",
          "PUB_ENTITY_STATE_REP"}

HandleCommandReply(n, m, f) ==
  /\ f.cmd \in Reply
  /\ Receives(n, m, f, f.cmd)
  /\ LET i == Taker(n, f) IN
     IF i = 0
     THEN /\ Answer(n, m, Nothing)
          /\ UNCHANGED <<state, spoiled, heard>>
     ELSE /\ state' = [state EXCEPT ![n][i] = SwitchOf(f.val)]
          /\ Answer(n, m, PublishOut(n, i, SwitchOf(f.val)))
          /\ spoiled' = spoiled \cup Spoils(n, i, SwitchOf(f.val), NoDevice)
          /\ heard' = [heard EXCEPT ![<<n, i>>] = m]
  /\ UNCHANGED <<mRequestUpdate, spent>>

(* handleFrame and the length checks of the handlers drop the frame. *)
DropFrame(n, m, f) ==
  /\ Receives(n, m, f, "malformed")
  /\ Answer(n, m, Nothing)
  /\ UNCHANGED <<state, mRequestUpdate, spent, spoiled, heard>>

Deliver(n, m) ==
  /\ net[<<m, n>>] # <<>>
  /\ LET f == Head(net[<<m, n>>]) IN
     \/ HandleEntitiesCount(n, m, f)
     \/ HandleGetEntityHash(n, m, f)
     \/ HandleGetEntityState(n, m, f)
     \/ HandleSetEntityState(n, m, f)
     \/ HandlePublishEntityState(n, m, f)
     \/ HandleCustomData(n, m, f)
     \/ HandleCommandReply(n, m, f)
     \/ DropFrame(n, m, f)

----------------------------------------------------------------------------
(* Faults: the mesh loses a frame or delivers it once more, later; a node  *)
(* restarts, with its switches off and its remote switches ignorant.       *)

LoseFrame(l, k) ==
  /\ Spend("faults")
  /\ net' = [net EXCEPT ![l] = RemoveAt(@, k)]
  /\ UNCHANGED <<state, mRequestUpdate, spoiled, heard>>

RepeatFrame(l, k) ==
  /\ Spend("faults")
  /\ net' = [net EXCEPT ![l] = Append(@, @[k])]
  /\ UNCHANGED <<state, mRequestUpdate, spoiled, heard>>

AfterBoot(n, i) ==
  IF IsRemote(n, i) THEN Unknown ELSE IF Entity[n][i].type = "switch" THEN 0 ELSE Level[n][i]

(* The restart of a node whose switches others rely on counts as a fault:  *)
(* nothing tells them.                                                     *)
Restart(n) ==
  /\ Spend("restarts")
  /\ \A r \in Remotes : TargetOf(r)[1] # n
  /\ state' = [state EXCEPT ![n] = [i \in Index(n) |-> AfterBoot(n, i)]]
  /\ mRequestUpdate' = mRequestUpdate \cup {r \in Remotes : r[1] = n}
  /\ net' = [l \in Device \X Device |-> IF l[2] = n THEN <<>> ELSE net[l]]
  /\ UNCHANGED <<spoiled, heard>>

DirectNext ==
  \/ \E r \in Remotes : Query(r[1], r[2])
  \/ \E n \in Device : \E i \in Index(n), b \in 0 .. 1 : Command(n, i, b)
  \/ \E m \in Device, f \in Asked : Ask(m, f)
  \/ \E n, m \in Device : Deliver(n, m)
  \/ \E l \in Device \X Device : \E k \in DOMAIN net[l] : LoseFrame(l, k) \/ RepeatFrame(l, k)
  \/ \E n \in Device : Restart(n)

DirectSpec == DirectInit /\ [][DirectNext]_directVars

(* The loops of the nodes go round, and the mesh delivers what it does not *)
(* lose; nobody has to ask, command, restart or fail.                      *)
DirectFairness ==
  WF_directVars(\/ \E r \in Remotes : Query(r[1], r[2])
                \/ \E n, m \in Device : Deliver(n, m))

FairDirectSpec == DirectSpec /\ DirectFairness

----------------------------------------------------------------------------
(* Properties. *)

DirectTypeOK ==
  /\ \A n \in Device : state[n] \in [Index(n) -> Unknown .. Full]
  /\ mRequestUpdate \subseteq Remotes /\ spoiled \subseteq Remotes
  /\ \A l \in Device \X Device : Len(net[l]) <= 16
  /\ heard \in [Remotes -> Device \cup {NoDevice}]

(* Nothing is on its way and no query is due. *)
Quiet == mRequestUpdate = {} /\ \A l \in Device \X Device : net[l] = <<>>

(* The target of remote switch r publishes its changes to r. *)
Mirrored(r) ==
  LET t == TargetOf(r) IN
  t[2] # 0 /\ Entity[t[1]][t[2]].pub = <<r[1], Entity[r[1]][r[2]].hash>>

(* No other remote switch of the node has the hash of r's target. *)
Distinct(r) ==
  \A q \in Remotes \ {r} : q[1] = r[1] =>
    Entity[q[1]][q[2]].target # Entity[r[1]][r[2]].target

(* The configuration is the one the protocol is made for: a remote switch  *)
(* stands for a switch of another node and is found under its own hash;    *)
(* only its target publishes to it; and the software that asks questions   *)
(* neither publishes nor replies, nor shares its node with remote switches *)
(* whose requests it could be mistaken for.                                *)
Wired ==
  /\ \A r \in Remotes :
       LET e == Entity[r[1]][r[2]] IN
       /\ e.addr # r[1] /\ r[1] # Hub
       /\ FindEntity(r[1], "switch", e.hash) = r[2]
       /\ \A n \in Device : \A i \in Index(n) :
            Entity[n][i].type = "switch" /\ Entity[n][i].pub = <<r[1], e.hash>>
              => TargetOf(r) = <<n, i>>
  /\ \A f \in Asked : f.cmd \notin Reply \cup {"PUB_ENTITY_STATE_REQ"}

(* When all is quiet and the mesh has neither lost nor repeated a frame,   *)
(* a remote switch shows the state of its target: always if the target     *)
(* publishes its changes to it, otherwise unless it was written while its  *)
(* query was under way or somebody else changed the target since           *)
(* (MeshMeshSwitch::onCommandReply, write_state and the SET, GET and PUB   *)
(* handlers; the restart of the node of the remote switch is no excuse).   *)
RemoteShowsTarget ==
  Quiet /\ spent.faults = 0 =>
    \A r \in Remotes :
      TargetOf(r)[2] # 0 /\ Distinct(r) /\ (Mirrored(r) \/ r \notin spoiled) =>
        (state[r[1]][r[2]] = 1) = (state[TargetOf(r)[1]][TargetOf(r)[2]] = 1)

(* A reply that reaches the handlers of the remote switches changes only   *)
(* one whose configured address is the node it comes from                  *)
(* (MeshMeshSwitch::onCommandReply has from and does not look at it).      *)
AnsweredByTarget ==
  \A r \in Remotes : heard[r] \in {NoDevice, Entity[r[1]][r[2]].addr}

(* The remote switches do not order one another in a circle: any set of    *)
(* them has one whose target is outside.                                   *)
OrdersEnd == \A S \in SUBSET Remotes : S # {} => \E r \in S : TargetOf(r) \notin S

(* Switches that publish in a circle, each one telling the next.           *)
Announcers == UNION {{n} \X {i \in Index(n) : Entity[n][i].pub # <<>>} : n \in Device}
Tells(p) ==
  LET pub == Entity[p[1]][p[2]].pub IN <<pub[1], FindEntity(pub[1], "switch", pub[2])>>
Circles == {S \in SUBSET Announcers : {Tells(p) : p \in S} = S}

(* The switches that are about to be told state b. *)
Told(b) ==
  UNION {{<<l[2], FindEntity(l[2], "switch", f.hash)>> :
            f \in {f \in ToSet(net[l]) : f.cmd = "PUB_ENTITY_STATE_REQ" /\ f.type = "switch"
                                        /\ (b = 1) = (f.val > 0)}} : l \in Device \X Device}

(* Opposite states are under way around the same circle. *)
Chase ==
  \E p \in Told(1), q \in Told(0) :
    /\ p \in UNION Circles
    /\ \A S \in Circles : p \in S => q \in S

(* A finite number of commands, questions, faults and restarts causes a    *)
(* finite number of frames: replies are not replied to, orders are passed  *)
(* on along remote switches and publications along automations to an end,  *)
(* and a state that goes round a circle of automations stops where it is   *)
(* known.  There are two exceptions, which the code does not prevent: a    *)
(* circle of remote switches that order one another, and opposite states   *)
(* that chase each other round a circle of automations, each undoing what  *)
(* the other has done (the SET, PUB and GET handlers, write_state,         *)
(* publishRemoteSwitchState).                                              *)
FallsSilent == OrdersEnd => []<>Chase \/ <>[]Quiet
=============================================================================
