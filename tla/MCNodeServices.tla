---------------------------- MODULE MCNodeServices ----------------------------
(***************************************************************************)
(* The services of a node that share no state with each other: the         *)
(* sockets, the ping, the self test, the direct entity protocol and the    *)
(* audio pipeline, about which there are theorems, by extension, and the   *)
(* audio source alone as an instance.  part says which of them a behaviour *)
(* is about, and the variables of the others keep their initial values.    *)
(***************************************************************************)
EXTENDS MeshSockets, Ping, MeshTest, MeshDirect, AudioPipeline

CONSTANTS node_a, node_b, node_c, none

VARIABLE part
Part == {"direct", "ping", "test", "sockets", "source", "pipeline"}

(* Three nodes: a controls a remote switch of b, which passes the orders on *)
(* to a switch of c, which publishes its changes to b.  Two more switches   *)
(* of b and c publish theirs to each other: two commands make opposite      *)
(* states chase round that circle.  c asks questions.                       *)
Local(t, h) == [type |-> t, hash |-> h, addr |-> none, target |-> 0, pub |-> <<>>]
Remote(h, n, t) == [type |-> "switch", hash |-> h, addr |-> n, target |-> t, pub |-> <<>>]
Request(cmd, t, h, v) == [cmd |-> cmd, type |-> t, hash |-> h, index |-> 1, val |-> v]

Entities ==
  (node_a :> <<Remote(1, node_b, 3)>>) @@
  (node_b :> <<Remote(3, node_c, 4), Local("sensor", 6), Local("light", 5),
               [Local("switch", 7) EXCEPT !.pub = <<node_c, 8>>]>>) @@
  (node_c :> <<[Local("switch", 4) EXCEPT !.pub = <<node_b, 3>>],
               [Local("switch", 8) EXCEPT !.pub = <<node_b, 7>>]>>)
Levels == (node_a :> <<-1>>) @@ (node_b :> <<-1, 1, 2, 0>>) @@ (node_c :> <<1, 0>>)
Requests == {Request("ENTITIES_COUNT_REQ", "switch", 0, 0),
             Request("GET_ENTITY_HASH_REQ", "switch", 0, 0),
             Request("GET_ENTITY_STATE_REQ", "sensor", 6, 0),
             Request("SET_ENTITY_STATE_REQ", "light", 5, 20),
             Request("SET_ENTITY_STATE_REQ", "switch", 3, 10),
             Request("CUSTOM_DATA_REQ", "switch", 0, 0),
             Request("malformed", "switch", 0, 0)}

(* Both nodes that ping are configured with address: coordinator, and b is *)
(* that.                                                                   *)
Addresses == (node_a :> node_b) @@ (node_b :> none)

Starts == (0 :> 3) @@ (1 :> 1)

(* Frames of three bytes in a ring of five, whose end they straddle; those *)
(* of the pipeline are of one byte.                                        *)
A == INSTANCE AudioSource WITH
  RingSize <- 5, MaxFill <- 4, Alignment <- 3, FileLength <- 14

ASSUME ServiceConstants ==
  /\ DirectConstants /\ Wired /\ TestConstants /\ StartsClose /\ SocketConstants
  /\ A!SourceConstants /\ PipelineConstants

audioVars == <<readerVars, decoderVars, codecVars>>
allVars == <<part, directVars, pingVars, testVars, socketVars, sourceVars, audioVars>>

Init ==
  /\ part \in Part
  /\ DirectInit /\ PingInit /\ TestInit /\ SocketsInit /\ PipelineInit
  /\ (part # "test" => skew = 1) /\ (part # "pipeline" => audioEnd = 4)

Next ==
  /\ UNCHANGED part
  /\ \/ /\ part = "direct" /\ DirectNext
        /\ UNCHANGED <<pingVars, testVars, socketVars, sourceVars, audioVars>>
     \/ /\ part = "ping" /\ PingNext
        /\ UNCHANGED <<directVars, testVars, socketVars, sourceVars, audioVars>>
     \/ /\ part = "test" /\ TestNext
        /\ UNCHANGED <<directVars, pingVars, socketVars, sourceVars, audioVars>>
     \/ /\ part = "sockets" /\ SocketsNext
        /\ UNCHANGED <<directVars, pingVars, testVars, sourceVars, audioVars>>
     \/ /\ part = "source" /\ A!SourceNext
        /\ UNCHANGED <<directVars, pingVars, testVars, socketVars, audioVars>>
     \/ /\ part = "pipeline" /\ PipelineNext
        /\ UNCHANGED <<directVars, pingVars, testVars, socketVars>>

(* The fairness of each part, for the behaviours about it.  That of the     *)
(* direct protocol is DirectFairness with its ENABLED spelt out: a query or *)
(* a delivery is possible unless all is quiet.                              *)
Fairness ==
  /\ \/ []<>(part = "direct" => Quiet)
     \/ []<><<\/ \E r \in Remotes : Query(r[1], r[2])
             \/ \E n, m \in Device : Deliver(n, m)>>_directVars
  /\ WF_testVars(part = "test" /\ TestTick)
  /\ \A n \in 0 .. 1 : /\ WF_testVars(part = "test" /\ TestLoop(n))
                       /\ WF_testVars(part = "test" /\ Arrive(n))
  /\ WF_pipelineVars(part = "pipeline" /\ (StartFile \/ StartHttp))
  /\ WF_pipelineVars(part = "pipeline" /\ FileRead)
  /\ WF_pipelineVars(part = "pipeline" /\ HttpRead)
  /\ WF_pipelineVars(part = "pipeline" /\ (StartDecoder \/ Call \/ Flush
                                           \/ FillInput \/ Codec))
  /\ SF_pipelineVars(part = "pipeline" /\ \E n \in 1 .. Len(output.data) : FlushTo(n))
  /\ WF_pipelineVars(part = "pipeline" /\ SetPause(FALSE))

Spec == Init /\ [][Next]_allVars /\ Fairness

----------------------------------------------------------------------------
(* The properties of the modules, each where it applies; the modules say   *)
(* what they mean.                                                         *)

(* Every variable of the services stays in its type (the TypeOK of each    *)
(* module).                                                                *)
TypesOK ==
  /\ part = "direct" => DirectTypeOK
  /\ part = "ping" => PingTypeOK
  /\ part = "test" => TestTypeOK
  /\ part = "sockets" => SocketsTypeOK
  /\ part = "source" => A!SourceTypeOK
  /\ part = "pipeline" => PipelineTypeOK

(* Requests, replies and publications die out, or opposite states chase    *)
(* each other round a circle of automations (meshmesh_direct.cpp).         *)
RequestsEnd == part = "direct" => FallsSilent
(* The self test ends on any mesh (meshmesh_test).                         *)
SelfTestEnds == part = "test" => TestEnds
(* The audio source exposes whole frames (audio_transfer_buffer.cpp).      *)
SourceFrames == part = "source" => A!WholeFrames
(* Playback comes to an end (audio_reader.cpp, audio_decoder.cpp).         *)
PipelineEnds == part = "pipeline" => PlaybackEnds
=============================================================================
