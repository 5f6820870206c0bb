SPECIFICATION Spec
CONSTANTS
  node_a = node_a
  node_b = node_b
  node_c = node_c
  none = none
  Impl = {listener, client, other}
  Keys = 3
  MaxSockets = 6
  Node = {node_a, node_b}
  NoNode = none
  Coordinator = node_b
  ToCoordinator = {node_a, node_b}
  Address <- Addresses
  Device = {node_a, node_b, node_c}
  NoDevice = none
  Entity <- Entities
  Level <- Levels
  Hub = node_c
  Asked <- Requests
  Half = 16
  Full = 15
  MaxMoves = 2
  Interval = 5
  Second = 3
  MaxDelay = 1
  MaxLate = 3
  MaxFaults = 2
  MaxCrashes = 1
  RingSize = 3
  MaxFill = 2
  Alignment = 1
  FileLength = 5
  Header = 1
  AudioEnds = {4, 5}
  Frame = 2
  BufferSize = 2
  OutputSize = 1
  MaxSilence = 1
  MaxIterations = 3
  MaxPotentiallyFailed = 1
  MaxGlitches = 1
  MaxPauses = 1
  MaxStarts = 1
  Start <- Starts
  Pause = 2
  Short = 1
  Brief = 3
  Long = 6
  MaxSkew = 4
  MaxTestFaults = 1
INVARIANTS
  TypesOK
  RemoteShowsTarget
  DeadIsNoticed
  AliveIsSeen
  BothPass
  SocketsMatch
  StreamInOrder
  SourceFrames
  HeldAsNeeded
  SamplesInOrder
  FinishedMeansAll
PROPERTIES
  RequestsEnd
  SelfTestEnds
  PipelineEnds
CHECK_DEADLOCK FALSE
