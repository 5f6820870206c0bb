SPECIFICATION DirectSpec
CONSTANTS
  node_a = node_a
  node_b = node_b
  node_c = node_c
  Device = {node_a, node_b, node_c}
  NoDevice = none
  Entity <- MCEntity
  Level <- MCLevel
  Hub = node_c
  Asked = {}
  Half = 16
  Full = 15
  MaxMoves = 1
INVARIANT
  AnsweredByTarget
CHECK_DEADLOCK FALSE
