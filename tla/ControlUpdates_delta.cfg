SPECIFICATION ControlSpec
CONSTANTS
  Nodes = {1, 3}
  OverlapIds = {2, 4}
  MaxRevision = 5
  MaxFaults = 0
  Rotations = 2
INVARIANT AgentInStep
CHECK_DEADLOCK FALSE
