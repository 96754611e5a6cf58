SPECIFICATION Spec
CONSTANTS
  MaxConns = 2
  Maps = {"on", "off", "none"}
  CanRestart = {"I", "R"}
  FaultyDevices = {"I", "R"}
INVARIANTS PqInv
