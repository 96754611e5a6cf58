SPECIFICATION FairSpec
CONSTANTS
  MaxConns = 2
  Maps = {"on", "off"}
  CanRestart = {"R"}
  FaultyDevices = {}
PROPERTY PolicyOffClears
