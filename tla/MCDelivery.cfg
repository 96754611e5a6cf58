SPECIFICATION DeliverySpec
CONSTANTS
  \* ControlUpdates
  Nodes = {1, 3}
  OverlapIds = {2, 4}
  MaxRevision = 4
  MaxFaults = 1
  Rotations = 2
  \* RemoteSessions
  Gateways = {g1, g2}
  Targets = {t1}
  HostKeys = {k1, k2}
  SessionIds = {s1}
  Conns = {c1, c2}
  Nobody = Nobody
  TICKET_TTL_SECS = 1
  SESSION_SECS = 1
  REPORT_STALE_SECS = 1
  MaxClock = 2
  MaxUpheavals = 1
  \* RemoteJobs
  Runs = {r1}
  JobKeys = {j1, j2}
  NoJob = NoJob
  JOB_CLAIM_WINDOW_SECS = 1
  MaxJobClock = 2
  MaxMishaps = 2
  \* Outbox
  Dests = {d1}
  Events = {e1, e2}
  Critical = {e2}
  Loops = {w1, w2}
  Schedules <- NightlyQuiet
  DAY = 3
  MAX_ATTEMPTS = 2
  MAX_DESTINATIONS = 1
  MaxLate = 0
  MaxTurns = 1
  \* PostureSync
  Devices = {d1}
  Replicas = {p1}
  Manuals = {m1}
  Configs = {c1}
  CheckDefs <- BothKinds
  MAX_AGE = 1
  LEASE_SECS = 1
  INTERVAL = 1
  MaxEdits = 2
  MaxCrashes = 1
INVARIANTS ControlInv RemoteInv  PostureInv
PROPERTIES JobsHold 
CHECK_DEADLOCK FALSE
