SPECIFICATION ServersSpec
CONSTANTS
  \* Enrolment
  Names = {n1, n2}
  NodeIds = {i1}
  JoinKeys = {k1}
  Codes = {c1}
  Admins = {a1}
  Settings = {s1}
  Requests = {q1, q2}
  Nobody = Nobody
  KEY_SECS = 1
  NODE_TTL = 1
  MAX_PENDING_DEVICE_AUTHS = 1
  MaxEnrolClock = 1
  MaxChurn = 2
  \* AgentGateway
  Reqs = {u1, u2}
  RequestQuotas = {1, 2}
  TOKEN_QUOTA = 3
  PENDING_TIMEOUT = 1
  DAY_SECS = 1
  AnswersInTime = TRUE
  MaxOutput = 1
  MaxAgwClock = 1
  MaxAgwEdits = 1
  \* PostureHardware
  Machines = {m1, m2}
  Serials = {x1, x2}
  NoSerial = NoSerial
  MaxHwClock = 1
  MaxPinAt = 2
  \* Routes
  Routers = {r1, r2}
  Subnets <- NestedPrefixes
  RouteAdmins = {ra1}
  ResourceIds = {v1, v2, v3}
  OneConnection = TRUE
  MAX_RESOURCES = 2
  MaxRouteEdits = 4
  \* AuditChain
  EventIds = {1, 2, 3}
  VERIFY_PAGE = 2
  EXPORT_PAGE = 1
  MAX_EXPORT_ROWS = 2
  RETENTION = 1
  MaxAuditClock = 1
  MaxTampers = 1
  \* Documents
  Procs = {p1, p2}
  Surfaces = {"policy", "dns", "resources"}
  Docs = {d1, d2}
  InitialDoc = d1
  KeepRevisions = 50
  MaxControl = 4
  \* Schema
  Latest = 3
  Plain = {3}
  MigrateJobs = {j1, j2}
  ServeReplicas = {sr1, sr2}
  OldNodes <- NamesBefore
  MaxMigrateJobs = 4
  MaxSqliteJobs = 1
SYMMETRY ServersSymmetry
INVARIANTS EnrolInv GatewayInv  AuditInv ExportComplete DocsInv SchemaInv
PROPERTIES  DnsBuildsOnLatest
CHECK_DEADLOCK FALSE
