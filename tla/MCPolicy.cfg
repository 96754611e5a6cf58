SPECIFICATION PolicySpec
CONSTANTS
  \* AclPolicy
  Catalog <- RuleShapes
  SshCatalog <- SshShapes
  AclPorts = {22, 80, 51}
  Logins = {"root", "deploy"}
  SSH_PORT = 22
  PQ_PORT = 51
  MaxRules = 2
  MaxSshRules = 2
  \* PacketFilter
  Keys = {k1, k2}
  MAX_STATES = 1
  MAX_FRAGMENTS = 1
  MAX_PENDING_DROPS = 1
  MAX_EVENTS = 3
  PURGE_EVERY = 2
  PURGE_SLACK = 0
  NEW_SECS = 1
  REPLIED_SECS = 2
  FRAGMENT_SECS = 1
  MaxFilterClock = 2
  MaxFlows = 3
  MaxPolicies = 1
  \* Forwarding
  WIDTH = 2
  Ports = {22, 80}
  NamedHosts <- NamedHost
  MaxForwardEdits = 3
  \* OrgDns
  DnsNames <- AskedNames
  MagicDomain <- OrgDomain
  Hosts <- HostSet
  DeviceTags = {"office"}
  Splits <- SplitSet
  NameserverGroups <- GroupSet
  Zones <- ZoneSet
  ExtraRecords <- RecordSet
  MAX_CNAME_DEPTH = 3
  MaxDnsItems = 2
  MaxDnsRevision = 3
SYMMETRY KeySymmetry
INVARIANTS PolicyInv  ExitInv 
CHECK_DEADLOCK FALSE
