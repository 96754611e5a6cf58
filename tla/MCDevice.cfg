SPECIFICATION DeviceSpec
CONSTANTS
  \* LinuxNetwork
  HostPeers = {p1}
  Families = {4, 6}
  FailAt = {"upsert", "remove", "routes", "aclOn", "new", "fill", "jump", "acceptsOn", "natOn"}
  CrashAt = {"upsert", "remove", "routes", "aclOn", "new", "fill", "jump", "natOn"}
  MaxHostOps = 5
  MaxHostFaults = 2
  MaxFilter = 2
  \* Traffic
  Tuples = {t1}
  Counters = {"chain", "wg"}
  MAX_QUEUED = 2
  MAX_OPEN_FLOWS = 1
  MAX_DROPS_PER_WINDOW = 1
  MAX_BATCH = 1
  MaxUnits = 2
  MaxConnections = 1
  MaxToggles = 2
  MaxLosses = 1
  \* ShareFiles
  Uploads = {u1, u2}
  Items <- DrivePaths
  Parent <- DriveParent
  Part <- DrivePart
  Links = {"l"}
  Root = Root
  Gone = Gone
  Old = Old
  Outside = Outside
  Hangups = {TRUE, FALSE}
  \* HostDns
  Tools = {"resolved", "resolvconf", "file", "link"}
  DnsKills = {TRUE, FALSE}
  MaxDnsEvents = 4
  \* ConfigReload
  Absent = Absent
  SecretFiles = {"s1", "s2"}
  SwapsWhileStarting = {}
  MaxConfigEdits = 3
  \* RelayHub
  Nodes = {na, nb}
  udp1 = udp1
  w1 = w1
  w2 = w2
  ip1 = ip1
  ip2 = ip2
  ip3 = ip3
  UdpAddrs = {udp1}
  Streams = {w1, w2}
  Ips = {ip1, ip2, ip3}
  IpOf <- AddrIps
  NoAddr = NoAddr
  MaxBuckets = 2
  IdleSecs = 1
  MaxNow = 1
INVARIANTS NetworkInv FilesInv   HubInv
PROPERTIES  ForwardsBetweenLive
CHECK_DEADLOCK FALSE
