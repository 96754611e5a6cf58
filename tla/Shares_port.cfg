SPECIFICATION ReachSpec
CONSTANTS
  \* Ingress
  PubRoutes = {r1}
  Fetches = {f1, f2}
  STALE_AFTER_SECS = 1
  MAX_CONFIG_WAIT_SECS = 1
  ANSWER_SLACK_SECS = 0
  MAX_CONNECTIONS = 1
  MaxIngressEdits = 2
  MaxIngressFaults = 1
  \* Distribution
  Carriers <- CarrierOrder
  Domains <- DomainOrder
  Hosts = {h1, h2}
  Refused = {h2}
  Watchers = {w1}
  BumpOutcomes = {TRUE}
  MaxTurns = 2
  MaxPasses = 2
  \* Services
  Servers = {"a", "b"}
  Serials = {1, 2, 3, 4}
  HEALTH_FRESH_SECS = 1
  LEAF_LIFETIME_SECS = 2
  MaxLag = 0
  MaxSvcEvents = 1
  \* Shares
  Boxes = {"s", "c"}
  Publishers = {"s"}
  Labels = {"l1"}
  Person <- Who
  Teams <- Crews
  DrivePolicies <- Drives
  NetPolicies <- Nets
  Nil = Nil
  MAX_SHARES = 2
  MaxShareEdits = 2
  MaxShareFaults = 1
INVARIANT OfferedIsReachable
CHECK_DEADLOCK FALSE
