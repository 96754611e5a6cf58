SPECIFICATION MCPathsSpec
CONSTANTS
  \* Selector
  RELAYS = 2
  BASE_COOLDOWN = 1
  MAX_COOLDOWN = 3
  MAX_STRIKES = 3
  \* PeerPaths
  PathPeers = {p1}
  RELAY_HEALTH = 2
  DIRECT_GRACE = 1
  DIRECT_RETRY = 2
  HANDSHAKE_FRESH = 2
  MaxPathEvents = 3
  \* MobileRelay
  RELAY_GRACE = 2
  MOBILE_RELAY_HEALTH = 2
  FAILBACK_PROBE = 1
  DIRECT_SILENCE = 1
  DIRECT_RETRY_EVERY = 4
  DIRECT_PROBE_WINDOW = 2
  DIRECT_PROMOTE_HITS = 2
  OneWay = {}
  MaxMobileEvents = 3
  \* RelaySession
  Self = self
  Udp = udp
  Streams = {w1, w2}
  Ip = ip
  None = None
  MaxQueue = 4
INVARIANTS SessionInv
  
