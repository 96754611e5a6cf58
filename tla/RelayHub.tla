------------------------------ MODULE RelayHub ------------------------------
(***************************************************************************)
(* The relay process (blaktail-relay/src/lib.rs): one task owns the table  *)
(* of registrations and serves UDP datagrams and the frames of WebSocket   *)
(* connections (wss.rs) in turn.  A frame's payload is opaque to the relay *)
(* and absent here; a REGISTER carries a capability the coordinator minted *)
(* (a frame whose HMAC fails changes nothing), so only its expiry matters. *)
(* Tokens in a rate bucket are abstracted to a free choice of admission;   *)
(* the size limit of the bucket table is kept.                             *)
(***************************************************************************)
EXTENDS Naturals, FiniteSets

CONSTANTS
  Nodes,       \* enrolled node ids
  UdpAddrs,    \* UDP source addresses
  Streams,     \* WebSocket connection ids (one may return once closed)
  Ips,         \* source IP addresses
  IpOf,        \* IpOf[x]: the IP address behind x
  NoAddr,      \* the node has no registration
  MaxBuckets,  \* MAX_RATE_BUCKETS
  IdleSecs,    \* RelayConfig.idle_secs
  MaxNow       \* bound on the clock

Addrs == UdpAddrs \cup Streams

ASSUME AddrAssumption ==
  /\ NoAddr \notin Addrs
  /\ UdpAddrs \cap Streams = {}
  /\ IpOf \in [Addrs -> Ips]
ASSUME BoundAssumption ==
  MaxBuckets \in Nat \ {0} /\ IdleSecs \in Nat \ {0} /\ MaxNow \in Nat

VARIABLES
  addr,        \* addr[n]: where n is registered (Client.addr), or NoAddr
  expires,     \* expires[n]: Client.expires_at
  seen,        \* seen[n]: Client.last_seen
  streams,     \* ids in Hub.streams
  sources,     \* keys of Hub.source_buckets
  now,         \* the clock
  owner,       \* history: owner[x] is the node whose REGISTER x sent last
  forward      \* history: the last packet the relay forwarded

tableVars == <<addr, expires, seen>>
hubVars == <<addr, expires, seen, streams, sources, now, owner, forward>>

NoForward == [from |-> NoAddr, to |-> NoAddr, src |-> NoAddr, dst |-> NoAddr]

HubInit ==
  /\ addr = [n \in Nodes |-> NoAddr]
  /\ expires = [n \in Nodes |-> 0]
  /\ seen = [n \in Nodes |-> 0]
  /\ streams = {}
  /\ sources = {}
  /\ now = 0
  /\ owner = [x \in Addrs |-> NoAddr]
  /\ forward = NoForward

Live(n) == addr[n] # NoAddr /\ expires[n] > now

(* HashMap::remove and retain: the entries of gone leave the table.        *)
Drop(gone) ==
  /\ addr' = [n \in Nodes |-> IF n \in gone THEN NoAddr ELSE addr[n]]
  /\ UNCHANGED <<expires, seen>>

Touch(n) == seen' = [seen EXCEPT ![n] = now] /\ UNCHANGED <<addr, expires>>

-----------------------------------------------------------------------------
(* Hub::remote: a frame of a connection the hub does not hold is ignored.  *)
Heard(x) == x \in UdpAddrs \cup streams

(* admit() on the source table: a full table refuses a new key.            *)
Admit(x) ==
  /\ IpOf[x] \in sources \/ Cardinality(sources) < MaxBuckets
  /\ sources' = sources \cup {IpOf[x]}

(* A frame the source bucket admits but that is refused before it touches  *)
(* a registration: no token left, too short, bad HMAC, wrong length.       *)
Refused(x) ==
  /\ Heard(x) /\ Admit(x)
  /\ UNCHANGED <<tableVars, streams, now, owner, forward>>

(* Mutant: re-registration leaves the previous node at that address.       *)
RegisterKeepsStale(n, exp, x) ==
  /\ Heard(x) /\ Admit(x)
  /\ exp > now
  /\ addr' = [addr EXCEPT ![n] = x]
  /\ expires' = [expires EXCEPT ![n] = exp]
  /\ seen' = [seen EXCEPT ![n] = now]
  /\ owner' = [owner EXCEPT ![x] = n]
  /\ UNCHANGED <<streams, now, forward>>

(* REGISTER: one address represents one node.                              *)
Register(n, exp, x) ==
  /\ Heard(x) /\ Admit(x)
  /\ exp > now
  /\ addr' = [m \in Nodes |-> IF m = n THEN x
                              ELSE IF addr[m] = x THEN NoAddr ELSE addr[m]]
  /\ expires' = [expires EXCEPT ![n] = exp]
  /\ seen' = [seen EXCEPT ![n] = now]
  /\ owner' = [owner EXCEPT ![x] = n]
  /\ UNCHANGED <<streams, now, forward>>

(* SEND, up to its rate check: the sender is whoever is registered at the  *)
(* source address; an expired sender is removed.                           *)
SendExpired(m, x) ==
  /\ Heard(x) /\ Admit(x)
  /\ addr[m] = x /\ expires[m] <= now
  /\ Drop({m})
  /\ UNCHANGED <<streams, now, owner, forward>>

(* A live sender's frame that goes nowhere (rate limited, or to a node     *)
(* without a registration) and every answered PING still refresh it.       *)
Refresh(m, x) ==
  /\ Heard(x) /\ Admit(x)
  /\ addr[m] = x /\ expires[m] > now
  /\ Touch(m)
  /\ UNCHANGED <<streams, now, owner, forward>>

(* Mutant: the destination's capability is not checked again.              *)
SendUnchecked(m, x, n) ==
  /\ Heard(x) /\ Admit(x)
  /\ addr[m] = x /\ expires[m] > now
  /\ addr[n] # NoAddr
  /\ Touch(m)
  /\ forward' = [from |-> m, to |-> n, src |-> x, dst |-> addr[n]]
  /\ UNCHANGED <<streams, now, owner>>

(* SEND from m at x to n.                                                  *)
Send(m, x, n) ==
  /\ Heard(x) /\ Admit(x)
  /\ addr[m] = x /\ expires[m] > now
  /\ addr[n] # NoAddr
  /\ \/ /\ expires[n] > now
        /\ Touch(m)
        /\ forward' = [from |-> m, to |-> n, src |-> x, dst |-> addr[n]]
     \/ /\ expires[n] <= now
        /\ addr' = [addr EXCEPT ![n] = NoAddr]
        /\ seen' = [seen EXCEPT ![m] = now]
        /\ UNCHANGED <<expires, forward>>
  /\ UNCHANGED <<streams, now, owner>>

-----------------------------------------------------------------------------
(* A connection task sends Open, then frames, then Closed, in that order   *)
(* on one channel.                                                         *)
StreamOpen(s) ==
  /\ s \notin streams
  /\ streams' = streams \cup {s}
  /\ UNCHANGED <<tableVars, sources, now, owner, forward>>

StreamClosed(s) ==
  /\ s \in streams
  /\ streams' = streams \ {s}
  /\ Drop({n \in Nodes : addr[n] = s})
  /\ UNCHANGED <<sources, now, owner, forward>>

(* reap(): expired and idle registrations go, and so do idle buckets.      *)
Reap ==
  /\ Drop({n \in Nodes : expires[n] <= now \/ seen[n] + IdleSecs <= now})
  /\ \E kept \in SUBSET sources : sources' = kept
  /\ UNCHANGED <<streams, now, owner, forward>>

Tick ==
  /\ now < MaxNow
  /\ now' = now + 1
  /\ UNCHANGED <<tableVars, streams, sources, owner, forward>>

HubNext ==
  \/ \E x \in Addrs : Refused(x)
  \/ \E n \in Nodes, exp \in 1..(MaxNow + 1), x \in Addrs : Register(n, exp, x)
  \/ \E m \in Nodes, x \in Addrs : SendExpired(m, x) \/ Refresh(m, x)
  \/ \E m, n \in Nodes, x \in Addrs : Send(m, x, n)
  \/ \E s \in Streams : StreamOpen(s) \/ StreamClosed(s)
  \/ Reap
  \/ Tick

HubSpec == HubInit /\ [][HubNext]_hubVars

-----------------------------------------------------------------------------
(* Every variable has its type.                                            *)
HubTypeOK ==
  /\ addr \in [Nodes -> Addrs \cup {NoAddr}]
  /\ expires \in [Nodes -> Nat]
  /\ seen \in [Nodes -> Nat]
  /\ streams \subseteq Streams
  /\ sources \subseteq Ips
  /\ now \in Nat
  /\ owner \in [Addrs -> Nodes \cup {NoAddr}]

(* A registration names the node that registered last from its address:    *)
(* Hub::handle attributes every SEND and every FORWARDED by it ("one UDP   *)
(* source address, or one WebSocket, represents one enrolled node").       *)
AttributionIsLatest ==
  \A n \in Nodes : addr[n] # NoAddr => owner[addr[n]] = n

(* A registration over a WebSocket lasts no longer than the connection     *)
(* ("closing it drops the registration at once"), so the relay never       *)
(* queues a packet for a connection that is gone.                          *)
StreamRegistrationsOpen ==
  \A n \in Nodes : addr[n] \in Streams => addr[n] \in streams

(* The relay forwards only between two live registrations: from the node   *)
(* registered at the sender's address to the node's own current address,   *)
(* neither capability having run out.                                      *)
ForwardsBetweenLive ==
  [][forward' # forward =>
       /\ Live(forward'.from) /\ Live(forward'.to)
       /\ owner[forward'.src] = forward'.from
       /\ owner[forward'.dst] = forward'.to]_hubVars

(* A flood of new source addresses cannot grow the bucket table beyond     *)
(* MAX_RATE_BUCKETS.                                                       *)
BucketsBounded == Cardinality(sources) <= MaxBuckets

(* The relay's tables at any time.                                         *)
HubInv == HubTypeOK /\ AttributionIsLatest /\ StreamRegistrationsOpen /\ BucketsBounded
=============================================================================
