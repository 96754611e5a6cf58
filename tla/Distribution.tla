---------------------------- MODULE Distribution ----------------------------
(***************************************************************************)
(* Which router carries a network resource, and the host routes app        *)
(* connectors lease for names (blaktail-coord/src/resources.rs, evaluation *)
(* and router liveness; blaktail-coord/src/app_connectors.rs;              *)
(* blaktaild/src/connector.rs).  Clients learn of a change only when the   *)
(* control revision moves.                                                 *)
(*                                                                         *)
(* Time is abstracted to what it decides: a router is online or not, a     *)
(* lease is live or has lapsed.  The order of Carriers is that of their    *)
(* metrics, the order of Domains that of the rows.                         *)
(***************************************************************************)
EXTENDS Naturals, Sequences, FiniteSetsExt

CONSTANTS
  Carriers,       \* routing peers, by metric
  Domains,        \* DNS resources, in row order
  Hosts, Refused, \* addresses; those no connector may lease
  Watchers,       \* coordinator replicas
  BumpOutcomes,   \* whether a bump of its own transaction can fail
  MaxTurns, MaxPasses

ASSUME DistributionAssumption ==
  /\ Refused \subseteq Hosts /\ "net" \notin Hosts /\ BumpOutcomes \subseteq BOOLEAN /\ TRUE \in BumpOutcomes
  /\ MaxTurns \in Nat /\ MaxPasses \in Nat

CarrierSet == {Carriers[i] : i \in 1..Len(Carriers)}
DomainSet == {Domains[i] : i \in 1..Len(Domains)}
Never == {"never"}    \* a replica that has not looked yet

VARIABLES
  up,        \* routers seen within NODE_ONLINE_SECS
  enabled,   \* enabled resources: "net" is the CIDR resource
  covered,   \* hosts inside an enabled prefix or an approved route
  lease,     \* connector_leases: "none", "live" or "lapsed"
  blocked,   \* connector_reports in state blocked
  ctlRev,    \* orgs.control_revision
  seenUp,    \* each replica's SEEN
  carried,   \* a client's routes: destination to router
  clientRev, \* the revision they come from
  wanted,    \* routes a connector's pass has collected; not in a pass: "idle"
  forwards,  \* host routes each connector forwards
  turns, passes

distVars == <<up, enabled, covered, lease, blocked, ctlRev, seenUp, carried, clientRev,
              wanted, forwards, turns, passes>>

NoPass == [left |-> {}, got |-> {}, on |-> FALSE]
DistributionInit ==
  /\ up = CarrierSet /\ enabled = DomainSet \cup {"net"} /\ covered = {}
  /\ lease = [x \in DomainSet \X CarrierSet \X Hosts |-> "none"]
  /\ blocked = {} /\ ctlRev = 0 /\ seenUp = [w \in Watchers |-> Never]
  /\ carried = {} /\ clientRev = 0
  /\ wanted = [n \in CarrierSet |-> NoPass] /\ forwards = [n \in CarrierSet |-> {}]
  /\ turns = 0 /\ passes = 0

-----------------------------------------------------------------------------
(* evaluate_peers(): the first online router by metric, else the first.    *)
Selected ==
  LET on == {i \in 1..Len(Carriers) : Carriers[i] \in up}
  IN Carriers[IF on # {} THEN Min(on) ELSE 1]

(* OrgLeases::load(): lapsed leases are not read.                          *)
Leased(d, n) == {h \in Hosts : lease[<<d, n, h>>] = "live"}

(* load_distribution(): a host route inside a protected prefix is never    *)
(* distributed, and one claimed by two routers stays with the first.       *)
HostRoutes ==
  {<<h, Selected>> : h \in (UNION {Leased(d, Selected) : d \in enabled \ {"net"}}) \ covered}
Snapshot == HostRoutes \cup (IF "net" \in enabled THEN {<<"net", Selected>>} ELSE {})

Upheaval == turns < MaxTurns /\ turns' = turns + 1
Quiet == UNCHANGED <<seenUp, carried, clientRev, wanted, forwards, passes>>

-----------------------------------------------------------------------------
(* A router is heard from again, or has been silent for too long: longer   *)
(* than the polls of a replica take to look at it (NODE_ONLINE_SECS against *)
(* LIVENESS_CHECK_SECS).                                                   *)
RouterTurns(n) ==
  /\ Upheaval
  /\ n \in up => \A w \in Watchers : seenUp[w] \in {up, Never}
  /\ up' = IF n \in up THEN up \ {n} ELSE up \cup {n}
  /\ UNCHANGED <<enabled, covered, lease, blocked, ctlRev>> /\ Quiet

(* A resource is enabled or disabled; an administrator's write bumps.      *)
ResourceTurns(r) ==
  /\ Upheaval
  /\ enabled' = IF r \in enabled THEN enabled \ {r} ELSE enabled \cup {r}
  /\ ctlRev' = ctlRev + 1
  /\ UNCHANGED <<up, covered, lease, blocked>> /\ Quiet

(* A prefix that holds the host becomes a resource or an approval.         *)
PrefixCovers(h) ==
  /\ Upheaval /\ h \notin covered
  /\ covered' = covered \cup {h} /\ ctlRev' = ctlRev + 1
  /\ UNCHANGED <<up, enabled, lease, blocked>> /\ Quiet

LooksChanged(w) == seenUp[w] # up

(* bump_on_router_liveness_change(): what was seen is recorded before the  *)
(* bump's transaction.                                                     *)
LivenessCheck(w) ==
  /\ LooksChanged(w)
  /\ seenUp' = [seenUp EXCEPT ![w] = up]
  /\ \E ok \in BumpOutcomes : ctlRev' = IF ok THEN ctlRev + 1 ELSE ctlRev
  /\ UNCHANGED <<up, enabled, covered, lease, blocked, carried, clientRev, wanted, forwards,
                 turns, passes>>

(* A client's long poll answers once the revision has moved.               *)
ClientPoll ==
  /\ clientRev # ctlRev
  /\ carried' = Snapshot /\ clientRev' = ctlRev
  /\ UNCHANGED <<up, enabled, covered, lease, blocked, ctlRev, seenUp, wanted, forwards,
                 turns, passes>>

-----------------------------------------------------------------------------
(* A lease's TTL runs out.                                                 *)
LeaseLapses(d, n, h) ==
  /\ lease[<<d, n, h>>] = "live" /\ Upheaval
  /\ lease' = [lease EXCEPT ![<<d, n, h>>] = "lapsed"]
  /\ UNCHANGED <<up, enabled, covered, blocked, ctlRev>> /\ Quiet

(* expire_leases().                                                        *)
Lapsed == {x \in DOMAIN lease : lease[x] = "lapsed"}
Purge(l) == [x \in DOMAIN l |-> IF l[x] = "lapsed" THEN "none" ELSE l[x]]
ExpireLeases ==
  /\ Lapsed # {}
  /\ lease' = Purge(lease) /\ ctlRev' = ctlRev + 1
  /\ UNCHANGED <<up, enabled, covered, blocked, turns>> /\ Quiet

(* manage() fetches its assignments; when it cannot, it keeps forwarding.  *)
PassStarts(n) ==
  /\ ~wanted[n].on /\ passes < MaxPasses
  /\ passes' = passes + 1
  /\ wanted' = [wanted EXCEPT ![n] = [left |-> enabled \ {"net"}, got |-> {}, on |-> TRUE]]
  /\ UNCHANGED <<up, enabled, covered, lease, blocked, ctlRev, seenUp, carried, clientRev,
                 forwards, turns>>

Replaced(l, d, n, S) ==
  [x \in DOMAIN l |-> IF x[1] = d /\ x[2] = n
                      THEN IF x[3] \in S THEN "live" ELSE "none" ELSE l[x]]

(* Mutant: a refused answer leaves the earlier leases in place.            *)
BlockedLeasesKept(d, n) == Purge(lease)
(* Every lease of the resource goes with a refused answer.                 *)
BlockedLeases(d, n) == Replaced(Purge(lease), d, n, {})

(* forbidden_reason(), device endpoints and protected_prefixes().          *)
Refuses(answers) == answers \cap (Refused \cup covered) # {}

(* A replica restarts: its view of the routers is gone.                    *)
WatcherRestarts(w) ==
  /\ Upheaval /\ seenUp' = [seenUp EXCEPT ![w] = Never]
  /\ UNCHANGED <<up, enabled, covered, lease, blocked, ctlRev, carried, clientRev, wanted,
                 forwards, passes>>

(* report_resolution().  Lapsed leases of the whole organisation go first, *)
(* whatever the report says; "fails" is a resolver error.                  *)
ReportResolution(d, n, answers) ==
  LET before == Leased(d, n)
      ok == d \in enabled /\ ~Refuses(answers) IN
  /\ d \in wanted[n].left
  /\ lease' = IF d \notin enabled THEN Replaced(Purge(lease), d, n, {})
              ELSE IF Refuses(answers) THEN BlockedLeases(d, n)
              ELSE Replaced(Purge(lease), d, n, answers)
  /\ ctlRev' = CASE d \notin enabled -> IF before # {} THEN ctlRev + 1 ELSE ctlRev
                 [] d \in enabled /\ Refuses(answers) -> ctlRev + 1
                 [] OTHER -> IF answers # before THEN ctlRev + 1 ELSE ctlRev
  /\ blocked' = IF d \notin enabled THEN blocked
                ELSE IF Refuses(answers) THEN blocked \cup {<<d, n>>} ELSE blocked \ {<<d, n>>}
  /\ wanted' = [wanted EXCEPT ![n].left = @ \ {d},
                              ![n].got = IF ok THEN @ \cup answers ELSE @]
  /\ UNCHANGED <<up, enabled, covered, seenUp, carried, clientRev, forwards, turns, passes>>

ReportError(d, n) ==
  /\ d \in wanted[n].left
  /\ lease' = IF d \in enabled THEN Purge(lease) ELSE Replaced(Purge(lease), d, n, {})
  /\ ctlRev' = IF d \notin enabled /\ Leased(d, n) # {} THEN ctlRev + 1 ELSE ctlRev
  /\ blocked' = IF d \in enabled THEN blocked \ {<<d, n>>} ELSE blocked
  /\ wanted' = [wanted EXCEPT ![n].left = @ \ {d},
                              ![n].got = IF d \in enabled THEN @ \cup Leased(d, n) ELSE @]
  /\ UNCHANGED <<up, enabled, covered, seenUp, carried, clientRev, forwards, turns, passes>>

(* reconcile_forwarding() at the end of the pass.                          *)
Reconcile(n) ==
  /\ wanted[n].on /\ wanted[n].left = {}
  /\ forwards' = [forwards EXCEPT ![n] = wanted[n].got]
  /\ wanted' = [wanted EXCEPT ![n] = NoPass]
  /\ UNCHANGED <<up, enabled, covered, lease, blocked, ctlRev, seenUp, carried, clientRev,
                 turns, passes>>

-----------------------------------------------------------------------------
DistributionNext ==
  \/ \E w \in Watchers : LivenessCheck(w) \/ WatcherRestarts(w)
  \/ ClientPoll \/ ExpireLeases
  \/ \E r \in DomainSet \cup {"net"} : ResourceTurns(r)
  \/ \E h \in Hosts : PrefixCovers(h)
  \/ \E n \in CarrierSet :
       \/ RouterTurns(n) \/ PassStarts(n) \/ Reconcile(n)
       \/ \E d \in DomainSet :
            \/ ReportError(d, n)
            \/ \E S \in SUBSET Hosts : ReportResolution(d, n, S)
            \/ \E h \in Hosts : LeaseLapses(d, n, h)

(* Long polls run for ever on every replica: each looks at the routers and *)
(* expires leases, and the client reads what moved.                        *)
DistributionFairness ==
  /\ WF_distVars(ClientPoll) /\ WF_distVars(ExpireLeases)
  /\ \A w \in Watchers : WF_distVars(LivenessCheck(w))

DistributionSpec == DistributionInit /\ [][DistributionNext]_distVars /\ DistributionFairness

-----------------------------------------------------------------------------
(* Leases exist only for addresses a connector may serve; a forwarded or   *)
(* distributed host is one of them.                                        *)
DistributionTypeOK ==
  /\ up \subseteq CarrierSet /\ clientRev <= ctlRev
  /\ \A x \in DOMAIN lease : lease[x] # "none" => x[3] \notin Refused
  /\ \A n \in CarrierSet : forwards[n] \cap Refused = {}

(* A connector whose last report was refused holds no lease: everything it *)
(* had resolved was withdrawn with it (app_connectors.rs:522-551).         *)
BlockedHoldsNothing ==
  \A d \in DomainSet, n \in CarrierSet : <<d, n>> \in blocked => Leased(d, n) = {}

(* A client that is up to date never reaches a host of a network resource  *)
(* or an approved route through a connector, which would hand it out under *)
(* the name's access and ports (resources.rs:827-840).                     *)
PrefixKeepsItsAccess ==
  clientRev = ctlRev => \A r \in carried : r[1] \notin covered

(* The comment at resources.rs:1869-1877: clients do not keep a dead       *)
(* router's routes while another one is online.                            *)
FailoverReached == <>[](\A r \in carried : r[1] = "net" /\ up # {} => r[2] \in up)

(* Connector routes neither leave their domains nor take over a prefix.    *)
DistributionInv == DistributionTypeOK /\ PrefixKeepsItsAccess /\ BlockedHoldsNothing
=============================================================================
