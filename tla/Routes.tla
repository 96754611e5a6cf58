------------------------------- MODULE Routes -------------------------------
(***************************************************************************)
(* Subnet routes: what routers advertise, what administrators approve on   *)
(* them, and the network resources distributed beside the approvals        *)
(* (blaktail-coord/src/lib.rs, update_advertised_routes() and              *)
(* approve_node_routes(); blaktail-coord/src/resources.rs).                *)
(*                                                                         *)
(* A prefix is the set of hosts in it: prefixes overlap when they share a  *)
(* host.  Default routes are exempt from every rule here and left out.     *)
(***************************************************************************)
EXTENDS Naturals, FiniteSets

CONSTANTS
  Routers, Subnets, RouteAdmins, ResourceIds,
  OneConnection,          \* SQLite: transactions exclude each other
  MAX_RESOURCES, MaxRouteEdits

ASSUME RoutesAssumption ==
  /\ \A p \in Subnets : p # {}
  /\ OneConnection \in BOOLEAN /\ MAX_RESOURCES \in Nat

VARIABLES
  router,      \* nodes: advertised and approved routes, credential expired
  netRes,      \* network_resources
  advert,      \* an agent's advertisement between its read and its write
  approval,    \* approve_node_routes() between its reads and its writes
  routeEdits

routeVars == <<router, netRes, advert, approval, routeEdits>>

NoAdvert == [step |-> "none"]
NoApproval == [step |-> "none"]
NoResource == [cidr |-> {}, nested |-> FALSE, rev |-> 0]

RoutesInit ==
  /\ router = [n \in Routers |-> [adv |-> {}, app |-> {}, expired |-> FALSE]]
  /\ netRes = [x \in ResourceIds |-> NoResource]
  /\ advert = [n \in Routers |-> NoAdvert]
  /\ approval = [a \in RouteAdmins |-> NoApproval]
  /\ routeEdits = 0

(* routes_overlap() and cidr_within().                                     *)
Overlaps(p, q) == p \cap q # {}
Clear(p, others) == \A q \in others : ~Overlaps(p, q)

(* validate_advertised_routes(): a router's own advertisements are         *)
(* disjoint.                                                               *)
ValidRoutes(S) == \A p, q \in S : p # q => ~Overlaps(p, q)

(* On one connection a transaction runs while no other is open.            *)
TxFree == OneConnection => \A a \in RouteAdmins : approval[a] = NoApproval
RouteEdit == routeEdits < MaxRouteEdits /\ routeEdits' = routeEdits + 1

-----------------------------------------------------------------------------
(* update_advertised_routes() reads the approvals on the pool ...          *)
AdvertiseRead(n, S) ==
  /\ advert[n] = NoAdvert /\ ValidRoutes(S) /\ ~router[n].expired
  /\ TxFree /\ RouteEdit
  /\ advert' = [advert EXCEPT ![n] = [step |-> "read", routes |-> S, approved |-> router[n].app]]
  /\ UNCHANGED <<router, netRes, approval>>

(* Mutant: the approvals that were read are kept, whatever is advertised   *)
(* now.                                                                    *)
RetainedAll(op) == op.approved
(* ... and writes those that are still advertised with the advertisement.  *)
Retained(op) == op.approved \cap op.routes
AdvertiseWrite(n) ==
  /\ advert[n].step = "read" /\ TxFree
  /\ router' = [router EXCEPT ![n].adv = advert[n].routes, ![n].app = Retained(advert[n])]
  /\ advert' = [advert EXCEPT ![n] = NoAdvert]
  /\ UNCHANGED <<netRes, approval, routeEdits>>

-----------------------------------------------------------------------------
(* The checks of approve_node_routes(), on what its transaction reads.     *)
Others(n) == Routers \ {n}
ResourcePrefixes == {netRes[x].cidr : x \in {y \in ResourceIds : netRes[y] # NoResource}}
Approvable(n, S) ==
  /\ ValidRoutes(S) /\ S \subseteq router[n].adv
  /\ router[n].expired => S \subseteq router[n].app
  /\ \A p \in S :
       /\ Clear(p, ResourcePrefixes)
       /\ \A o \in Others(n) : router[o].expired \/ Clear(p, router[o].app)

ApproveRead(a, n, S) ==
  /\ approval[a] = NoApproval /\ Approvable(n, S) /\ TxFree /\ RouteEdit
  /\ approval' = [approval EXCEPT ![a] =
       [step |-> "checked", node |-> n, routes |-> S,
        lapsed |-> [o \in {o \in Others(n) : router[o].expired} |-> router[o].app]]]
  /\ UNCHANGED <<router, netRes, advert>>

(* Overlapping approvals of expired routers go, then the router's own are  *)
(* written.                                                                *)
ApproveWrite(a) ==
  LET op == approval[a]
      kept(o) == {p \in op.lapsed[o] : Clear(p, op.routes)} IN
  /\ op.step = "checked"
  /\ router' = [n \in Routers |->
       IF n = op.node THEN [router[n] EXCEPT !.app = op.routes]
       ELSE IF n \in DOMAIN op.lapsed /\ kept(n) # op.lapsed[n]
       THEN [router[n] EXCEPT !.app = kept(n)] ELSE router[n]]
  /\ approval' = [approval EXCEPT ![a] = NoApproval]
  /\ UNCHANGED <<netRes, advert, routeEdits>>

-----------------------------------------------------------------------------
(* Resources.  The control revision is bumped first: the organisation's    *)
(* row is locked before anything is checked, so each operation is one step *)
(* among its own kind.                                                     *)

(* check_overlaps().                                                       *)
ResourceFree(x, cidr, nested) ==
  /\ \A y \in ResourceIds \ {x} : netRes[y] # NoResource =>
       \/ ~Overlaps(cidr, netRes[y].cidr)
       \/ nested /\ cidr # netRes[y].cidr
  /\ \A n \in Routers : Clear(cidr, router[n].app)

ResourceTx == TxFree /\ RouteEdit /\ UNCHANGED <<router, advert, approval>>

Written(cidr, nested, rev) ==
  [cidr |-> cidr, nested |-> nested, rev |-> rev]

(* The cap, counted in the transaction.                                    *)
ResourceRoom == Cardinality({y \in ResourceIds : netRes[y] # NoResource}) < MAX_RESOURCES

CreateResource(x, cidr, nested) ==
  /\ netRes[x] = NoResource /\ ResourceFree(x, cidr, nested) /\ ResourceRoom
  /\ netRes' = [netRes EXCEPT ![x] = Written(cidr, nested, 1)]
  /\ ResourceTx

(* The etag names the revision: an update of an older one is refused.      *)
UpdateResource(x, cidr, nested) ==
  /\ netRes[x] # NoResource /\ ResourceFree(x, cidr, nested)
  /\ netRes' = [netRes EXCEPT ![x] = Written(cidr, nested, @.rev + 1)]
  /\ ResourceTx

DeleteResource(x) ==
  /\ netRes[x] # NoResource
  /\ netRes' = [netRes EXCEPT ![x] = NoResource]
  /\ ResourceTx

(* A router's credential lapses and is renewed; approvals stay with it.    *)
CredentialTurns(n) ==
  /\ RouteEdit /\ TxFree
  /\ router' = [router EXCEPT ![n].expired = ~@]
  /\ UNCHANGED <<netRes, advert, approval>>

RoutesNext ==
  \/ \E n \in Routers :
       \/ AdvertiseWrite(n) \/ CredentialTurns(n)
       \/ \E S \in SUBSET Subnets : AdvertiseRead(n, S)
  \/ \E a \in RouteAdmins :
       \/ ApproveWrite(a)
       \/ \E n \in Routers, S \in SUBSET Subnets : ApproveRead(a, n, S)
  \/ \E x \in ResourceIds :
       \/ DeleteResource(x)
       \/ \E cidr \in Subnets, nested \in BOOLEAN :
            CreateResource(x, cidr, nested) \/ UpdateResource(x, cidr, nested)

RoutesSpec == RoutesInit /\ [][RoutesNext]_routeVars

-----------------------------------------------------------------------------
RoutesTypeOK ==
  /\ router \in [Routers -> [adv : SUBSET Subnets, app : SUBSET Subnets, expired : BOOLEAN]]
  /\ \A n \in Routers : ValidRoutes(router[n].adv) /\ ValidRoutes(router[n].app)
  /\ Cardinality({y \in ResourceIds : netRes[y] # NoResource}) <= MAX_RESOURCES

(* docs/linux-agent.md:81: removing an advertisement removes its approval. *)
ApprovedAreAdvertised == \A n \in Routers : router[n].app \subseteq router[n].adv

(* docs/network-resources.md:98-100: resources overlap only where one of   *)
(* them asked for it, and never on the very same prefix.                   *)
ResourcesNest ==
  \A x, y \in ResourceIds :
    (x # y /\ netRes[x] # NoResource /\ netRes[y] # NoResource
       /\ Overlaps(netRes[x].cidr, netRes[y].cidr)) =>
      /\ netRes[x].cidr # netRes[y].cidr /\ (netRes[x].nested \/ netRes[y].nested)

(* Approvals and resources fit what is advertised and each other.          *)
RoutesInv == RoutesTypeOK /\ ApprovedAreAdvertised /\ ResourcesNest
=============================================================================
