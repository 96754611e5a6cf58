----------------------------- MODULE Forwarding -----------------------------
(***************************************************************************)
(* The forward allow-list compiled for a routing peer                      *)
(* (blaktail-coord/src/forwarding.rs) and what the agent makes of it       *)
(* (blaktaild/src/forward_filter.rs, plan()).                              *)
(*                                                                         *)
(* An address is its WIDTH bits, the highest first, and a prefix the bits  *)
(* that its network fixes; the default route fixes none.                   *)
(* A service is a set of ports; a resource, a host rule and an approved    *)
(* route are rows an administrator writes, one step each.                  *)
(***************************************************************************)
EXTENDS Naturals, FiniteSets

CONSTANTS
  WIDTH, Ports, NamedHosts, MaxForwardEdits

ASSUME ForwardingAssumption == WIDTH \in Nat \ {0} /\ MaxForwardEdits \in Nat

Bits == {0, 1}
HostAddrs == [1..WIDTH -> Bits]
NetPrefixes == UNION {[1..n -> Bits] : n \in 0..WIDTH}
DefaultRoute == <<>>

VARIABLES
  approved,   \* routes approved on the router
  advertised, \* routes it advertises
  granted,    \* resources it is selected for and the client may use: services
  reserved,   \* prefixes of every resource that lists it
  hostAllow, hostDeny,  \* policy rules that name a host
  exits,      \* the client selects it as its exit node
  forwardEdits

forwardVars == <<approved, advertised, granted, reserved, hostAllow, hostDeny, exits, forwardEdits>>

ForwardingInit ==
  /\ approved = {} /\ advertised = {} /\ reserved = {}
  /\ granted = [p \in NetPrefixes |-> {}]
  /\ hostAllow = [a \in HostAddrs |-> {}] /\ hostDeny = [a \in HostAddrs |-> {}]
  /\ exits = FALSE /\ forwardEdits = 0

-----------------------------------------------------------------------------
(* contains() of split(): q is no shorter and its network is inside p.     *)
HoldsPrefix(p, q) == DOMAIN p \subseteq DOMAIN q /\ \A i \in DOMAIN p : p[i] = q[i]
(* cidr_within() of a host, whose own prefix has every bit.                *)
In(a, p) == HoldsPrefix(p, a)

(* complement() and split(): the prefixes split() stops at, a prefix being *)
(* visited when each one around it holds an excluded prefix and none is    *)
(* excluded itself.                                                        *)
Parts(excluded) ==
  {p \in NetPrefixes :
     /\ ~\E q \in excluded : HoldsPrefix(p, q) \/ HoldsPrefix(q, p)
     /\ \A r \in NetPrefixes : HoldsPrefix(r, p) /\ r # p => \E q \in excluded : HoldsPrefix(r, q)}

(* grants(): approved routes in full, then the resources; the default      *)
(* route only for a client that selects this exit node.                    *)
Given(p) ==
  CASE p = DefaultRoute /\ ~exits -> {}
    [] p \in approved -> Ports
    [] OTHER -> granted[p]
Granted == {p \in NetPrefixes : Given(p) # {}}

(* Mutant: what the router carries now.                                    *)
CarriedNow == (approved \cup {p \in NetPrefixes : granted[p] # {}}) \ {DefaultRoute}
(* What the router carries or could carry.                                 *)
Carried == (approved \cup advertised \cup reserved \cup {p \in NetPrefixes : granted[p] # {}})
             \ {DefaultRoute}

-----------------------------------------------------------------------------
(* compile_client(): denies apply before allows; what neither lists is     *)
(* rejected.                                                               *)
Exits == DefaultRoute \in Granted
DeniedPrefixes == IF Exits THEN Carried \ Granted ELSE {}
Routed(a) == \E p \in Granted : In(a, p)
RoutedPrivately(a) == \E p \in Granted \ {DefaultRoute} : In(a, p)

DenyRules(a) ==
  (IF \E p \in DeniedPrefixes : In(a, p) THEN Ports ELSE {})
    \cup (IF Routed(a) THEN hostDeny[a] ELSE {})
AllowRules(a) ==
  (IF RoutedPrivately(a) THEN hostAllow[a] ELSE {})
    \cup UNION {Given(p) : p \in {q \in Granted \ {DefaultRoute} : In(a, q)}}
    \cup (IF Exits /\ \E p \in Parts(Carried) : In(a, p) THEN Given(DefaultRoute) ELSE {})

(* plan() and permits().                                                   *)
Permitted(a) == AllowRules(a) \ DenyRules(a)

-----------------------------------------------------------------------------
Edit(vars) ==
  /\ forwardEdits < MaxForwardEdits /\ forwardEdits' = forwardEdits + 1 /\ UNCHANGED vars

Advertise(p) ==
  /\ advertised' = advertised \cup {p}
  /\ Edit(<<approved, granted, reserved, hostAllow, hostDeny, exits>>)

(* Approvals are advertised and overlap no resource (approve_node_routes). *)
Approve(p) ==
  /\ p \in advertised
  /\ p # DefaultRoute => ~\E q \in reserved : HoldsPrefix(p, q) \/ HoldsPrefix(q, p)
  /\ approved' = approved \cup {p}
  /\ Edit(<<advertised, granted, reserved, hostAllow, hostDeny, exits>>)

(* A resource lists the router; the client may or may not use it.          *)
Reserve(p, service) ==
  /\ p # DefaultRoute => ~\E q \in approved \ {DefaultRoute} : HoldsPrefix(p, q) \/ HoldsPrefix(q, p)
  /\ reserved' = reserved \cup ({p} \ {DefaultRoute})
  /\ granted' = [granted EXCEPT ![p] = service]
  /\ Edit(<<approved, advertised, hostAllow, hostDeny, exits>>)

NameHost(a, allow, deny) ==
  /\ hostAllow' = [hostAllow EXCEPT ![a] = allow] /\ hostDeny' = [hostDeny EXCEPT ![a] = deny]
  /\ Edit(<<approved, advertised, granted, reserved, exits>>)

(* record_exit_selection().                                                *)
SelectExit ==
  /\ exits' = ~exits
  /\ Edit(<<approved, advertised, granted, reserved, hostAllow, hostDeny>>)

ForwardingNext ==
  \/ SelectExit
  \/ \E p \in NetPrefixes :
       \/ Advertise(p) \/ Approve(p)
       \/ \E service \in SUBSET Ports : Reserve(p, service)
  \/ \E a \in NamedHosts, allow, deny \in SUBSET Ports : NameHost(a, allow, deny)

ForwardingSpec == ForwardingInit /\ [][ForwardingNext]_forwardVars

-----------------------------------------------------------------------------
(* forwarding.rs:318-323: the exit route opens no address behind the       *)
(* router; there the client has its own grants and host rules, no more.    *)
ExitNeverWidens ==
  \A a \in HostAddrs :
    (\E p \in (approved \cup advertised \cup reserved) \ {DefaultRoute} : In(a, p)) =>
    Permitted(a) \subseteq hostAllow[a]
      \cup UNION {Given(p) : p \in {q \in Granted \ {DefaultRoute} : In(a, q)}}

(* An exit client reaches every other address: the parts around the        *)
(* carried prefixes cover all of them, once each.                          *)
ExitCoversTheRest ==
  /\ \A a \in HostAddrs :
       (\E p \in Parts(Carried) : In(a, p)) <=> ~\E p \in Carried : In(a, p)
  /\ \A p, q \in Parts(Carried) : p # q => ~HoldsPrefix(p, q)

(* An exit route carries everything but what the resources limit.          *)
ExitInv == ExitNeverWidens /\ ExitCoversTheRest
=============================================================================
