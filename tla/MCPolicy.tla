------------------------------ MODULE MCPolicy ------------------------------
(***************************************************************************)
(* Instances of what decides whether a packet or a name goes through: the  *)
(* policy and its compilers, the userspace packet filter, the exit route's *)
(* prefixes and the organisation's DNS settings.                           *)
(*                                                                         *)
(* The components share no state at this level, so `focus` picks, once and *)
(* for all, the one whose steps a behaviour shows; the others stay as they *)
(* started.                                                                *)
(***************************************************************************)
EXTENDS AclPolicy, PacketFilter, Forwarding, OrgDns

VARIABLE focus

policyVars == <<aclVars, filterVars, forwardVars, dnsVars, focus>>

PolicyInit ==
  /\ focus \in {"policy", "filter", "forwarding", "dns"}
  /\ focus # "policy" => acl = CHOOSE d \in AclDocuments : TRUE
  /\ focus # "policy" => sshd = {}
  /\ AclInit /\ FilterInit /\ ForwardingInit /\ OrgDnsInit

PolicyNext ==
  \/ /\ focus = "policy" /\ AclNext
     /\ UNCHANGED <<filterVars, forwardVars, dnsVars, focus>>
  \/ /\ focus = "filter" /\ FilterNext
     /\ UNCHANGED <<aclVars, forwardVars, dnsVars, focus>>
  \/ /\ focus = "forwarding" /\ ForwardingNext
     /\ UNCHANGED <<aclVars, filterVars, dnsVars, focus>>
  \/ /\ focus = "dns" /\ OrgDnsNext
     /\ UNCHANGED <<aclVars, filterVars, forwardVars, focus>>

PolicySpec == PolicyInit /\ [][PolicyNext]_policyVars
-----------------------------------------------------------------------------
(* Rules of every shape the compilers treat apart: any port and some, any   *)
(* protocol, tcp and icmp, with a posture, to a host of the destination.   *)
Rule(a, src, ports, protos, posture, host) ==
  [action |-> a, src |-> src, dst |-> {"s", "d"}, ports |-> ports, protos |-> protos, posture |-> posture,
   host |-> host]
Both == {"s", "d"}
RuleShapes ==
  {Rule("allow", Both, {}, {}, FALSE, FALSE), Rule("allow", Both, {80}, {}, FALSE, FALSE),
   Rule("allow", {"s"}, {80}, {"tcp"}, TRUE, FALSE), Rule("allow", Both, {}, {"icmp"}, FALSE, FALSE),
   Rule("allow", Both, {22, 80}, {"tcp"}, FALSE, TRUE),
   Rule("deny", Both, {}, {}, FALSE, FALSE), Rule("deny", Both, {80}, {}, FALSE, FALSE),
   Rule("deny", {"s"}, {22}, {"tcp"}, FALSE, FALSE)}
SshRule(a, logins, posture) ==
  [action |-> a, src |-> Both, dst |-> Both, users |-> logins, posture |-> posture]
SshShapes ==
  {SshRule("allow", {"*"}, FALSE), SshRule("allow", {"deploy"}, TRUE), SshRule("check", {"root"}, FALSE),
   SshRule("deny", {"root"}, FALSE)}

(* The filter treats all flow keys alike.                                  *)
KeySymmetry == Permutations(Keys)

(* One host that rules name.                                              *)
NamedHost == {<<0, 1>>}

(* Names one below the other, two split suffixes, groups that list the same *)
(* domain, and zones whose aliases point at each other.                    *)
CX == <<"c", "x">>
ECX == <<"e", "c", "x">>
AECX == <<"a", "e", "c", "x">>
YY == <<"y", "y">>
BYY == <<"b", "y", "y">>
HostName == <<"h", "o", "blaktail">>
AskedNames == {CX, ECX, AECX, YY, <<"h">>, HostName, <<"u", "z", "blaktail">>}
OrgDomain == <<"o", "blaktail">>
HostSet == {HostName}
SplitSet == {[suffix |-> ECX, resolvers |-> {1}], [suffix |-> CX, resolvers |-> {2}]}
Group(name, resolver, domains, all, tags) ==
  [name |-> name, resolvers |-> {resolver}, domains |-> domains, enabled |-> TRUE, all |-> all, tags |-> tags]
GroupSet ==
  {Group("g1", 3, {ECX}, TRUE, {}), Group("g2", 4, {ECX, YY}, FALSE, {"office"}),
   Group("g3", 5, {ECX}, FALSE, {"office", "store"})}
ZoneSet ==
  {[name |-> CX, enabled |-> TRUE, records |-> {[name |-> AECX, type |-> "A", value |-> <<"1">>]}],
   [name |-> CX, enabled |-> TRUE, records |-> {[name |-> ECX, type |-> "CNAME", value |-> BYY]}],
   [name |-> CX, enabled |-> FALSE, records |-> {}],
   [name |-> YY, enabled |-> TRUE, records |-> {[name |-> BYY, type |-> "CNAME", value |-> ECX]}]}
RecordSet == {[name |-> AECX, value |-> <<"1">>]}
=============================================================================
