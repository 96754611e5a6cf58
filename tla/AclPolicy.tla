---------------------------- MODULE AclPolicy ----------------------------
(***************************************************************************)
(* The access policy of an organisation and what a device enforces of it:  *)
(* the evaluator, the peer-map compiler and the explainer (blaktail-coord  *)
(* lib.rs impl Acl, policy_explain.rs, flow_events.rs evaluate), the Linux *)
(* chain and the sshd drop-in (blaktaild acl_filter.rs, sshd.rs) and the   *)
(* userspace filter's rules (blaktail-ios-wg filter.rs).                   *)
(*                                                                         *)
(* One source `s' and one destination `d'.  A selector (roles, tags and    *)
(* groups) is the set of subjects it selects; a port specification is a    *)
(* set of ports, and {} is "no ports named"; host-only rules name a host.  *)
(***************************************************************************)
EXTENDS Naturals, Sequences, FiniteSets

CONSTANTS
  Catalog,        \* rules an administrator may write
  SshCatalog,     \* SSH rules an administrator may write
  AclPorts,       \* destination ports told apart
  Logins,         \* operating-system users
  SSH_PORT, PQ_PORT,
  MaxRules, MaxSshRules

ASSUME AclAssumption ==
  /\ {SSH_PORT, PQ_PORT} \subseteq AclPorts /\ SSH_PORT # PQ_PORT /\ 0 \notin AclPorts
  /\ \A r \in Catalog : /\ r.action \in {"allow", "deny"} /\ r.ports \subseteq AclPorts
                        /\ ("icmp" \in r.protos => r.ports = {})
                        /\ (r.action = "deny" => ~r.posture)
  /\ \A r \in SshCatalog : /\ r.action \in {"allow", "deny", "check"} /\ r.users # {}
                           /\ r.users \subseteq Logins \cup {"*"}
                           /\ (r.action = "deny" => ~r.posture)

VARIABLES
  acl,        \* orgs.acl_json: defaults, rules, ssh
  passes,     \* the source passes the posture check the rules name
  recent,     \* the source's credential is within the SSH check period
  capable,    \* the destination last reported `ssh-users'
  held,       \* what the destination applied, with the policy's answers then
  sshd        \* the running sshd's logins for the source

aclVars == <<acl, passes, recent, capable, held, sshd>>

AnyProto == "any"
NoPort == 0
Services == {[proto |-> p, port |-> n] : p \in {"tcp", "udp"}, n \in AclPorts}
            \cup {[proto |-> "icmp", port |-> NoPort], [proto |-> "other", port |-> NoPort]}
-----------------------------------------------------------------------------
(* The evaluator, over a document, its source's posture and credential.    *)
View == [acl |-> acl, passes |-> passes, recent |-> recent]
Selects(r, x, y) == x \in r.src /\ y \in r.dst
PostureSatisfied(v, r) == r.posture => v.passes
(* parse_acl_port_spec, port_spec_matches, protocol_matches.               *)
PortMatches(r, port) == r.ports = {} \/ port = NoPort \/ port \in r.ports
ProtocolMatches(r, proto) == proto = AnyProto \/ r.protos = {} \/ proto \in r.protos
(* rule_matches; `host' is whether the flow is to the named host.          *)
RuleMatches(v, r, x, y, port, proto, host) ==
  /\ Selects(r, x, y) /\ PostureSatisfied(v, r)
  /\ (~host => ~r.host)
  /\ PortMatches(r, port) /\ ProtocolMatches(r, proto)
Matching(v, x, y, port, proto, host) == {r \in v.acl.rules : RuleMatches(v, r, x, y, port, proto, host)}
Acts(rules, action) == \E r \in rules : r.action = action

(* ssh_source_eligible, ssh_governed, ssh_grant.                           *)
SshEligible(v, r) == PostureSatisfied(v, r) /\ (r.action = "check" => v.recent)
SshGoverned(v, x, y) == \E r \in v.acl.ssh : y \in r.dst /\ (r.action = "deny" => x \in r.src)
SshUsers(v, x, y, actions) ==
  UNION {r.users : r \in {q \in v.acl.ssh : Selects(q, x, y) /\ SshEligible(v, q) /\ q.action \in actions}}
SshGrant(v, x, y) ==
  LET allow == SshUsers(v, x, y, {"allow", "check"}) deny == SshUsers(v, x, y, {"deny"})
  IN IF "*" \in deny THEN [users |-> {}, deny |-> {}]
     ELSE IF "*" \in allow THEN [users |-> {"*"}, deny |-> deny]
     ELSE [users |-> allow \ deny, deny |-> {}]
AllowsSsh(v, x, y, user) ==
  /\ {user, "*"} \cap SshUsers(v, x, y, {"deny"}) = {}
  /\ {user, "*"} \cap SshUsers(v, x, y, {"allow", "check"}) # {}

(* Default same_tag, for two devices that share a tag.                     *)
ImplicitDefaultAllows(v) == v.acl.defaults = "same_tag"
AllowsFlow(v, x, y, port, proto, host) ==
  LET m == Matching(v, x, y, port, proto, host)
  IN /\ ~Acts(m, "deny")
     /\ ~(/\ ~host /\ port = SSH_PORT /\ proto \in {AnyProto, "tcp"}
          /\ SshGoverned(v, x, y) /\ SshGrant(v, x, y).users = {})
     /\ Acts(m, "allow") \/ (~host /\ ImplicitDefaultAllows(v))

(* collect_service_specs: the ports a set of rules names for a protocol.   *)
Specs(rules, proto) ==
  UNION {IF r.ports = {} THEN AclPorts ELSE r.ports :
         r \in {q \in rules : q.protos = {} \/ proto \in q.protos}}
Icmp(rules) == \E r \in rules : r.ports = {} /\ (r.protos = {} \/ "icmp" \in r.protos)
Unrestricted(r) == r.ports = {} /\ r.protos = {}
SshRestricted(grant) == ~(grant.users = {"*"} /\ grant.deny = {})

SshOpen(grant, enforced) == grant.users # {} /\ (enforced \/ ~SshRestricted(grant))

Nothing == [all |-> FALSE, tcp |-> {}, udp |-> {}, icmp |-> FALSE,
            deny_tcp |-> {}, deny_udp |-> {}, deny_icmp |-> FALSE]
(* Mutant: rules that name ports lose against an unrestricted allow.       *)
PeerGrantsAllowFirst(v, x, y, enforced) ==
  LET m == Matching(v, x, y, NoPort, AnyProto, FALSE)
  IN [Nothing EXCEPT !.all = \E r \in m : r.action = "allow" /\ Unrestricted(r), !.icmp = Icmp(m),
                     !.tcp = Specs(m, "tcp"), !.udp = Specs(m, "udp")]
(* peer_ingress_for, without its SSH user lists.                           *)
PeerGrants(v, x, y, enforced) ==
  LET m == Matching(v, x, y, NoPort, AnyProto, FALSE)
      allows == {r \in m : r.action = "allow"}
      denies == {r \in m : r.action = "deny"}
      open == SshOpen(SshGrant(v, x, y), enforced)
      all == ImplicitDefaultAllows(v) \/ \E r \in allows : Unrestricted(r)
      closed == Specs(denies, "tcp") \cup (IF SshGoverned(v, x, y) /\ ~open THEN {SSH_PORT} ELSE {})
      granted == IF all THEN {} ELSE Specs(allows, "tcp")
  IN IF \E r \in denies : Unrestricted(r) THEN Nothing
     ELSE [all |-> all, icmp |-> (all \/ Icmp(allows)) /\ ~Icmp(denies),
           tcp |-> granted \cup (IF ~all /\ open /\ SSH_PORT \notin closed THEN {SSH_PORT} ELSE {}),
           udp |-> IF all THEN {} ELSE Specs(allows, "udp"),
           deny_tcp |-> closed, deny_udp |-> Specs(denies, "udp"), deny_icmp |-> Icmp(denies)]
PeerIngressFor(v, x, y, enforced) ==
  [grants |-> PeerGrants(v, x, y, enforced), ssh |-> SshGrant(v, x, y)]
(* Acl::allows: the peer map includes the destination.                     *)
Allows(v, x, y) ==
  LET g == PeerGrants(v, x, y, TRUE) IN g.all \/ g.icmp \/ g.tcp # {} \/ g.udp # {}
-----------------------------------------------------------------------------
(* The device.  A chain is its rules in order; the first match decides.    *)
On(proto, ports, accept) == [proto |-> proto, ports |-> ports, accept |-> accept]
Verdict(chain, p) ==
  LET hits == {i \in DOMAIN chain : /\ chain[i].proto \in {AnyProto, p.proto}
                                    /\ (p.proto \in {"tcp", "udp"} => p.port \in chain[i].ports)}
  IN hits # {} /\ chain[CHOOSE i \in hits : \A j \in hits : i <= j].accept
When(condition, rules) == IF condition THEN rules ELSE <<>>

(* fail_closed_ssh, then append_peer_rules after the exchange's own port.  *)
FailClosed(i, enforced) ==
  IF ~enforced /\ i.ssh.users # {} /\ SshRestricted(i.ssh)
  THEN [i EXCEPT !.grants.deny_tcp = @ \cup {SSH_PORT}] ELSE i
PeerRules(g, pq) ==
  When(pq, <<On("tcp", {PQ_PORT}, TRUE)>>)
  \o <<On("tcp", g.deny_tcp, FALSE), On("udp", g.deny_udp, FALSE)>>
  \o When(g.deny_icmp, <<On("icmp", {}, FALSE)>>)
  \o (IF g.all THEN <<On(AnyProto, AclPorts, TRUE)>>
      ELSE <<On("tcp", g.tcp, TRUE), On("udp", g.udp, TRUE)>> \o When(g.icmp, <<On("icmp", {}, TRUE)>>))
  \o <<On(AnyProto, AclPorts, FALSE)>>
LinuxAccepts(i, enforced, pq, p) == Verdict(PeerRules(FailClosed(i, enforced).grants, pq), p)

(* compile_rules: the userspace filter proves no sshd limits.              *)
CompileRules(i) ==
  LET g == i.grants
      closed == g.deny_tcp \cup (IF i.ssh.users # {} /\ SshRestricted(i.ssh) THEN {SSH_PORT} ELSE {})
  IN <<On("tcp", closed, FALSE), On("udp", g.deny_udp, FALSE)>>
     \o When(g.deny_icmp, <<On("icmp", {}, FALSE)>>)
     \o (IF g.all THEN <<On(AnyProto, AclPorts, TRUE)>>
         ELSE <<On("tcp", g.tcp, TRUE), On("udp", g.udp, TRUE)>> \o When(g.icmp, <<On("icmp", {}, TRUE)>>))

(* The macOS anchor: quick rules from the same closed grants.              *)
PfRules(i, pq) ==
  LET g == FailClosed(i, FALSE).grants
  IN When(pq, <<On("tcp", {PQ_PORT}, TRUE)>>)
     \o <<On("tcp", g.deny_tcp, FALSE), On("udp", g.deny_udp, FALSE)>>
     \o When(g.deny_icmp, <<On("icmp", {}, FALSE)>>)
     \o (IF g.all THEN <<On(AnyProto, AclPorts, TRUE)>>
         ELSE <<On("tcp", g.tcp, TRUE), On("udp", g.udp, TRUE)>>
              \o When(g.icmp, <<On("icmp", {}, TRUE)>>) \o <<On(AnyProto, AclPorts, FALSE)>>)

(* sshd_policy_config: the logins sshd admits from the source.             *)
SshdLogins(i) ==
  IF i.ssh.users = {} \/ ~SshRestricted(i.ssh) THEN Logins
  ELSE (IF "*" \in i.ssh.users THEN Logins ELSE i.ssh.users \cap Logins) \ i.ssh.deny
-----------------------------------------------------------------------------
(* policy_explain.rs: what a compiled grant admits, and the decision.      *)
IngressAdmits(g, proto, port) ==
  LET covers(specs) == IF port = NoPort THEN specs # {} ELSE port \in specs
      tcp == port \notin g.deny_tcp /\ (g.all \/ covers(g.tcp))
      udp == port \notin g.deny_udp /\ (g.all \/ covers(g.udp))
      icmp == ~g.deny_icmp /\ (g.all \/ g.icmp)
  IN CASE proto = "tcp" -> tcp [] proto = "udp" -> udp [] proto = "icmp" -> icmp
       [] OTHER -> tcp \/ udp \/ (port = NoPort /\ icmp)
DeviceFlow(v, enforced, proto, port) ==
  /\ AllowsFlow(v, "s", "d", port, proto, FALSE)
  /\ IngressAdmits(PeerGrants(v, "s", "d", enforced), proto, port)
  /\ Allows(v, "s", "d") /\ Allows(v, "d", "s")
ExplainSsh(v, enforced, user) ==
  /\ AllowsSsh(v, "s", "d", user)
  /\ IngressAdmits(PeerGrants(v, "s", "d", enforced), "tcp", SSH_PORT)
  /\ Allows(v, "s", "d") /\ Allows(v, "d", "s")
-----------------------------------------------------------------------------
Unapplied == [ingress |-> [grants |-> Nothing, ssh |-> [users |-> {}, deny |-> {}]],
              enforced |-> FALSE, view |-> {}]
(* The documents put_acl takes (validate); a run has one.  The sshd of a   *)
(* device may carry what an earlier document left.                         *)
AclDocuments == [defaults : {"same_tag", "deny"},
                 rules : {R \in SUBSET Catalog : Cardinality(R) <= MaxRules},
                 ssh : {R \in SUBSET SshCatalog : Cardinality(R) <= MaxSshRules}]
AclInit ==
  /\ acl \in AclDocuments
  /\ passes = FALSE /\ recent = TRUE /\ capable = FALSE
  /\ held = Unapplied /\ sshd \in SUBSET Logins

(* PostureContext::apply: the source's posture or credential age changes.  *)
SubjectChanges ==
  /\ \/ passes' = ~passes /\ UNCHANGED recent
     \/ recent' = ~recent /\ UNCHANGED passes
  /\ UNCHANGED <<acl, capable, held, sshd>>

(* apply_peer_map: the map as compiled for the capability the coordinator  *)
(* knows; the drop-in is written, proved and reloaded, or put back (or     *)
(* left unloaded), and the chain is closed to match.                       *)
ApplyPeerMap(active) ==
  LET i == PeerIngressFor(View, "s", "d", capable)
  IN /\ Allows(View, "d", "s")
     /\ held' = [ingress |-> i, enforced |-> active, view |-> {View}]
     /\ sshd' = IF active THEN SshdLogins(i) ELSE sshd
     /\ UNCHANGED <<acl, passes, recent, capable>>
(* The next poll reports what the last apply proved.                       *)
ReportCapabilities ==
  /\ held.view # {} /\ capable' = held.enforced
  /\ UNCHANGED <<acl, passes, recent, held, sshd>>

AclNext ==
  \/ SubjectChanges \/ ReportCapabilities
  \/ \E active \in BOOLEAN : ApplyPeerMap(active)
AclSpec == AclInit /\ [][AclNext]_aclVars
-----------------------------------------------------------------------------
(* For every port but SSH's and the exchange's, the chain a device applied *)
(* accepts a flow exactly when the evaluator allowed it under the policy   *)
(* it was compiled from (peer_ingress_for and allows_flow agree).          *)
ChainFollowsEvaluator ==
  \A v \in held.view, p \in Services, pq \in BOOLEAN :
    (p.proto \in {"tcp", "udp"} /\ p.port # SSH_PORT /\ (pq => p.port # PQ_PORT)) =>
      (LinuxAccepts(held.ingress, held.enforced, pq, p) <=> AllowsFlow(v, "s", "d", p.port, p.proto, FALSE))

(* Where SSH rules govern the pair, a login gets through the chain and     *)
(* sshd only if the rules allow that user, whatever the coordinator        *)
(* believed of the device and whether or not sshd took the drop-in.        *)
LoginsFollowRules ==
  \A v \in held.view, u \in sshd :
    (/\ SshGoverned(v, "s", "d")
     /\ LinuxAccepts(held.ingress, held.enforced, FALSE, [proto |-> "tcp", port |-> SSH_PORT]))
    => AllowsSsh(v, "s", "d", u)

(* The userspace filter, the macOS anchor and the Linux chain decide every *)
(* new flow alike when no sshd limits are proved ("the two decide every    *)
(* vector the same way", docs/policy.md).                                  *)
FiltersAgree ==
  \A p \in Services :
    /\ Verdict(CompileRules(held.ingress), p) = LinuxAccepts(held.ingress, FALSE, FALSE, p)
    /\ \A pq \in BOOLEAN : Verdict(PfRules(held.ingress, pq), p) = LinuxAccepts(held.ingress, FALSE, pq, p)

(* What explain says is allowed, a flow or a login, the device it was      *)
(* explained for lets in.                                                  *)
ExplainedIsAdmitted ==
  \A v \in held.view :
    held.ingress = PeerIngressFor(v, "s", "d", held.enforced) =>
      /\ \A p \in Services : (p.proto # "other" /\ DeviceFlow(v, held.enforced, p.proto, p.port)) =>
           LinuxAccepts(held.ingress, held.enforced, FALSE, p)
      /\ \A u \in Logins : (held.enforced /\ ExplainSsh(v, TRUE, u)) =>
           u \in sshd /\ LinuxAccepts(held.ingress, TRUE, FALSE, [proto |-> "tcp", port |-> SSH_PORT])

(* Evaluator, compilers, logins and explanation agree on every document.   *)
PolicyInv == ChainFollowsEvaluator /\ LoginsFollowRules /\ FiltersAgree /\ ExplainedIsAdmitted
=============================================================================
