------------------------------ MODULE Enrolment ------------------------------
(***************************************************************************)
(* How an organisation comes to be and how devices join and leave it:      *)
(* bootstrap, join keys, browser approval, registration, renewal and the   *)
(* end of a device (blaktail-coord/src/lib.rs, peer_lifecycle.rs).         *)
(*                                                                         *)
(* A browser approval is a join key whose hash is the device code's, bound *)
(* to the identity (name and WireGuard key) in the device_authorizations   *)
(* row; the row, not the key, carries the binding.  register_node() and    *)
(* reauth_node() take the time they compare with first, then read and lock *)
(* the key's row, then claim a use and commit.  Addresses of the nodes are *)
(* in Addresses.tla, the revision they bump in ControlUpdates.tla.         *)
(***************************************************************************)
EXTENDS Naturals, FiniteSets

CONSTANTS
  Names,           \* device identities
  NodeIds,         \* rows of nodes
  JoinKeys,        \* keys minted in the console
  Codes,           \* device codes of browser enrolments
  Admins,          \* people who approve
  Settings,        \* organisation settings a bootstrap may ask for
  Requests,        \* concurrent register and reauth requests
  Nobody,
  KEY_SECS,        \* expires_in_seconds and DEVICE_AUTH_TTL_SECS
  NODE_TTL,        \* node_key_ttl_seconds
  MAX_PENDING_DEVICE_AUTHS,
  MaxEnrolClock,   \* bound on the clock
  MaxChurn         \* bound on administrative changes of nodes

ASSUME EnrolAssumption ==
  /\ KEY_SECS \in Nat \ {0} /\ NODE_TTL \in Nat \ {0} /\ MaxEnrolClock \in Nat
  /\ JoinKeys \cap Codes = {}
  /\ Nobody \notin Names \cup Settings \cup Admins

VARIABLES
  org,             \* orgs row and pending_bootstrap_orgs row
  boot,            \* a commit_org() request between its reads and its transaction
  bootstraps,      \* bootstrap.completed entries (history)
  keys,            \* join_keys
  auths,           \* device_authorizations
  nodes,           \* nodes
  reqs,            \* register and reauth requests in progress
  sweep,           \* ephemeral nodes selected as offline, to be tombstoned
  asked,           \* the identity each code was created for (history)
  enrolments,      \* <<key, identity, how>> of every committed claim (history)
  spent,           \* committed claims of each key (history)
  enrolClock,
  churn            \* administrative changes so far

keyVars == <<keys, auths, asked, enrolments, spent>>
orgVars == <<org, boot, bootstraps>>
enrolVars == <<orgVars, keyVars, nodes, reqs, sweep, enrolClock, churn>>

AllKeys == JoinKeys \cup Codes
NoKey == [minted |-> FALSE, max |-> 0, uses |-> 0, revoked |-> FALSE, expires |-> 0]
NoAuth == [exists |-> FALSE, name |-> Nobody, approver |-> Nobody, expires |-> 0,
           consumed |-> FALSE]
NoNode == [state |-> "none", name |-> Nobody, suspended |-> FALSE, expires |-> 0,
           online |-> FALSE, held |-> FALSE]
NoReq == [op |-> "none", at |-> "idle", key |-> Nobody, name |-> Nobody,
          id |-> Nobody, time |-> 0, bound |-> Nobody]
NoBoot == [settings |-> Nobody, expires |-> 0]

EnrolInit ==
  /\ org = [active |-> Nobody, pending |-> NoBoot] /\ boot = NoBoot /\ bootstraps = 0
  /\ keys = [k \in AllKeys |-> NoKey] /\ auths = [c \in Codes |-> NoAuth]
  /\ nodes = [i \in NodeIds |-> NoNode] /\ reqs = [q \in Requests |-> NoReq]
  /\ sweep = {} /\ asked = [c \in Codes |-> Nobody] /\ enrolments = {}
  /\ spent = [k \in AllKeys |-> 0] /\ enrolClock = 0 /\ churn = 0

-----------------------------------------------------------------------------
(* Bootstrap.                                                              *)

(* prepare_org(): expired preparations go; the same settings are answered  *)
(* again, others refused.                                                  *)
PrepareOrg(s) ==
  /\ org.active = Nobody
  /\ LET live == IF org.pending.expires <= enrolClock THEN NoBoot ELSE org.pending IN
     /\ live = NoBoot
     /\ org' = [org EXCEPT !.pending = [settings |-> s, expires |-> enrolClock + KEY_SECS]]
  /\ UNCHANGED <<boot, bootstraps, keyVars, nodes, reqs, sweep, enrolClock, churn>>

(* commit_org(), its reads outside the transaction.                        *)
CommitOrgRead ==
  /\ org.active = Nobody /\ boot = NoBoot /\ org.pending # NoBoot
  /\ IF org.pending.expires <= enrolClock
     THEN org' = [org EXCEPT !.pending = NoBoot] /\ UNCHANGED boot
     ELSE boot' = org.pending /\ UNCHANGED org
  /\ UNCHANGED <<bootstraps, keyVars, nodes, reqs, sweep, enrolClock, churn>>

(* Its transaction: the primary key refuses a second row.                  *)
CommitOrg ==
  /\ boot # NoBoot /\ boot' = NoBoot
  /\ IF org.active = Nobody
     THEN org' = [active |-> boot.settings, pending |-> NoBoot] /\ bootstraps' = bootstraps + 1
     ELSE UNCHANGED <<org, bootstraps>>
  /\ UNCHANGED <<keyVars, nodes, reqs, sweep, enrolClock, churn>>

(* The same request handled by another coordinator.                        *)
CommitOrgElsewhere ==
  /\ org.active = Nobody /\ org.pending # NoBoot /\ org.pending.expires > enrolClock
  /\ org' = [active |-> org.pending.settings, pending |-> NoBoot]
  /\ bootstraps' = bootstraps + 1
  /\ UNCHANGED <<boot, keyVars, nodes, reqs, sweep, enrolClock, churn>>

-----------------------------------------------------------------------------
(* Keys and approvals.                                                     *)

(* JoinKeyMetadata::validate(): one use, or a limit within bounds.         *)
AllowedUses == 1 .. 2

(* mint_join_key().                                                        *)
MintJoinKey(k, uses) ==
  /\ org.active # Nobody /\ ~keys[k].minted
  /\ keys' = [keys EXCEPT ![k] = [NoKey EXCEPT !.minted = TRUE, !.max = uses,
                                               !.expires = enrolClock + KEY_SECS]]
  /\ UNCHANGED <<orgVars, auths, asked, enrolments, spent, nodes, reqs, sweep, enrolClock, churn>>

Locked(k) == \E q \in Requests : reqs[q].at = "granted" /\ reqs[q].key = k

(* revoke_join_key_as(): waits for a request that has the row locked;      *)
(* browser approvals are not listed and not revoked here.                  *)
RevokeJoinKey(k) ==
  /\ keys[k].minted /\ ~keys[k].revoked /\ ~Locked(k)
  /\ keys' = [keys EXCEPT ![k].revoked = TRUE]
  /\ UNCHANGED <<orgVars, auths, asked, enrolments, spent, nodes, reqs, sweep, enrolClock, churn>>

Purged == [c \in Codes |-> IF auths[c].exists /\ auths[c].expires <= enrolClock
                           THEN NoAuth ELSE auths[c]]
Pending == {c \in Codes : auths[c].exists /\ auths[c].approver = Nobody
                            /\ auths[c].expires > enrolClock}

(* create_device_authorization(): expired rows are deleted, codes are      *)
(* never drawn twice.                                                      *)
CreateDeviceAuthorization(c, n) ==
  /\ org.active # Nobody /\ asked[c] = Nobody
  /\ Cardinality(Pending) < MAX_PENDING_DEVICE_AUTHS
  /\ auths' = [Purged EXCEPT ![c] = [NoAuth EXCEPT !.exists = TRUE, !.name = n,
                                       !.expires = enrolClock + KEY_SECS]]
  /\ asked' = [asked EXCEPT ![c] = n]
  /\ UNCHANGED <<orgVars, keys, enrolments, spent, nodes, reqs, sweep, enrolClock, churn>>

(* A create that is refused has deleted the expired rows all the same.     *)
PurgeAuthorizations ==
  /\ Purged # auths /\ auths' = Purged
  /\ UNCHANGED <<orgVars, keys, asked, enrolments, spent, nodes, reqs, sweep, enrolClock, churn>>

(* approve_device_authorization(): the row is locked; the same person may  *)
(* repeat an approval, nobody else may.  The key expires with the row.     *)
Approve(c, a) ==
  /\ auths[c].exists /\ auths[c].expires > enrolClock /\ auths[c].approver = Nobody
  /\ auths' = [auths EXCEPT ![c].approver = a]
  /\ keys' = [keys EXCEPT ![c] = [NoKey EXCEPT !.minted = TRUE, !.max = 1,
                                               !.expires = auths[c].expires]]
  /\ UNCHANGED <<orgVars, asked, enrolments, spent, nodes, reqs, sweep, enrolClock, churn>>

(* poll_device_authorization(): what the waiting agent is told.            *)
PollAnswer(c) ==
  IF ~auths[c].exists THEN "unauthorized"
  ELSE IF auths[c].expires <= enrolClock \/ auths[c].consumed THEN "gone"
  ELSE IF auths[c].approver # Nobody THEN "approved" ELSE "pending"

-----------------------------------------------------------------------------
(* Registration and renewal.                                               *)

(* register_node() begins: an agent with a key, or with a code the poll    *)
(* called approved; its clock is read here.                                *)
CallRegister(q, k, n) ==
  /\ reqs[q] = NoReq /\ keys[k].minted
  /\ k \in Codes => PollAnswer(k) = "approved"
  /\ reqs' = [reqs EXCEPT ![q] = [NoReq EXCEPT !.op = "register", !.at = "called",
                                    !.key = k, !.name = n, !.time = enrolClock]]
  /\ UNCHANGED <<orgVars, keyVars, nodes, sweep, enrolClock, churn>>

(* reauth_node() begins: the node's row is read without a lock.            *)
CallReauth(q, k, i) ==
  /\ reqs[q] = NoReq /\ keys[k].minted
  /\ nodes[i].state = "active" /\ ~nodes[i].suspended /\ nodes[i].held
  /\ reqs' = [reqs EXCEPT ![q] = [NoReq EXCEPT !.op = "reauth", !.at = "called", !.key = k,
                                    !.name = nodes[i].name, !.id = i, !.time = enrolClock]]
  /\ UNCHANGED <<orgVars, keyVars, nodes, sweep, enrolClock, churn>>

Bound(k) == k \in Codes /\ auths[k].exists

(* The grant query, FOR UPDATE OF the key: its expiry is compared with the *)
(* time read before.  A renewal does not accept a key an authorization row *)
(* is bound to; a registration learns the bound identity.                  *)
Grant(q) ==
  /\ reqs[q].at = "called" /\ ~Locked(reqs[q].key)
  /\ LET r == reqs[q]
         k == keys[r.key]
         ok == /\ ~k.revoked /\ k.expires > r.time
               /\ r.op = "reauth" => ~Bound(r.key)
               /\ k.max = 1 => k.uses = 0
         bound == IF Bound(r.key) THEN auths[r.key].name ELSE Nobody
     IN reqs' = [reqs EXCEPT ![q] = IF ok THEN [r EXCEPT !.at = "granted", !.bound = bound]
                                    ELSE NoReq]
  /\ UNCHANGED <<orgVars, keyVars, nodes, sweep, enrolClock, churn>>

(* Mutant: the claim does not look at the time again.                      *)
ClaimStale(k) == ~keys[k].revoked /\ keys[k].uses < keys[k].max

(* claim_join_key(): one conditional UPDATE with the current time.         *)
Claim(k) == ~keys[k].revoked /\ keys[k].expires > enrolClock /\ keys[k].uses < keys[k].max

Spend(k, n, how) ==
  /\ keys' = [keys EXCEPT ![k].uses = @ + 1]
  /\ spent' = [spent EXCEPT ![k] = @ + 1]
  /\ enrolments' = enrolments \cup {<<k, n, how>>} /\ UNCHANGED asked

NameFree(n) == \A i \in NodeIds : nodes[i].name = n => nodes[i].state \in {"none", "deleted"}

(* The rest of register_node(): a mismatch with the bound identity or a    *)
(* taken name rolls everything back.  The answer may be lost.              *)
CommitRegister(q) ==
  /\ reqs[q].at = "granted" /\ reqs[q].op = "register"
  /\ LET r == reqs[q] IN
     IF Claim(r.key) /\ r.bound \in {Nobody, r.name} /\ NameFree(r.name)
     THEN \E i \in {j \in NodeIds : nodes[j].state = "none"}, got \in BOOLEAN :
            /\ Spend(r.key, r.name, "register")
            /\ nodes' = [nodes EXCEPT ![i] = [NoNode EXCEPT !.state = "active",
                 !.name = r.name, !.expires = enrolClock + NODE_TTL, !.held = got]]
            /\ auths' = [c \in Codes |-> IF c = r.key /\ auths[c].exists
                                         THEN [auths[c] EXCEPT !.consumed = TRUE] ELSE auths[c]]
     ELSE UNCHANGED <<keyVars, nodes>>
  /\ reqs' = [reqs EXCEPT ![q] = NoReq]
  /\ UNCHANGED <<orgVars, sweep, enrolClock, churn>>

(* The rest of reauth_node(): the row is updated by id alone, whatever     *)
(* happened to the node since it was read.                                 *)
CommitReauth(q) ==
  /\ reqs[q].at = "granted" /\ reqs[q].op = "reauth"
  /\ LET r == reqs[q] IN
     IF Claim(r.key)
     THEN \E got \in BOOLEAN :
            /\ Spend(r.key, r.name, "reauth")
            /\ nodes' = IF nodes[r.id].state = "none" THEN nodes
                        ELSE [nodes EXCEPT ![r.id].expires = enrolClock + NODE_TTL,
                                           ![r.id].held = got]
            /\ UNCHANGED auths
     ELSE UNCHANGED <<keyVars, nodes>>
  /\ reqs' = [reqs EXCEPT ![q] = NoReq]
  /\ UNCHANGED <<orgVars, sweep, enrolClock, churn>>

-----------------------------------------------------------------------------
(* The life of a node.                                                     *)

NodeOnly == UNCHANGED <<orgVars, keyVars, reqs, enrolClock>>
Churn == churn < MaxChurn /\ churn' = churn + 1
Credible(i) == nodes[i].state = "active" /\ ~nodes[i].suspended /\ nodes[i].expires > enrolClock

(* A check-in (list_peers(), list_updates()) sets last_seen_at.            *)
Heartbeat(i) ==
  /\ Churn /\ Credible(i) /\ nodes[i].held /\ ~nodes[i].online
  /\ nodes' = [nodes EXCEPT ![i].online = TRUE] /\ NodeOnly /\ UNCHANGED sweep

(* admin_revoke_node().                                                    *)
AdminRevoke(i) ==
  /\ Churn /\ nodes[i].state = "active"
  /\ nodes' = [nodes EXCEPT ![i].state = "revoked"] /\ NodeOnly /\ UNCHANGED sweep

(* tombstone_node(): the name is free again, the token is spoiled.         *)
Tombstone(i) ==
  /\ Churn /\ nodes[i].state \in {"active", "revoked"}
  /\ nodes' = [nodes EXCEPT ![i].state = "deleted", ![i].held = FALSE] /\ NodeOnly

(* set_suspended(), both ways; a node that has ended is refused.           *)
SetSuspended(i) ==
  /\ Churn /\ nodes[i].state = "active"
  /\ nodes' = [nodes EXCEPT ![i].suspended = ~@] /\ NodeOnly /\ UNCHANGED sweep

(* expire_ephemeral_nodes(): offline nodes are selected, then tombstoned   *)
(* one transaction each; a node that checks in meanwhile is not spared.    *)
SweepSelect ==
  /\ Churn /\ sweep = {}
  /\ sweep' = {i \in NodeIds : nodes[i].state = "active" /\ ~nodes[i].online}
  /\ sweep' # {}
  /\ NodeOnly /\ UNCHANGED nodes

SweepNext(i) ==
  /\ i \in sweep /\ sweep' = sweep \ {i}
  /\ \/ Tombstone(i)
     \/ nodes[i].state \in {"none", "deleted"} /\ NodeOnly /\ UNCHANGED <<nodes, churn>>

(* purge_expired_tombstones().                                             *)
PurgeNode(i) ==
  /\ Churn /\ nodes[i].state = "deleted" /\ nodes' = [nodes EXCEPT ![i] = NoNode]
  /\ NodeOnly /\ UNCHANGED sweep

(* Time; a node not heard of since is offline again.                       *)
EnrolTick ==
  /\ enrolClock < MaxEnrolClock /\ enrolClock' = enrolClock + 1
  /\ nodes' = [i \in NodeIds |-> [nodes[i] EXCEPT !.online = FALSE]]
  /\ UNCHANGED <<orgVars, keyVars, reqs, sweep, churn>>

EnrolNext ==
  \/ \E s \in Settings : PrepareOrg(s)
  \/ CommitOrgRead \/ CommitOrg \/ CommitOrgElsewhere
  \/ \E k \in JoinKeys, uses \in AllowedUses : MintJoinKey(k, uses)
  \/ \E k \in JoinKeys : RevokeJoinKey(k)
  \/ \E c \in Codes, n \in Names : CreateDeviceAuthorization(c, n)
  \/ PurgeAuthorizations
  \/ \E c \in Codes, a \in Admins : Approve(c, a)
  \/ \E q \in Requests, k \in AllKeys, n \in Names : CallRegister(q, k, n)
  \/ \E q \in Requests, k \in AllKeys, i \in NodeIds : CallReauth(q, k, i)
  \/ \E q \in Requests : Grant(q) \/ CommitRegister(q) \/ CommitReauth(q)
  \/ \E i \in NodeIds : \/ Heartbeat(i) \/ AdminRevoke(i) \/ SetSuspended(i)
                        \/ SweepNext(i) \/ PurgeNode(i)
                        \/ Tombstone(i) /\ UNCHANGED sweep
  \/ SweepSelect \/ EnrolTick

EnrolSpec == EnrolInit /\ [][EnrolNext]_enrolVars

-----------------------------------------------------------------------------
(* Types; nothing is left of a row that was purged.                        *)
EnrolTypeOK ==
  /\ org.active \in Settings \cup {Nobody} /\ enrolClock \in 0 .. MaxEnrolClock
  /\ \A k \in AllKeys : keys[k].max \in 0 .. 2 /\ keys[k].uses \in Nat
  /\ \A i \in NodeIds : nodes[i].state \in {"none", "active", "revoked", "deleted"}
  /\ \A i \in NodeIds : nodes[i].state = "none" => nodes[i] = NoNode
  /\ \A q \in Requests : reqs[q].at \in {"idle", "called", "granted"}

(* A key is spent at most as often as it allows, by registrations and      *)
(* renewals together and however they interleave (claim_join_key()).       *)
KeyNeverOverspent == \A k \in AllKeys : spent[k] <= keys[k].max

(* A browser approval enrols the device that asked for it and nothing      *)
(* else, although the row that binds it may be deleted while a request is  *)
(* between its two readings of the clock; and it never renews a node.      *)
BoundDeviceOnly ==
  \A e \in enrolments : e[1] \in Codes =>
    e[2] = asked[e[1]] /\ e[3] = "register"

(* An organisation is bootstrapped once, however many coordinators handle  *)
(* the same commit, and its settings do not change (commit_org()).         *)
OrgBootstrappedOnce == bootstraps <= 1

(* Nobody joins without an unspent key, an approval of their own or the    *)
(* one bootstrap.                                                          *)
EnrolInv == EnrolTypeOK /\ KeyNeverOverspent /\ BoundDeviceOnly /\ OrgBootstrappedOnce
=============================================================================
