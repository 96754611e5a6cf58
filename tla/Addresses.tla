----------------------------- MODULE Addresses -----------------------------
(***************************************************************************)
(* The overlay addresses of one organisation: enrolment, revocation and    *)
(* purge of devices, operator reservations and renumber plans              *)
(* (blaktail-coord/src/address_pool.rs, renumber.rs, register_node and the *)
(* node handlers of lib.rs), on PostgreSQL at READ COMMITTED with several  *)
(* coordinators.                                                           *)
(*                                                                         *)
(* bump_control_revision and append_audit lock the organisation's row.     *)
(* create (renumber.rs) takes that lock before it reads, so it is one      *)
(* step; register_node, reserve and finish read first and lock last, so    *)
(* they are two.  An IPv6 address is a function of its IPv4 twin and is    *)
(* left out.  stamp_releases of a transaction that fails is repeated by    *)
(* the next one, so it counts as done.                                     *)
(***************************************************************************)
EXTENDS Integers, FiniteSets, TLC

CONSTANTS
  AddressRequests,  \* requests in flight
  Nodes,            \* node ids
  Free, Grace,      \* a lease that can be taken, or is in its reuse grace
  Addrs,            \* IPv4 hosts, in their order
  Pools,            \* pools an owner may choose, each as its hosts
  InitialPool,
  Attrs,            \* device names and WireGuard keys
  Identities,       \* the name and key of each device
  Bindings,         \* what a reservation may be bound to; {} is unbound
  MaxReservations,  \* MAX_RESERVATIONS of address_pool.rs
  MaxPlans          \* bound on the number of renumber plans

ASSUME PoolAssumption ==
  /\ Addrs \subseteq Nat
  /\ Pools \subseteq SUBSET Addrs
  /\ InitialPool \in Pools
ASSUME IdentityAssumption ==
  /\ Identities \subseteq SUBSET Attrs
  /\ Bindings \subseteq SUBSET Attrs
ASSUME LeaseAssumption == Free # Grace /\ Free \notin Nodes /\ Grace \notin Nodes
ASSUME PlanAssumption == MaxReservations \in Nat /\ MaxPlans \in Nat

VARIABLES
  state,            \* state[n]: of the row of node n
  ident,            \* ident[n]: its name and key
  addrs,            \* addrs[n]: allowed_ips_json
  lease,            \* lease[a]: the node that holds it, Grace, or Free (no
                    \* row, or past its grace)
  reserved,         \* addresses with a reservation
  bound,            \* bound[a]: its name and key
  pool,             \* orgs.ipv4_pool_cidr
  plan,             \* number of the latest renumber plan
  staged,           \* whether it is in its dual-address window
  prev,             \* its previous_pool_cidr (pool is its target while staged)
  moved,            \* the nodes it moves
  old,              \* old[n]: old_addresses of its move of n
  new,              \* new[n]: new_addresses
  pc,               \* pc[r]: what request r will commit
  who,              \* who[r]: name and key it gives
  open,             \* open[r]: addresses its reads leave it to choose from
  seen              \* seen[r]: the plan it read

nodeVars == <<state, ident, addrs>>
reservationVars == <<reserved, bound>>
planVars == <<plan, staged, prev, moved, old, new>>
requestVars == <<pc, who, open, seen>>
vars == <<nodeVars, lease, reservationVars, pool, planVars, requestVars>>

NodeStates == {"none", "active", "revoked", "deleted", "purged"}
Steps == {"idle", "enrol", "claim", "reserve", "complete", "rollback"}

Init ==
  /\ state = [n \in Nodes |-> "none"]
  /\ ident = [n \in Nodes |-> {}]
  /\ addrs = [n \in Nodes |-> {}]
  /\ lease = [a \in Addrs |-> Free]
  /\ reserved = {}
  /\ bound = [a \in Addrs |-> {}]
  /\ pool = InitialPool
  /\ plan = 0
  /\ staged = FALSE
  /\ prev = InitialPool
  /\ moved = {}
  /\ old = [n \in Nodes |-> {}]
  /\ new = [n \in Nodes |-> {}]
  /\ pc = [r \in AddressRequests |-> "idle"]
  /\ who = [r \in AddressRequests |-> {}]
  /\ open = [r \in AddressRequests |-> {}]
  /\ seen = [r \in AddressRequests |-> 0]

Active(n) == state[n] = "active"
Binds(a, d) == a \in reserved /\ bound[a] \cap d # {}

(* stamp_releases(): leases of devices that are gone enter their grace.    *)
Stamped ==
  [a \in Addrs |-> IF lease[a] \in Nodes /\ ~Active(lease[a]) THEN Grace
                                                              ELSE lease[a]]

(* Mutant: only active devices' rows count.                                *)
BlockedByActive ==
  reserved \cup UNION {addrs[n] : n \in {m \in Nodes : Active(m)}}
           \cup {a \in Addrs : Stamped[a] # Free}

(* blocked_hosts(): rows of gone devices count until they are purged.      *)
Blocked ==
  reserved \cup UNION {addrs[n] : n \in Nodes}
           \cup {a \in Addrs : Stamped[a] # Free}

Goto(r, step, d, choice) ==
  /\ pc[r] = "idle"
  /\ pc' = [pc EXCEPT ![r] = step]
  /\ who' = [who EXCEPT ![r] = d]
  /\ open' = [open EXCEPT ![r] = choice]
  /\ seen' = [seen EXCEPT ![r] = plan]

Done(r) ==
  /\ pc' = [pc EXCEPT ![r] = "idle"]
  /\ who' = [who EXCEPT ![r] = {}]
  /\ open' = [open EXCEPT ![r] = {}]
  /\ seen' = [seen EXCEPT ![r] = 0]

-----------------------------------------------------------------------------
(* register_node() up to the reads of allocate(): no reservation binds the *)
(* device, which may have any host of the pool that is not blocked.        *)
BeginEnrol(r, d) ==
  /\ \A a \in Addrs : ~Binds(a, d)
  /\ Goto(r, "enrol", d, pool \ Blocked)
  /\ lease' = Stamped
  /\ UNCHANGED <<nodeVars, reservationVars, pool, planVars>>

(* The same when a reservation binds the device: it gets that address,     *)
(* unless an active device has it.                                         *)
BeginClaim(r, d) ==
  /\ \E a \in Addrs :
       /\ Binds(a, d)
       /\ \A n \in Nodes : Active(n) => a \notin addrs[n]
       /\ Goto(r, "claim", d, {a})
  /\ lease' = Stamped
  /\ UNCHANGED <<nodeVars, reservationVars, pool, planVars>>

(* The lease is inserted and the row too; names and keys are unique.       *)
InsertNode(r, n, a) ==
  /\ state[n] = "none"
  /\ \A m \in Nodes : ident[m] \cap who[r] = {}
  /\ state' = [state EXCEPT ![n] = "active"]
  /\ ident' = [ident EXCEPT ![n] = who[r]]
  /\ addrs' = [addrs EXCEPT ![n] = {a}]
  /\ lease' = [lease EXCEPT ![a] = n]
  /\ Done(r)
  /\ UNCHANGED <<reservationVars, pool, planVars>>

(* Mutant: DO UPDATE without its WHERE takes any lease.                    *)
TakeAnyLease(a) == TRUE

(* take_lease(): the upsert affects no row while the lease is held or in   *)
(* its grace period.                                                       *)
TakeLease(a) == lease[a] = Free

(* allocate() takes the lowest of its hosts whose lease it can take.       *)
CommitEnrol(r, n) ==
  /\ pc[r] = "enrol"
  /\ \E a \in open[r] :
       /\ TakeLease(a)
       /\ \A b \in open[r] : TakeLease(b) => a <= b
       /\ InsertNode(r, n, a)

(* A bound reservation also takes a lease that is in its grace period.     *)
CommitClaim(r, n) ==
  /\ pc[r] = "claim"
  /\ \E a \in open[r] : lease[a] \notin Nodes /\ InsertNode(r, n, a)

(* revoke_node(), admin_revoke_node().                                     *)
Revoke(n) ==
  /\ Active(n)
  /\ state' = [state EXCEPT ![n] = "revoked"]
  /\ UNCHANGED <<ident, addrs, lease, reservationVars, pool, planVars,
                 requestVars>>

(* tombstone_node(), also for ephemeral devices that stay offline: the     *)
(* name and key are free again, the addresses stay in the row.             *)
TombstoneRow(n) ==
  /\ state[n] \in {"active", "revoked"}
  /\ state' = [state EXCEPT ![n] = "deleted"]
  /\ ident' = [ident EXCEPT ![n] = {}]
  /\ UNCHANGED <<addrs, lease, reservationVars, pool, planVars,
                 requestVars>>

(* purge_expired_tombstones().                                             *)
PurgeRow(n) ==
  /\ state[n] = "deleted"
  /\ state' = [state EXCEPT ![n] = "purged"]
  /\ addrs' = [addrs EXCEPT ![n] = {}]
  /\ UNCHANGED <<ident, lease, reservationVars, pool, planVars,
                 requestVars>>

(* ADDRESS_REUSE_GRACE_SECS pass.  The grace is compared with the time     *)
(* allocate() began: for an enrolment that began when a was free, a lease  *)
(* taken and released since then is still in its grace.                    *)
Elapse(a) ==
  /\ lease[a] = Grace
  /\ \A r \in AddressRequests : pc[r] = "enrol" => a \notin open[r]
  /\ lease' = [lease EXCEPT ![a] = Free]
  /\ UNCHANGED <<nodeVars, reservationVars, pool, planVars,
                 requestVars>>

-----------------------------------------------------------------------------
(* reserve() up to its INSERT.                                             *)
BeginReserve(r, a, b) ==
  /\ a \in pool
  /\ a \notin reserved
  /\ Cardinality(reserved) < MaxReservations
  /\ \A x \in reserved : bound[x] \cap b = {}
  /\ \A n \in Nodes : Active(n) /\ a \in addrs[n] => ident[n] \cap b # {}
  /\ Goto(r, "reserve", b, {a})
  /\ lease' = Stamped
  /\ UNCHANGED <<nodeVars, reservationVars, pool, planVars>>

(* The INSERT; an address has one reservation.                             *)
CommitReserve(r) ==
  /\ pc[r] = "reserve"
  /\ \E a \in open[r] :
       /\ a \notin reserved
       /\ reserved' = reserved \cup {a}
       /\ bound' = [bound EXCEPT ![a] = who[r]]
  /\ Done(r)
  /\ UNCHANGED <<nodeVars, lease, pool, planVars>>

(* release().                                                              *)
Release(a) ==
  /\ a \in reserved
  /\ reserved' = reserved \ {a}
  /\ bound' = [bound EXCEPT ![a] = {}]
  /\ UNCHANGED <<nodeVars, lease, pool, planVars, requestVars>>

-----------------------------------------------------------------------------
(* The address a reservation binds to node n, if it can move there.        *)
BoundTo(n, target) == {a \in target \ addrs[n] : Binds(a, ident[n])}

(* create() for the moves f of the nodes M to the pool target: every new   *)
(* address is leased or nothing is done.  Moving nobody is complete at     *)
(* once.  A finished plan is only shown again, so CommitFinish forgets it.  *)
Stage(target, M, f) ==
  /\ ~staged
  /\ plan < MaxPlans
  /\ \A n \in M : Stamped[f[n]] = Free
  /\ \A n, m \in M : n # m => f[n] # f[m]
  /\ lease' = [a \in Addrs |-> IF \E n \in M : f[n] = a
                               THEN CHOOSE n \in M : f[n] = a
                               ELSE Stamped[a]]
  /\ addrs' = [n \in Nodes |-> IF n \in M THEN {f[n]} \cup addrs[n]
                                          ELSE addrs[n]]
  /\ pool' = target
  /\ plan' = plan + 1
  /\ staged' = (M # {})
  /\ prev' = pool
  /\ moved' = M
  /\ old' = [n \in Nodes |-> IF n \in M THEN addrs[n] ELSE {}]
  /\ new' = [n \in Nodes |-> IF n \in M THEN {f[n]} ELSE {}]
  /\ UNCHANGED <<state, ident, reservationVars, requestVars>>

(* A plan for a pool moves the devices outside it, to the address reserved *)
(* for each or else the lowest hosts that are free.                        *)
StagePool(target) ==
  LET M == {n \in Nodes : Active(n) /\ ~(addrs[n] \subseteq target)}
      U == {n \in M : BoundTo(n, target) = {}}
  IN /\ target # pool
     /\ reserved \subseteq target
     /\ \E f \in [M -> target] :
          /\ \A n \in M \ U : f[n] \in BoundTo(n, target)
          /\ \A n \in U : f[n] \notin Blocked
          /\ \A n \in U : \A a \in target \ Blocked :
               a < f[n] => \E m \in U : f[m] = a
          /\ Stage(target, M, f)

(* A plan for chosen devices: to a requested host, the reserved one or a   *)
(* free one of the pool.                                                   *)
StageDevices(M) ==
  /\ M # {}
  /\ \A n \in M : Active(n)
  /\ \E f \in [M -> pool] :
       /\ \A n \in M : /\ f[n] \notin addrs[n]
                       /\ f[n] \in Blocked => f[n] \in BoundTo(n, pool)
       /\ Stage(pool, M, f)

(* finish() up to its UPDATE.  A rollback to another pool is refused when  *)
(* a device that was not moved is outside that pool.                       *)
BeginFinish(r, how) ==
  /\ staged
  /\ how = "rollback" /\ prev # pool
       => \A n \in Nodes \ moved : Active(n) => addrs[n] \subseteq prev
  /\ Goto(r, how, {}, {})
  /\ UNCHANGED <<nodeVars, lease, reservationVars, pool, planVars>>

(* set_addresses(): the UPDATE finds the row unless it was purged.         *)
HasRow(n) == state[n] # "purged"

(* release_lease(): only a lease that the device still holds.              *)
ReleaseLease(n, a) == lease[a] = n

(* The addresses a move ends with and those it gives up.                   *)
Keep(how, n) == IF how = "complete" THEN new[n] ELSE old[n]
Dropped(how, n) == (old[n] \cup new[n]) \ Keep(how, n)

(* finish() from UPDATE ... WHERE state='staged' AND revision=$6, also for *)
(* complete_due().                                                         *)
CommitFinish(r) ==
  /\ pc[r] \in {"complete", "rollback"}
  /\ staged
  /\ seen[r] = plan
  /\ staged' = FALSE
  /\ addrs' = [n \in Nodes |-> IF n \in moved /\ HasRow(n)
                               THEN Keep(pc[r], n) ELSE addrs[n]]
  /\ lease' = [a \in Addrs |->
                 IF \E n \in moved : a \in Dropped(pc[r], n) /\ ReleaseLease(n, a)
                 THEN Grace ELSE lease[a]]
  /\ pool' = IF pc[r] = "rollback" THEN prev ELSE pool
  /\ Done(r)
  /\ prev' = pool'
  /\ moved' = {}
  /\ old' = [n \in Nodes |-> {}]
  /\ new' = [n \in Nodes |-> {}]
  /\ UNCHANGED <<state, ident, reservationVars, plan>>

(* A request is refused, or its transaction fails.                         *)
Abort(r) ==
  /\ pc[r] # "idle"
  /\ Done(r)
  /\ UNCHANGED <<nodeVars, lease, reservationVars, pool, planVars>>

-----------------------------------------------------------------------------
AddressStep(r) ==
  \/ \E d \in Identities : BeginEnrol(r, d) \/ BeginClaim(r, d)
  \/ \E n \in Nodes : CommitEnrol(r, n) \/ CommitClaim(r, n)
  \/ \E a \in Addrs, b \in Bindings : BeginReserve(r, a, b)
  \/ CommitReserve(r)
  \/ \E how \in {"complete", "rollback"} : BeginFinish(r, how)
  \/ CommitFinish(r)
  \/ Abort(r)

Next ==
  \/ \E r \in AddressRequests : AddressStep(r)
  \/ \E n \in Nodes : Revoke(n) \/ TombstoneRow(n) \/ PurgeRow(n)
  \/ \E a \in Addrs : Elapse(a) \/ Release(a)
  \/ \E target \in Pools : StagePool(target)
  \/ \E M \in SUBSET Nodes : StageDevices(M)

Spec == Init /\ [][Next]_vars

-----------------------------------------------------------------------------
(* Every table has the rows its schema allows; a device that is gone for   *)
(* good has no address.                                                    *)
TypeOK ==
  /\ state \in [Nodes -> NodeStates]
  /\ ident \in [Nodes -> SUBSET Attrs]
  /\ addrs \in [Nodes -> SUBSET Addrs]
  /\ lease \in [Addrs -> Nodes \cup {Free, Grace}]
  /\ reserved \in SUBSET Addrs
  /\ bound \in [Addrs -> SUBSET Attrs]
  /\ pool \in SUBSET Addrs
  /\ plan \in Nat
  /\ staged \in BOOLEAN
  /\ prev \in SUBSET Addrs
  /\ moved \in SUBSET Nodes
  /\ old \in [Nodes -> SUBSET Addrs]
  /\ new \in [Nodes -> SUBSET Addrs]
  /\ pc \in [AddressRequests -> Steps]
  /\ who \in [AddressRequests -> SUBSET Attrs]
  /\ open \in [AddressRequests -> SUBSET Addrs]
  /\ seen \in [AddressRequests -> Nat]
  /\ \A n \in Nodes : state[n] \in {"none", "purged"} => addrs[n] = {}

(* No two active devices have an address in common, whatever enrolments,   *)
(* takeovers by reservation and renumber plans overlap (docs/ipam.md: two  *)
(* coordinators can never hand out the same address).                      *)
NoAddressTwice ==
  \A n, m \in Nodes : Active(n) /\ Active(m) /\ n # m
                        => addrs[n] \cap addrs[m] = {}

(* The leases an active device holds are exactly its addresses, in a       *)
(* renumber window, after it and after a rollback: none is given away      *)
(* under it and none leaks.                                                *)
LeasesMatchRows ==
  \A n \in Nodes : Active(n) =>
    addrs[n] = {a \in Addrs : lease[a] = n}

(* An address that a revoked or deleted device's row still names goes to   *)
(* another device only because a reservation names that device             *)
(* (ADDRESS_REUSE_GRACE_SECS).                                             *)
NamedAddressesStay ==
  [][\A n, m \in Nodes : n # m =>
       \A a \in (addrs'[n] \ addrs[n]) \cap addrs[m] :
         \/ Binds(a, ident[n])
         \/ \E r \in AddressRequests : pc[r] = "claim" /\ a \in open[r] /\ pc'[r] = "idle"]_vars

(* The address table of one organisation at any time.                      *)
AddressesInv == TypeOK /\ NoAddressTwice /\ LeasesMatchRows

(* Node ids and requests are interchangeable.                              *)
Symmetric == Permutations(Nodes) \cup Permutations(AddressRequests)
=============================================================================
