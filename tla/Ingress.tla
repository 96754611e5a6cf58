------------------------------ MODULE Ingress ------------------------------
(***************************************************************************)
(* Public ingress: the coordinator keeps the published routes and hands    *)
(* the deliverable ones to the ingress device over a long poll; the device *)
(* serves its table only while the coordinator's last answer is fresh      *)
(* (blaktail-coord/src/public_ingress.rs, blaktail-ingress/src).           *)
(*                                                                         *)
(* A route is its row: its id and revision as one number, whether it is    *)
(* enabled and whether the kill switch was pulled.  The policy decision, the target's state and    *)
(* the facts it reads are one flag, `policy'.  A tick is one second.       *)
(***************************************************************************)
EXTENDS Naturals, FiniteSets

CONSTANTS
  PubRoutes,              \* published host names
  Fetches,                \* requests of clients
  STALE_AFTER_SECS, MAX_CONFIG_WAIT_SECS,
  ANSWER_SLACK_SECS,      \* what the poll's own timeout adds to the wait
  MAX_CONNECTIONS,        \* permits of a live route
  MaxIngressEdits, MaxIngressFaults

ASSUME IngressAssumption ==
  /\ STALE_AFTER_SECS \in Nat \ {0} /\ MAX_CONFIG_WAIT_SECS \in Nat
  /\ ANSWER_SLACK_SECS \in Nat /\ MAX_CONNECTIONS \in Nat \ {0}

VARIABLES
  pubOrg,      \* settings.enabled, policy, the device's standing, control revision
  pubRows,     \* public_routes
  patch,       \* an owner's update between its read and its write
  cfgPoll,     \* the poll in flight
  since,       \* config_loop's revision
  liveTable,   \* RouteTable: the row revision each name is served with, 0 for none
  fresh,       \* seconds until fresh_until
  fetches,     \* requests past the table look-up
  withdrawn,   \* seconds since the route stopped being deliverable (history)
  pubEdits, pubFaults

ingressVars == <<pubOrg, pubRows, patch, cfgPoll, since, liveTable, fresh, fetches, withdrawn,
                 pubEdits, pubFaults>>
coordSide == <<pubOrg, pubRows, patch, pubEdits>>
nodeSide == <<since, liveTable, fresh, fetches>>

(* The longest a withdrawn route can still be served: an answer prepared   *)
(* just before may arrive at the very end of its poll, and is then fresh.  *)
ServeBound == STALE_AFTER_SECS + MAX_CONFIG_WAIT_SECS + ANSWER_SLACK_SECS

NoRoute == [rev |-> 0, enabled |-> FALSE, emergency |-> FALSE]
NoPatch == [step |-> "none"]
NoPoll == [step |-> "idle"]
NoFetch == [step |-> "none"]

IngressInit ==
  /\ pubOrg = [enabled |-> TRUE, policy |-> TRUE, accepted |-> TRUE, rev |-> 2]
  /\ pubRows \in [PubRoutes -> {NoRoute, [rev |-> 1, enabled |-> TRUE, emergency |-> FALSE],
                                 [rev |-> 2, enabled |-> FALSE, emergency |-> TRUE]}]
  /\ patch = NoPatch /\ cfgPoll = NoPoll /\ since = 0
  /\ liveTable = [r \in PubRoutes |-> 0] /\ fresh = 0
  /\ fetches = [f \in Fetches |-> NoFetch]
  /\ withdrawn = [r \in PubRoutes |-> 0]
  /\ pubEdits = 0 /\ pubFaults = 0

-----------------------------------------------------------------------------
(* The coordinator's routes.                                               *)

(* OrgView::state() = "active", for a view and a row read at other times.  *)
Exposing(view) == view.enabled /\ view.policy
Live(row) == row.enabled /\ ~row.emergency
Deliverable(view, row) == Exposing(view) /\ Live(row)

Bumped(org) == [org EXCEPT !.rev = @ + 1]
(* Nothing that widens exposure, or leaves it wide, counts as withdrawn.   *)
Noted == withdrawn' = [r \in PubRoutes |->
  IF \/ Deliverable(pubOrg', pubRows'[r])
     \/ Exposing(pubOrg') /\ ~Exposing(pubOrg)
     \/ Live(pubRows'[r]) /\ ~Live(pubRows[r])
  THEN 0 ELSE withdrawn[r]]
PubEdit == /\ pubEdits < MaxIngressEdits /\ pubEdits' = pubEdits + 1
           /\ UNCHANGED <<cfgPoll, nodeSide, pubFaults>>

(* put_settings(), a change of the policy or of a device, designate_node() *)
(* and a suspension: each bumps the revision with what it changes.         *)
PutSettings ==
  /\ PubEdit /\ pubOrg' = Bumped([pubOrg EXCEPT !.enabled = ~@])
  /\ UNCHANGED <<pubRows, patch>> /\ Noted
PolicyChange ==
  /\ PubEdit /\ pubOrg' = Bumped([pubOrg EXCEPT !.policy = ~@])
  /\ UNCHANGED <<pubRows, patch>> /\ Noted
DesignateNode ==
  /\ PubEdit /\ pubOrg' = Bumped([pubOrg EXCEPT !.accepted = ~@])
  /\ UNCHANGED <<pubRows, patch>> /\ Noted

CreateRoute(r) ==
  /\ PubEdit /\ pubRows[r] = NoRoute /\ pubOrg.enabled
  /\ pubRows' = [pubRows EXCEPT ![r] =
       [rev |-> pubOrg.rev + 1, enabled |-> TRUE, emergency |-> FALSE]]
  /\ pubOrg' = Bumped(pubOrg) /\ UNCHANGED patch /\ Noted

(* update_route() reads the row the owner's revision must name ...         *)
PatchRead(r, enabled) ==
  /\ patch = NoPatch /\ pubRows[r].rev # 0
  /\ (enabled /\ ~Live(pubRows[r])) => pubOrg.enabled
  /\ patch' = [step |-> "read", route |-> r, row |-> pubRows[r], enabled |-> enabled,
               pulled |-> FALSE]
  /\ PubEdit /\ UNCHANGED <<pubOrg, pubRows, withdrawn>>

(* ... and writes it where that revision still stands.                     *)
Patched(row, p) ==
  [rev |-> row.rev + 1, enabled |-> p.enabled,
   emergency |-> row.emergency /\ ~(p.enabled /\ p.row.emergency)]
PatchFits(row, p) == row.rev = p.row.rev
PatchWrite ==
  /\ patch.step = "read"
  /\ IF PatchFits(pubRows[patch.route], patch)
     THEN /\ pubRows' = [pubRows EXCEPT ![patch.route] = Patched(@, patch)]
          /\ pubOrg' = Bumped(pubOrg)
     ELSE UNCHANGED <<pubRows, pubOrg>>
  /\ patch' = NoPatch /\ Noted
  /\ UNCHANGED <<cfgPoll, nodeSide, pubEdits, pubFaults>>

Pulled(r) == patch' = IF patch.step = "read" /\ patch.route = r
                      THEN [patch EXCEPT !.pulled = TRUE] ELSE patch
(* Mutant: the kill switch leaves the row's revision alone.                *)
EmergencyDisableQuietly(r) ==
  /\ PubEdit /\ pubRows[r].rev # 0
  /\ pubRows' = [pubRows EXCEPT ![r] = [rev |-> @.rev, enabled |-> FALSE, emergency |-> TRUE]]
  /\ pubOrg' = Bumped(pubOrg) /\ Pulled(r) /\ Noted

(* emergency_disable(), the kill switch: no revision is asked for.         *)
EmergencyDisable(r) ==
  /\ PubEdit /\ pubRows[r].rev # 0
  /\ pubRows' = [pubRows EXCEPT ![r] =
       [rev |-> @.rev + 1, enabled |-> FALSE, emergency |-> TRUE]]
  /\ pubOrg' = Bumped(pubOrg) /\ Pulled(r) /\ Noted

DeleteRoute(r) ==
  /\ PubEdit /\ pubRows[r].rev # 0
  /\ pubRows' = [pubRows EXCEPT ![r] = NoRoute]
  /\ pubOrg' = Bumped(pubOrg) /\ UNCHANGED patch /\ Noted

-----------------------------------------------------------------------------
(* The long poll.                                                          *)

PollStep == UNCHANGED <<coordSide, nodeSide, withdrawn>>

SendPoll ==
  /\ cfgPoll.step = "idle"
  /\ cfgPoll' = [step |-> "sent", waited |-> 0]
  /\ PollStep /\ UNCHANGED pubFaults

(* ingress_node(): checked once, when the poll arrives.                    *)
Authenticate ==
  /\ cfgPoll.step = "sent"
  /\ cfgPoll' = IF pubOrg.accepted THEN [cfgPoll EXCEPT !.step = "waiting"]
                ELSE [step |-> "answered", waited |-> cfgPoll.waited, kind |-> "refused"]
  /\ PollStep /\ UNCHANGED pubFaults

(* node_config(): the revision is read before anything it stands for.      *)
ReadConfigRevision ==
  /\ cfgPoll.step = "waiting"
  /\ \/ /\ since = 0 \/ pubOrg.rev # since
        /\ cfgPoll' = [step |-> "view", waited |-> cfgPoll.waited, rev |-> pubOrg.rev]
     \/ /\ since # 0 /\ pubOrg.rev = since /\ cfgPoll.waited >= MAX_CONFIG_WAIT_SECS
        /\ cfgPoll' = [step |-> "answered", waited |-> cfgPoll.waited, kind |-> "unchanged"]
  /\ PollStep /\ UNCHANGED pubFaults

(* OrgView::load(), then load_routes(), on the pool and in no transaction. *)
LoadView ==
  /\ cfgPoll.step = "view"
  /\ cfgPoll' = [step |-> "rows", waited |-> cfgPoll.waited, rev |-> cfgPoll.rev,
                 view |-> [enabled |-> pubOrg.enabled, policy |-> pubOrg.policy]]
  /\ PollStep /\ UNCHANGED pubFaults
(* Mutant: the revision is read after the rows.                            *)
LoadRoutesLate ==
  /\ cfgPoll.step = "rows"
  /\ cfgPoll' = [step |-> "answered", waited |-> cfgPoll.waited, kind |-> "changed",
                 rev |-> pubOrg.rev,
                 served |-> [r \in PubRoutes |->
                    IF Deliverable(cfgPoll.view, pubRows[r]) THEN pubRows[r].rev ELSE 0]]
  /\ PollStep /\ UNCHANGED pubFaults

LoadRoutes ==
  /\ cfgPoll.step = "rows"
  /\ cfgPoll' = [step |-> "answered", waited |-> cfgPoll.waited, kind |-> "changed",
                 rev |-> cfgPoll.rev,
                 served |-> [r \in PubRoutes |->
                    IF Deliverable(cfgPoll.view, pubRows[r]) THEN pubRows[r].rev ELSE 0]]
  /\ PollStep /\ UNCHANGED pubFaults

(* The coordinator cannot be reached, or its answer does not come in time. *)
PollFails ==
  /\ cfgPoll.step \in {"sent", "waiting", "view", "rows", "answered"}
  /\ pubFaults < MaxIngressFaults /\ pubFaults' = pubFaults + 1
  /\ cfgPoll' = NoPoll /\ PollStep

-----------------------------------------------------------------------------
(* The ingress device.                                                     *)

(* Requests and tunnels of a route that left the table, or changed in it.  *)
Revoked(next) ==
  [f \in Fetches |->
     IF fetches[f] # NoFetch /\ next[fetches[f].route] # liveTable[fetches[f].route]
     THEN [fetches[f] EXCEPT !.revoked = TRUE] ELSE fetches[f]]

(* RouteTable::apply().                                                    *)
ApplyConfig ==
  /\ cfgPoll.step = "answered" /\ cfgPoll.kind = "changed"
  /\ liveTable' = cfgPoll.served /\ fetches' = Revoked(cfgPoll.served)
  /\ fresh' = STALE_AFTER_SECS /\ since' = cfgPoll.rev /\ cfgPoll' = NoPoll
  /\ UNCHANGED <<coordSide, withdrawn, pubFaults>>

(* RouteTable::confirm().                                                  *)
ConfirmConfig ==
  /\ cfgPoll.step = "answered" /\ cfgPoll.kind = "unchanged"
  /\ fresh' = STALE_AFTER_SECS /\ cfgPoll' = NoPoll
  /\ UNCHANGED <<coordSide, since, liveTable, fetches, withdrawn, pubFaults>>

(* RouteTable::clear(), and config_loop() starts over.                     *)
ClearConfig ==
  /\ cfgPoll.step = "answered" /\ cfgPoll.kind = "refused"
  /\ liveTable' = [r \in PubRoutes |-> 0] /\ fetches' = Revoked(liveTable')
  /\ fresh' = 0 /\ since' = 0 /\ cfgPoll' = NoPoll
  /\ UNCHANGED <<coordSide, withdrawn, pubFaults>>

(* RouteTable::get().                                                      *)
Serves(r) == fresh > 0 /\ liveTable[r] # 0

FetchStep == UNCHANGED <<coordSide, cfgPoll, since, liveTable, fresh, withdrawn, pubFaults>>
Holders(r) == {f \in Fetches : fetches[f] # NoFetch /\ fetches[f].route = r
                               /\ ~fetches[f].revoked}

(* Proxy::handle() and forward() up to the permit.                         *)
AcceptFetch(f, r) ==
  /\ fetches[f] = NoFetch /\ Serves(r)
  /\ Cardinality(Holders(r)) < MAX_CONNECTIONS
  /\ fetches' = [fetches EXCEPT ![f] = [step |-> "forward", route |-> r, revoked |-> FALSE]]
  /\ FetchStep

(* The target answered: the body streams, or the connection is upgraded.   *)
Answered(f) ==
  /\ fetches[f].step = "forward"
  /\ \E step \in {"stream", "tunnel"} : fetches' = [fetches EXCEPT ![f].step = step]
  /\ FetchStep

(* Either side closes, or forward() ends with an error: the permit drops.  *)
Finish(f) ==
  /\ fetches[f] # NoFetch
  /\ fetches' = [fetches EXCEPT ![f] = NoFetch] /\ FetchStep

(* tunnel(): revoked, or no longer the live route at the second's tick.    *)
TunnelDue(f) ==
  fetches[f].step = "tunnel" /\ (fetches[f].revoked \/ ~Serves(fetches[f].route))
CloseTunnel(f) ==
  /\ TunnelDue(f) /\ fetches' = [fetches EXCEPT ![f] = NoFetch] /\ FetchStep

-----------------------------------------------------------------------------
Aged(n) == IF n < ServeBound + 1 THEN n + 1 ELSE n

(* A poll past its timeout and a tunnel past its check do not survive the  *)
(* second.                                                                 *)
SecondPasses ==
  /\ cfgPoll # NoPoll => cfgPoll.waited < MAX_CONFIG_WAIT_SECS + ANSWER_SLACK_SECS
  /\ \A f \in Fetches : ~TunnelDue(f)
  /\ fresh' = IF fresh > 0 THEN fresh - 1 ELSE 0
  /\ cfgPoll' = IF cfgPoll = NoPoll THEN NoPoll ELSE [cfgPoll EXCEPT !.waited = @ + 1]
  /\ withdrawn' = [r \in PubRoutes |->
       IF Deliverable(pubOrg, pubRows[r]) THEN 0 ELSE Aged(withdrawn[r])]
  /\ UNCHANGED <<coordSide, since, liveTable, fetches, pubFaults>>

NodeStep ==
  \/ SendPoll \/ Authenticate \/ ReadConfigRevision \/ LoadView \/ LoadRoutes
  \/ ApplyConfig \/ ConfirmConfig \/ ClearConfig

IngressNext ==
  \/ PutSettings \/ PolicyChange \/ DesignateNode \/ PatchWrite
  \/ \E r \in PubRoutes :
       \/ CreateRoute(r) \/ EmergencyDisable(r) \/ DeleteRoute(r)
       \/ \E enabled \in BOOLEAN : PatchRead(r, enabled)
  \/ NodeStep \/ PollFails \/ SecondPasses
  \/ \E f \in Fetches :
       \/ Answered(f) \/ Finish(f) \/ CloseTunnel(f)
       \/ \E r \in PubRoutes : AcceptFetch(f, r)

(* The poll's steps run as long as the device and the coordinator do;      *)
(* handlers finish; time passes.                                           *)
IngressFairness ==
  /\ WF_ingressVars(NodeStep) /\ WF_ingressVars(PatchWrite)
  /\ WF_ingressVars(SecondPasses)
  /\ \A f \in Fetches : WF_ingressVars(CloseTunnel(f))

IngressSpec == IngressInit /\ [][IngressNext]_ingressVars /\ IngressFairness

-----------------------------------------------------------------------------
IngressTypeOK ==
  /\ pubOrg \in [enabled : BOOLEAN, policy : BOOLEAN, accepted : BOOLEAN, rev : Nat \ {0}]
  /\ pubRows \in [PubRoutes -> [rev : Nat, enabled : BOOLEAN, emergency : BOOLEAN]]
  /\ \A r \in PubRoutes : (pubRows[r].rev = 0) = (pubRows[r] = NoRoute)
  /\ since \in 0 .. pubOrg.rev /\ fresh \in 0 .. STALE_AFTER_SECS
  /\ liveTable \in [PubRoutes -> Nat]
  /\ \A r \in PubRoutes : Cardinality(Holders(r)) <= MAX_CONNECTIONS

(* The kill switch and every other withdrawal (public_ingress.rs:40-42):   *)
(* a route that has not been deliverable for the whole bound is not        *)
(* served, whatever answers were delayed or lost.                          *)
WithdrawnStopsInBound ==
  \A r \in PubRoutes : withdrawn[r] > ServeBound => ~Serves(r)

(* update_route() against emergency_disable(): an update whose read came   *)
(* before the kill switch was pulled (once more) does not bring the route  *)
(* back to life.  A route created anew under the name is another row.      *)
NoUnseenRevival ==
  [][\A r \in PubRoutes :
       (patch.step = "read" /\ patch.route = r /\ patch.pulled /\ pubRows[r] # NoRoute) =>
         ~(Live(pubRows'[r]) /\ ~Live(pubRows[r]))]_pubRows

(* The long poll loses no change (node_config() reads the revision first): *)
(* once edits and faults end, the table is what the coordinator would      *)
(* deliver, and is fresh again and again.                                  *)
Delivered ==
  /\ \A r \in PubRoutes : liveTable[r] =
       IF pubOrg.accepted /\ Deliverable(pubOrg, pubRows[r]) THEN pubRows[r].rev ELSE 0
  /\ pubOrg.accepted => since = pubOrg.rev
TableCatchesUp == <>[]Delivered

(* A withdrawn route stops in time, and nothing revives it unseen.         *)
IngressHolds == [](IngressTypeOK /\ WithdrawnStopsInBound) /\ NoUnseenRevival
=============================================================================
