--------------------------- MODULE RemoteSessions ---------------------------
(***************************************************************************)
(* Browser remote access: the coordinator issues single-use tickets, the   *)
(* gateway redeems them, opens an SSH or RDP session to the target and     *)
(* reports until one side ends it (blaktail-coord/src/remote_access.rs,    *)
(* blaktail-gateway/src/lib.rs and ssh.rs).                                *)
(*                                                                         *)
(* One person; a request to open a session is named by the session id it   *)
(* will insert, a browser connection to the gateway by a member of Conns.  *)
(* Device lifecycle and access policy are the environment's: other modules *)
(* model them, here they change under the session's feet.                  *)
(***************************************************************************)
EXTENDS Naturals, FiniteSets

CONSTANTS
  Gateways,     \* devices that may be the organisation's gateway
  Targets,      \* devices sessions are opened to
  HostKeys,     \* SSH host keys
  SessionIds,   \* requests for a session
  Conns,        \* browser connections to the gateway
  Nobody,       \* no gateway, no key, no row
  TICKET_TTL_SECS, SESSION_SECS, REPORT_STALE_SECS,
  MaxClock,     \* bound on the clock
  MaxUpheavals  \* bound on environment changes

ASSUME RemoteAssumption ==
  /\ TICKET_TTL_SECS \in Nat \ {0} /\ SESSION_SECS \in Nat \ {0}
  /\ REPORT_STALE_SECS \in Nat \ {0} /\ MaxClock \in Nat

VARIABLES
  raGateway,    \* remote_access_settings.gateway_node_id
  device,       \* nodes: "active", "inactive" (suspended, expired) or "removed"
  allowed,      \* targets the access policy lets the gateway reach
  hostKey,      \* the key each target's sshd really presents
  pins,         \* remote_host_keys: the pinned and the pending key
  vouched,      \* keys pinned on first report or acknowledged (history)
  asks,         \* create_session requests between their reads and the insert
  rows,         \* remote_sessions
  endAudits,    \* remote_session.ended rows in the audit log, per session
  conns,        \* what the gateway does with each connection
  raClock,
  upheavals

coordVars == <<raGateway, pins, vouched, asks, rows, endAudits>>
worldVars == <<device, allowed, hostKey, upheavals>>
remoteVars == <<coordVars, worldVars, conns, raClock>>

Kinds == {"ssh", "rdp"}
Row == [target : Targets, gateway : Gateways, kind : Kinds, issued : 0..MaxClock,
        redeemed : BOOLEAN, revoked : BOOLEAN, ended : BOOLEAN,
        last : 0..MaxClock]
Ask == [target : Targets, gateway : Gateways, kind : Kinds,
        step : {"checked", "counted"}]
Idle == [step |-> "idle"]
ASSUME NobodyAssumption == Nobody \notin Row /\ Nobody \notin Ask /\ Nobody \notin HostKeys

RemoteInit ==
  /\ raGateway = Nobody
  /\ device = [n \in Gateways \cup Targets |-> "active"]
  /\ allowed = Targets
  /\ hostKey \in [Targets -> HostKeys]
  /\ pins = [t \in Targets |-> [pinned |-> Nobody, pending |-> Nobody]]
  /\ vouched = [t \in Targets |-> {}]
  /\ asks = [s \in SessionIds |-> Nobody]
  /\ rows = [s \in SessionIds |-> Nobody]
  /\ endAudits = [s \in SessionIds |-> 0]
  /\ conns = [c \in Conns |-> Idle]
  /\ raClock = 0 /\ upheavals = 0

-----------------------------------------------------------------------------
(* The coordinator's decisions.                                            *)

(* NodeStatus::inactive_reason and authenticate_node.                      *)
Active(n) == device[n] = "active"

(* check_path(): a removed target is an error, everything else a denial.   *)
CheckPath(g, t, kind) ==
  CASE device[t] = "removed" -> "target_removed"
    [] \/ ~Active(g) \/ ~Active(t) \/ t \notin allowed
       \/ kind = "ssh" /\ (pins[t].pinned = Nobody \/ pins[t].pending # Nobody)
       -> "policy"
    [] OTHER -> "ok"

(* session_status(), as list_sessions shows it and create_session counts.  *)
Status(r) ==
  CASE r.ended -> "ended"
    [] ~r.ended /\ r.revoked -> "revoked"
    [] ~r.ended /\ ~r.revoked /\ r.redeemed ->
         IF r.issued + SESSION_SECS <= raClock \/ r.last + REPORT_STALE_SECS <= raClock
         THEN "ended" ELSE "active"
    [] OTHER -> IF r.issued + TICKET_TTL_SECS <= raClock THEN "expired" ELSE "issued"

(* end_session(): the row ends once, and the audit row is written with it. *)
EndSession(s) ==
  IF rows[s].ended THEN UNCHANGED <<rows, endAudits>>
  ELSE /\ rows' = [rows EXCEPT ![s].ended = TRUE, ![s].last = raClock]
       /\ endAudits' = [endAudits EXCEPT ![s] = @ + 1]

-----------------------------------------------------------------------------
(* The console.                                                            *)

(* put_settings(): clears, sets or swaps the gateway.                      *)
PutSettings(g) ==
  /\ upheavals < MaxUpheavals \/ raGateway = Nobody
  /\ g # raGateway /\ (g # Nobody => Active(g))
  /\ raGateway' = g
  /\ upheavals' = IF raGateway = Nobody THEN upheavals ELSE upheavals + 1
  /\ UNCHANGED <<device, allowed, hostKey, pins, vouched, asks, rows, endAudits,
                 conns, raClock>>

(* create_session() up to its transaction: settings and path are read.     *)
CreateCheck(s, t, kind) ==
  /\ rows[s] = Nobody /\ asks[s] = Nobody
  /\ raGateway # Nobody
  /\ CheckPath(raGateway, t, kind) = "ok"
  /\ asks' = [asks EXCEPT ![s] = [target |-> t, gateway |-> raGateway,
                                  kind |-> kind, step |-> "checked"]]
  /\ UNCHANGED <<raGateway, pins, vouched, rows, endAudits, worldVars, conns, raClock>>

(* The count of open sessions to the target; a request that finds one is   *)
(* refused (and may be made again).                                        *)
CreateCount(s) ==
  /\ asks[s] # Nobody /\ asks[s].step = "checked"
  /\ asks' = [asks EXCEPT ![s] =
       IF \E o \in SessionIds : /\ rows[o] # Nobody /\ rows[o].target = @.target
                                /\ Status(rows[o]) \in {"issued", "active"}
       THEN Nobody ELSE [@ EXCEPT !.step = "counted"]]
  /\ UNCHANGED <<raGateway, pins, vouched, rows, endAudits, worldVars, conns, raClock>>

CreateInsert(s) ==
  /\ asks[s] # Nobody /\ asks[s].step = "counted"
  /\ rows' = [rows EXCEPT ![s] =
       [target |-> asks[s].target, gateway |-> asks[s].gateway,
        kind |-> asks[s].kind, issued |-> raClock, redeemed |-> FALSE,
        revoked |-> FALSE, ended |-> FALSE, last |-> raClock]]
  /\ asks' = [asks EXCEPT ![s] = Nobody]
  /\ UNCHANGED <<raGateway, pins, vouched, endAudits, worldVars, conns, raClock>>

(* revoke_session() for one session, revoke_user_sessions() for all.       *)
Revoke(which) ==
  LET open == {s \in which : rows[s] # Nobody /\ ~rows[s].revoked /\ ~rows[s].ended}
  IN /\ open # {}
     /\ rows' = [s \in SessionIds |->
                   IF s \in open THEN [rows[s] EXCEPT !.revoked = TRUE] ELSE rows[s]]
     /\ UNCHANGED <<raGateway, pins, vouched, asks, endAudits, worldVars, conns, raClock>>

(* acknowledge_host_key(): the administrator compared this fingerprint.    *)
AcknowledgeHostKey(t, k) ==
  /\ pins[t].pending = k
  /\ pins' = [pins EXCEPT ![t] = [pinned |-> k, pending |-> Nobody]]
  /\ vouched' = [vouched EXCEPT ![t] = @ \cup {k}]
  /\ UNCHANGED <<raGateway, asks, rows, endAudits, worldVars, conns, raClock>>

(* report_host_key(), coordinator and agent: the first key is pinned, a    *)
(* different one waits, the pinned one again clears what waited.           *)
ReportHostKey(t) ==
  LET k == hostKey[t]
      entry == IF pins[t].pinned \in {Nobody, k}
               THEN [pinned |-> k, pending |-> Nobody]
               ELSE [pinned |-> pins[t].pinned, pending |-> k]
  IN /\ Active(t) /\ pins[t] # entry
     /\ pins' = [pins EXCEPT ![t] = entry]
     /\ vouched' = [vouched EXCEPT ![t] = IF pins[t].pinned = Nobody THEN {k} ELSE @]
     /\ UNCHANGED <<raGateway, asks, rows, endAudits, worldVars, conns, raClock>>

-----------------------------------------------------------------------------
(* The gateway.                                                            *)

(* redeem_ticket(): one conditional UPDATE spends the ticket; a gateway    *)
(* whose update changes no row closes the browser's connection.            *)
RedeemFlip(c, g, s) ==
  /\ conns[c].step = "idle" /\ rows[s] # Nobody /\ Active(g)
  /\ IF /\ rows[s].gateway = g /\ ~rows[s].redeemed /\ ~rows[s].revoked /\ ~rows[s].ended
        /\ rows[s].issued + TICKET_TTL_SECS > raClock
     THEN /\ rows' = [rows EXCEPT ![s].redeemed = TRUE, ![s].last = raClock]
          /\ conns' = [conns EXCEPT ![c] = [step |-> "redeeming", session |-> s, gateway |-> g]]
     ELSE conns' = [conns EXCEPT ![c] = [step |-> "closed"]] /\ UNCHANGED rows
  /\ UNCHANGED <<raGateway, pins, vouched, asks, endAudits, worldVars, raClock>>

(* Mutant: the gateway counts the session's length from the redemption.    *)
DeadlineFromNow(s) == raClock + SESSION_SECS

(* Live::new(): what is left of the session when the gateway starts it.    *)
Deadline(s) == rows[s].issued + SESSION_SECS

(* redeem_ticket() after the update: settings and path are checked again,  *)
(* a refusal or a failure to prepare ends the session, and the answer may  *)
(* be lost on its way to the gateway.                                      *)
RedeemAnswer(c) ==
  LET s == conns[c].session
      r == rows[s]
      granted == /\ raGateway = conns[c].gateway
                 /\ CheckPath(conns[c].gateway, r.target, r.kind) = "ok"
  IN /\ conns[c].step = "redeeming"
     /\ \/ /\ granted
           /\ \E lost \in BOOLEAN :
                conns' = [conns EXCEPT ![c] =
                  IF lost THEN [step |-> "closed"]
                  ELSE [step |-> "starting", session |-> s, gateway |-> @.gateway,
                        key |-> IF r.kind = "ssh" THEN pins[r.target].pinned ELSE Nobody,
                        deadline |-> Deadline(s), began |-> raClock]]
           /\ UNCHANGED <<rows, endAudits>>
        \/ /\ EndSession(s)
           /\ conns' = [conns EXCEPT ![c] = [step |-> "closed"]]
     /\ UNCHANGED <<raGateway, pins, vouched, asks, worldVars, raClock>>

(* ssh::open_shell() and guac::handshake(): connected only when the server *)
(* presents the pinned key; any failure is an end reason.                  *)
Connect(c) ==
  LET r == rows[conns[c].session]
      meets == r.kind = "ssh" => conns[c].key = hostKey[r.target]
  IN /\ conns[c].step = "starting"
     /\ \E up \in BOOLEAN :
          /\ up => meets
          /\ conns' = [conns EXCEPT ![c].step = IF up THEN "live" ELSE "ending",
                                    ![c].began = raClock]
     /\ UNCHANGED <<coordVars, worldVars, raClock>>

(* The select! loop of ssh() and rdp() leaves: the browser or the target   *)
(* closed, the session was idle, or the deadline passed.                   *)
LeaveLoop(c) ==
  /\ conns[c].step = "live"
  /\ conns' = [conns EXCEPT ![c].step = "ending"]
  /\ UNCHANGED <<coordVars, worldVars, raClock>>

(* tick(): the report reaches the coordinator, which reads the row; or it  *)
(* does not, and the gateway ends the session.                             *)
ReportRead(c) ==
  LET r == rows[conns[c].session]
  IN /\ conns[c].step = "live"
     /\ conns' = [conns EXCEPT ![c] =
          IF Active(conns[c].gateway)
          THEN [step |-> "reporting", session |-> @.session, gateway |-> @.gateway,
                key |-> @.key, deadline |-> @.deadline, began |-> @.began,
                saw |-> r.revoked \/ r.ended]
          ELSE [@ EXCEPT !.step = "ending"]]
     /\ UNCHANGED <<coordVars, worldVars, raClock>>

(* report_session() decides from the row it read and from the settings and *)
(* the path as they are now; the gateway obeys (or, if the answer is lost, *)
(* ends the session).                                                      *)
ReportDecide(c) ==
  LET s == conns[c].session
      terminate == \/ conns[c].saw
                   \/ rows[s].issued + SESSION_SECS <= raClock
                   \/ raGateway # conns[c].gateway
                   \/ CheckPath(conns[c].gateway, rows[s].target, rows[s].kind) # "ok"
  IN /\ conns[c].step = "reporting"
     /\ \E lost \in BOOLEAN :
          conns' = [conns EXCEPT ![c].step = IF terminate \/ lost THEN "ending" ELSE "live"]
     /\ IF terminate THEN EndSession(s)
        ELSE /\ rows' = IF rows[s].ended THEN rows ELSE [rows EXCEPT ![s].last = raClock]
             /\ UNCHANGED endAudits
     /\ UNCHANGED <<raGateway, pins, vouched, asks, worldVars, raClock>>

(* run() after the loop: the end is reported once; the report may be lost  *)
(* or refused.  A gateway that crashes skips it too.                       *)
ReportEnd(c) ==
  /\ conns[c].step = "ending"
  /\ \/ Active(conns[c].gateway) /\ EndSession(conns[c].session)
     \/ UNCHANGED <<rows, endAudits>>
  /\ conns' = [conns EXCEPT ![c] = [step |-> "closed"]]
  /\ UNCHANGED <<raGateway, pins, vouched, asks, worldVars, raClock>>

GatewayCrash(c) ==
  /\ conns[c].step \notin {"idle", "closed", "redeeming"}
  /\ conns' = [conns EXCEPT ![c] = [step |-> "closed"]]
  /\ UNCHANGED <<coordVars, worldVars, raClock>>

-----------------------------------------------------------------------------
(* The environment.                                                        *)

Upheaval ==
  /\ upheavals < MaxUpheavals /\ upheavals' = upheavals + 1
  /\ \/ \E n \in DOMAIN device :
          /\ device[n] # "removed"
          /\ \E st \in {"active", "inactive", "removed"} \ {device[n]} :
               device' = [device EXCEPT ![n] = st]
          /\ UNCHANGED <<allowed, hostKey>>
     \/ \E t \in Targets :
          /\ allowed' = IF t \in allowed THEN allowed \ {t} ELSE allowed \cup {t}
          /\ UNCHANGED <<device, hostKey>>
     \/ \E t \in Targets, k \in HostKeys :
          /\ k # hostKey[t] /\ hostKey' = [hostKey EXCEPT ![t] = k]
          /\ UNCHANGED <<device, allowed>>
  /\ UNCHANGED <<coordVars, conns, raClock>>

(* Time passes; sleep_until(deadline) has fired by the time it is over.    *)
RemoteTick ==
  /\ raClock < MaxClock
  /\ \A c \in Conns : conns[c].step \in {"live", "reporting"} => conns[c].deadline > raClock
  /\ raClock' = raClock + 1
  /\ UNCHANGED <<coordVars, worldVars, conns>>

GatewayStep(c) == \/ Connect(c) \/ LeaveLoop(c) \/ ReportRead(c) \/ ReportDecide(c)
                  \/ ReportEnd(c)

RemoteNext ==
  \/ \E g \in Gateways \cup {Nobody} : PutSettings(g)
  \/ \E s \in SessionIds :
       \/ \E t \in Targets, kind \in Kinds : CreateCheck(s, t, kind)
       \/ CreateCount(s) \/ CreateInsert(s) \/ Revoke({s})
       \/ \E c \in Conns, g \in Gateways : RedeemFlip(c, g, s)
  \/ Revoke(SessionIds)
  \/ \E t \in Targets : ReportHostKey(t) \/ \E k \in HostKeys : AcknowledgeHostKey(t, k)
  \/ \E c \in Conns : RedeemAnswer(c) \/ GatewayStep(c) \/ GatewayCrash(c)
  \/ Upheaval \/ RemoteTick

(* The gateway's timers run and the coordinator answers what it is asked.  *)
RemoteFairness ==
  \A c \in Conns : /\ WF_remoteVars(ReportRead(c)) /\ WF_remoteVars(ReportDecide(c))
                   /\ WF_remoteVars(Connect(c))

-----------------------------------------------------------------------------
RemoteTypeOK ==
  /\ raGateway \in Gateways \cup {Nobody}
  /\ rows \in [SessionIds -> Row \cup {Nobody}]
  /\ asks \in [SessionIds -> Ask \cup {Nobody}]
  /\ pins \in [Targets -> [pinned : HostKeys \cup {Nobody}, pending : HostKeys \cup {Nobody}]]
  /\ \A c \in Conns :
       conns[c].step \in {"idle", "redeeming", "starting", "live", "reporting", "ending", "closed"}

Holding(c, s) == conns[c].step \notin {"idle", "closed"} /\ conns[c].session = s

(* However many browser connections present a ticket, and in whatever      *)
(* order their updates land, at most one gateway connection ever holds the *)
(* session (redeem_ticket()'s conditional UPDATE).                         *)
TicketSingleUse ==
  \A s \in SessionIds : Cardinality({c \in Conns : Holding(c, s)}) <= 1

(* A session's end is in the audit log exactly when the row has ended, and *)
(* once, although the coordinator and the gateway may both end it.         *)
EndAuditedOnce ==
  \A s \in SessionIds :
    endAudits[s] = IF rows[s] # Nobody /\ rows[s].ended THEN 1 ELSE 0

(* The gateway trusts only host keys that were pinned first or that an     *)
(* administrator acknowledged, whatever the device reports in between.     *)
OnlyVouchedHostKeys ==
  \A c \in Conns : /\ conns[c].step \in {"starting", "live", "reporting"}
                   /\ conns[c].key # Nobody
                   => conns[c].key \in vouched[rows[conns[c].session].target]

(* No connection relays past the end the coordinator set when it issued    *)
(* the ticket (max_end_at), however late the ticket was redeemed; one that *)
(* connects after it stops in the same instant.                            *)
NoRelayPastDeadline ==
  \A c \in Conns : conns[c].step \in {"live", "reporting"}
                     => \/ raClock <= rows[conns[c].session].issued + SESSION_SECS
                        \/ raClock = conns[c].began

(* A revoked session stops relaying (the gateway's next report ends it),   *)
(* even when a report was in flight when it was revoked.                   *)
RevokeStopsRelay ==
  \A s \in SessionIds, c \in Conns :
    (rows[s] # Nobody /\ rows[s].revoked /\ Holding(c, s) /\ conns[c].step = "live")
      ~> conns[c].step \notin {"live", "reporting"}

RemoteSpec == RemoteInit /\ [][RemoteNext]_remoteVars /\ RemoteFairness

(* Tickets, host keys, deadlines and the audit trail of remote sessions.   *)
RemoteInv == RemoteTypeOK /\ TicketSingleUse /\ EndAuditedOnce /\ OnlyVouchedHostKeys /\ NoRelayPastDeadline
=============================================================================
