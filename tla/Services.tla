------------------------------ MODULE Services ------------------------------
(***************************************************************************)
(* One private service: its row and certificates at the coordinator        *)
(* (private_services.rs, service_serving.rs), the agents that may serve it *)
(* (blaktaild/src/services.rs) and one client that resolves its name.      *)
(*                                                                         *)
(* Names, tags, ports and key material are left out: the client holds the  *)
(* access tag and every agent listens on the reported port.  A serial is   *)
(* random, so a number stands for a certificate nothing refers to any      *)
(* more.  Times are the seconds that are left, or that have passed.        *)
(***************************************************************************)
EXTENDS Naturals, FiniteSetsExt

CONSTANTS
  Servers,                \* devices a service may target
  Serials,                \* certificate serials
  HEALTH_FRESH_SECS, LEAF_LIFETIME_SECS,
  MaxLag,                 \* seconds between report_health's clock reading and its commit
  MaxSvcEvents            \* edits and failures of a run

ASSUME ServicesAssumption ==
  /\ HEALTH_FRESH_SECS \in Nat \ {0} /\ LEAF_LIFETIME_SECS \in Nat \ {0}
  /\ MaxLag \in Nat /\ 0 \notin Serials /\ "none" \notin Servers

VARIABLES
  svc,          \* the org_services row: on is "none" while there is none
  svcHealth,    \* its health columns
  leaf,         \* service_certificates, by serial
  standing,     \* the devices' lifecycle
  server,       \* ServiceRuntime, its files, and the pass it is in
  resolver,     \* the client's service_records and whether its revision is current
  svcDeadline,  \* seconds until posture_next_eval_at, or NeverDue
  svcEvents

serviceVars == <<svc, svcHealth, leaf, standing, server, resolver, svcDeadline, svcEvents>>
rowVars == <<svc, svcHealth, standing, resolver, svcDeadline>>

NoSerial == 0
NeverDue == LEAF_LIFETIME_SECS + 1
Unreported == [node |-> "none", ok |-> FALSE, age |-> 0, serial |-> NoSerial]
Unused == [node |-> "none", left |-> 0, revoked |-> TRUE]
NotServing == [pc |-> "idle", held |-> NoSerial, route |-> NoSerial, disk |-> NoSerial,
            says |-> FALSE, lag |-> 0, current |-> FALSE]

ServicesInit ==
  /\ svc \in {[on |-> "none", target |-> "none"]} \cup {[on |-> "yes", target |-> n] : n \in Servers}
  /\ svcHealth = Unreported
  /\ leaf = [k \in Serials |-> Unused]
  /\ standing = [n \in Servers |-> "active"]
  /\ server = [n \in Servers |-> NotServing]
  /\ resolver = [record |-> "none", current |-> TRUE]
  /\ svcDeadline = NeverDue /\ svcEvents = 0

Enables(n) == svc.on = "yes" /\ svc.target = n
LiveCertificate(k, n) == /\ k # NoSerial
                         /\ leaf[k].node = n /\ ~leaf[k].revoked /\ leaf[k].left > 0
FreshFor(n, lag) == svcHealth.node = n /\ svcHealth.age < HEALTH_FRESH_SECS + lag
(* enabled_services: the name may be published.                            *)
Publishes == /\ svc.on = "yes" /\ svcHealth.ok /\ FreshFor(svc.target, 0)
             /\ LiveCertificate(svcHealth.serial, svc.target)
PublishUntil == Min({leaf[svcHealth.serial].left, HEALTH_FRESH_SECS - svcHealth.age})

(* bump_control_revision: every poll in progress returns.                  *)
ServiceBump == /\ resolver' = [resolver EXCEPT !.current = FALSE]
               /\ server' = [n \in Servers |-> [server[n] EXCEPT !.current = FALSE]]
(* The serials anything refers to; the others may be given out again.      *)
Referred == {svcHealth.serial} \cup UNION {{server[n].held, server[n].route, server[n].disk} : n \in Servers}
Kept(f) == [k \in Serials |-> IF k \in Referred THEN f[k] ELSE Unused]
RevokedOn(nodes) == Kept([k \in Serials |-> [leaf[k] EXCEPT !.revoked = @ \/ leaf[k].node \in nodes]])
SvcFault == svcEvents < MaxSvcEvents /\ svcEvents' = svcEvents + 1
SvcEdited == SvcFault /\ UNCHANGED svcDeadline
-----------------------------------------------------------------------------
CreateService(n) ==
  /\ svc.on = "none" /\ standing[n] # "revoked"
  /\ svc' = [on |-> "yes", target |-> n] /\ svcHealth' = Unreported
  /\ ServiceBump /\ SvcEdited /\ UNCHANGED <<leaf, standing>>

(* update_service: the revision in its WHERE makes the read and the write  *)
(* one step.                                                               *)
UpdateService(n, on) ==
  /\ svc.on # "none" /\ standing[n] # "revoked"
  /\ svc' = [on |-> on, target |-> n]
  /\ IF n # svc.target \/ on = "no"
     THEN svcHealth' = Unreported /\ leaf' = RevokedOn(Servers)
     ELSE UNCHANGED <<svcHealth, leaf>>
  /\ ServiceBump /\ SvcEdited /\ UNCHANGED standing
DeleteService ==
  /\ svc.on # "none"
  /\ svc' = [on |-> "none", target |-> "none"] /\ svcHealth' = Unreported
  /\ leaf' = RevokedOn(Servers)
  /\ ServiceBump /\ SvcEdited /\ UNCHANGED standing

(* set_suspended and revoke_node.                                          *)
SuspendServer(n) ==
  /\ standing[n] = "active" /\ standing' = [standing EXCEPT ![n] = "suspended"]
  /\ leaf' = RevokedOn({n})
  /\ ServiceBump /\ SvcEdited /\ UNCHANGED <<svc, svcHealth>>
ResumeServer(n) ==
  /\ standing[n] = "suspended" /\ standing' = [standing EXCEPT ![n] = "active"]
  /\ ServiceBump /\ SvcEdited /\ UNCHANGED <<svc, svcHealth, leaf>>
RevokeServer(n) ==
  /\ standing[n] # "revoked" /\ standing' = [standing EXCEPT ![n] = "revoked"]
  /\ ServiceBump /\ SvcEdited /\ UNCHANGED <<svc, svcHealth, leaf>>
-----------------------------------------------------------------------------
(* A pass of ServiceRuntime::manage.                                       *)
SvcAt(n, pc) == server[n].pc = pc

(* assigned_services: refused, not assigned any more, or assigned.         *)
(* forget_held only reaches the files of what is held in memory.           *)
FetchAssigned(n) ==
  /\ SvcAt(n, "idle")
  /\ server' = [server EXCEPT ![n] =
       IF standing[n] = "active" /\ Enables(n) THEN [@ EXCEPT !.pc = "assigned", !.current = TRUE]
       ELSE [@ EXCEPT !.held = NoSerial, !.route = NoSerial, !.current = TRUE,
                      !.disk = IF server[n].held = NoSerial THEN server[n].disk ELSE NoSerial]]
  /\ UNCHANGED <<rowVars, leaf, svcEvents>>
(* The list cannot be fetched: drop_expired.                               *)
FetchFails(n) ==
  /\ SvcAt(n, "idle") /\ SvcFault
  /\ server' = [server EXCEPT ![n].route = IF @ # NoSerial /\ leaf[@].left = 0 THEN NoSerial ELSE @]
  /\ UNCHANGED <<rowVars, leaf>>

LoadHeld(n) == IF server[n].held = NoSerial THEN server[n].disk ELSE server[n].held
RenewalDue(k) == k = NoSerial \/ leaf[k].left <= LEAF_LIFETIME_SECS - (2 * LEAF_LIFETIME_SECS) \div 3

(* ensure_certificate, and issue_certificate up to its insert.             *)
EnsureCertificate(n) ==
  /\ SvcAt(n, "assigned")
  /\ server' = [server EXCEPT ![n] =
       [@ EXCEPT !.held = LoadHeld(n),
                 !.pc = IF RenewalDue(LoadHeld(n)) /\ standing[n] = "active" /\ Enables(n)
                        THEN "issuing" ELSE "ready"]]
  /\ UNCHANGED <<rowVars, leaf, svcEvents>>

(* The certificate is stored; its answer may be lost.                      *)
IssueCertificate(n) ==
  /\ SvcAt(n, "issuing") /\ Serials \ Referred # {}
  /\ LET k == CHOOSE k \in Serials \ Referred : TRUE
     IN /\ leaf' = [Kept(leaf) EXCEPT ![k] = [node |-> n, left |-> LEAF_LIFETIME_SECS, revoked |-> FALSE]]
        /\ \/ /\ server' = [server EXCEPT ![n] = [@ EXCEPT !.pc = "ready", !.held = k, !.disk = k]]
              /\ UNCHANGED svcEvents
           \/ SvcFault /\ server' = [server EXCEPT ![n].pc = "ready"]
  /\ UNCHANGED rowVars

(* probe_target, apply_routes, ensure_listener.                            *)
ServeRoutes(n) ==
  /\ SvcAt(n, "ready")
  /\ \E healthy \in BOOLEAN :
       /\ IF healthy THEN UNCHANGED svcEvents ELSE SvcFault
       /\ server' = [server EXCEPT ![n] =
            LET k == IF healthy /\ @.held # NoSerial /\ leaf[@.held].left > 0 THEN @.held ELSE NoSerial
            IN [@ EXCEPT !.route = k, !.says = healthy /\ k # NoSerial, !.pc = "report", !.lag = 0]]
  /\ UNCHANGED <<rowVars, leaf>>

(* report_health: whether the name was, and is now, published.             *)
WasPublished(n) == /\ svcHealth.ok /\ FreshFor(n, server[n].lag)
                   /\ LiveCertificate(svcHealth.serial, n)
NowPublished(n) == server[n].says /\ LiveCertificate(server[n].route, n)
(* Mutant: a report only wakes the clients when the state's word changes.  *)
HealthChangedWord(n) == svcHealth.ok # server[n].says
HealthChanged(n) == WasPublished(n) # NowPublished(n)
ReportHealth(n) ==
  /\ SvcAt(n, "report")
  /\ \/ /\ standing[n] = "active" /\ Enables(n) /\ UNCHANGED svcEvents
        /\ svcHealth' = [node |-> n, ok |-> server[n].says, age |-> server[n].lag, serial |-> server[n].route]
        /\ resolver' = [resolver EXCEPT !.current = @ /\ ~HealthChanged(n)]
     \/ ~(standing[n] = "active" /\ Enables(n)) /\ UNCHANGED <<svcHealth, resolver, svcEvents>>
     \/ SvcFault /\ UNCHANGED <<svcHealth, resolver>>
  /\ server' = [server EXCEPT ![n] = [@ EXCEPT !.pc = "idle", !.says = FALSE, !.lag = 0]]
  /\ UNCHANGED <<svc, leaf, standing, svcDeadline>>

(* The agent restarts: what it held is on disk.                            *)
RestartServer(n) ==
  /\ SvcFault /\ server' = [server EXCEPT ![n] = [NotServing EXCEPT !.disk = server[n].disk]]
  /\ UNCHANGED <<rowVars, leaf>>
-----------------------------------------------------------------------------
(* apply_to_peer_map for the client, which notes when the answer lapses.   *)
CompileRecords ==
  /\ ~resolver.current
  /\ resolver' = [current |-> TRUE,
                  record |-> IF Publishes /\ standing[svc.target] = "active" THEN svc.target ELSE "none"]
  /\ svcDeadline' = IF Publishes THEN Min({svcDeadline, PublishUntil}) ELSE svcDeadline
  /\ UNCHANGED <<svc, svcHealth, leaf, standing, server, svcEvents>>
(* due: the deadline bumps the revision once.                              *)
RecordsLapse ==
  /\ svcDeadline = 0 /\ svcDeadline' = NeverDue /\ ServiceBump
  /\ UNCHANGED <<svc, svcHealth, leaf, standing, svcEvents>>

Down(x) == IF x = 0 THEN 0 ELSE x - 1
(* A second passes.  Polls look every 200 ms, so a due recompile is not    *)
(* overtaken by the clock, and neither is a pass of the agent, except for  *)
(* a report that waits for its transaction.                                *)
ServiceSecond ==
  /\ resolver.current /\ svcDeadline # 0
  /\ \A n \in Servers : SvcAt(n, "idle") \/ (SvcAt(n, "report") /\ server[n].lag < MaxLag)
  /\ svcHealth' = [svcHealth EXCEPT !.age = Min({@ + 1, HEALTH_FRESH_SECS + MaxLag})]
  /\ leaf' = Kept([k \in Serials |-> [leaf[k] EXCEPT !.left = Down(@)]])
  /\ server' = [n \in Servers |-> [server[n] EXCEPT !.lag = IF SvcAt(n, "report") THEN @ + 1 ELSE 0]]
  /\ svcDeadline' = IF svcDeadline = NeverDue THEN NeverDue ELSE svcDeadline - 1
  /\ UNCHANGED <<svc, standing, resolver, svcEvents>>

AgentPass(n) == FetchAssigned(n) \/ EnsureCertificate(n) \/ IssueCertificate(n) \/ ServeRoutes(n)
                \/ ReportHealth(n)
ServicesNext ==
  \/ \E n \in Servers : \/ CreateService(n) \/ UpdateService(n, "yes") \/ UpdateService(n, "no")
                        \/ SuspendServer(n) \/ ResumeServer(n) \/ RevokeServer(n)
                        \/ AgentPass(n) \/ FetchFails(n) \/ RestartServer(n)
  \/ DeleteService \/ CompileRecords \/ RecordsLapse \/ ServiceSecond
(* Agents, polls and the clock keep going, the clock however often a pass  *)
(* holds it up; nothing else has to happen.                                *)
ServicesFairness ==
  /\ \A n \in Servers : WF_serviceVars(AgentPass(n))
  /\ WF_serviceVars(CompileRecords) /\ WF_serviceVars(RecordsLapse) /\ SF_serviceVars(ServiceSecond)
ServicesSpec == ServicesInit /\ [][ServicesNext]_serviceVars /\ ServicesFairness
-----------------------------------------------------------------------------
(* A client whose revision is current, with no lapse due, resolves the     *)
(* name exactly while it is published, to the device that serves it: every *)
(* edit, every report that changes the answer and every lapse of a report  *)
(* or certificate wakes it (service_serving.rs apply_to_peer_map,          *)
(* report_health; posture.rs due).                                         *)
RecordsInStep ==
  (resolver.current /\ svcDeadline # 0) =>
     resolver.record = IF Publishes /\ standing[svc.target] = "active" THEN svc.target ELSE "none"

(* An agent that has fetched its services since the last change routes the *)
(* service only while it is the enabled service's target and in good       *)
(* standing, after restarts and failed fetches too (services.rs manage).   *)
WithdrawnStopsServing ==
  \A n \in Servers : (server[n].current /\ SvcAt(n, "idle") /\ server[n].route # NoSerial) =>
     Enables(n) /\ standing[n] = "active"

(* Once nobody edits any more, an enabled service whose device is in good  *)
(* standing is resolved again and again, whatever certificate was revoked, *)
(* lost or expired before (ensure_certificate, renewal_due).               *)
ServedAgain ==
  <>[](svc.on = "yes" /\ standing[svc.target] = "active") => []<>(resolver.record = svc.target)

(* Names point to servers that serve, and withdrawn services stop.         *)
ServicesInv == RecordsInStep /\ WithdrawnStopsServing
=============================================================================
