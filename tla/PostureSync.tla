----------------------------- MODULE PostureSync -----------------------------
(***************************************************************************)
(* Posture checks backed by a device-health provider: the reconcile of one *)
(* integration by replicas and by "sync now", the console's edits, and the *)
(* agents' grants compiled from what is stored                             *)
(* (blaktail-coord/src/posture_integrations.rs, posture.rs).               *)
(*                                                                         *)
(* Times are kept relative to now: what is left of a lease, of the wait to *)
(* the next reconcile and of the next re-evaluation, and the age of a      *)
(* record or a credential up to one second past MAX_AGE, the age every     *)
(* check allows.  "behind" says that the control revision moved since the  *)
(* revision the agent's last map carries.                                  *)
(***************************************************************************)
EXTENDS Naturals, FiniteSets

CONSTANTS
  Devices,
  Replicas,      \* coordinators running sync_loop
  Manuals,       \* administrators pressing "sync now"
  Configs,       \* provider settings
  CheckDefs,     \* definitions the check may have
  MAX_AGE, LEASE_SECS, INTERVAL,
  MaxEdits,      \* bound on console edits and credential renewals
  MaxCrashes     \* bound on coordinators stopping in a reconcile

ASSUME PostureAssumption ==
  /\ MAX_AGE \in Nat \ {0} /\ LEASE_SECS \in Nat \ {0} /\ INTERVAL \in Nat \ {0} /\ MaxEdits \in Nat
  /\ CheckDefs \subseteq [integration : {"none", "fail", "pass"}, credential : BOOLEAN]

VARIABLES
  integ,         \* the posture_integrations row, or NoInteg
  records,       \* posture_integration_devices, per device
  check,         \* the posture check the policy names, or NoCheck
  credAge,       \* seconds since each device's credential was issued
  evalIn,        \* orgs.posture_next_eval_at, or NoEval
  work,          \* each replica's and administrator's reconcile
  behind, compiled, granted,   \* the agent: stale?, map on its way, devices granted
  edits, crashes

postureVars == <<integ, records, check, credAge, evalIn, work, behind, compiled,
                 granted, edits, crashes>>
reachVars == <<behind, compiled, granted>>

NoInteg == [config |-> "none"]
NoRecord == [state |-> "none"]
NoCheck == [integration |-> "none", credential |-> FALSE]
NoEval == MAX_AGE + 1
Ages == 0 .. MAX_AGE + 1
Rest == [step |-> "rest"]
NoMap == [step |-> "none"]

(* Is the integration a reconcile was started for still there?             *)
Stored(id) == integ # NoInteg /\ integ.id = id

Signals == [Devices -> {"none", "good", "bad"}]
RecordOf(state, config) ==
  IF state = "none" THEN NoRecord ELSE [state |-> state, age |-> 0, config |-> config]

PostureInit ==
  /\ integ = NoInteg
  /\ records = [d \in Devices |-> NoRecord]
  /\ check \in CheckDefs \cup {NoCheck}   \* an organisation without integrations
  /\ credAge = [d \in Devices |-> 0]
  /\ evalIn = NoEval
  /\ work = [r \in Replicas \cup Manuals |-> Rest]
  /\ behind = TRUE /\ compiled = NoMap /\ granted = {}
  /\ edits = 0 /\ crashes = 0

-----------------------------------------------------------------------------
(* Evaluation: posture_integrations::assess() and posture::evaluate().     *)

AssessIntegration(d) ==
  /\ integ # NoInteg /\ integ.enabled /\ records[d].state = "good"
  /\ records[d].age > MAX_AGE => integ.outage /\ check.integration = "pass"

Passes(d) ==
  /\ check # NoCheck
  /\ check.integration # "none" => AssessIntegration(d)
  /\ check.credential => credAge[d] <= MAX_AGE

(* The lapse times of a passing result that still lie ahead.               *)
Lapses(d) ==
  {MAX_AGE - records[d].age : x \in IF check.integration # "none"
                                       /\ records[d].age <= MAX_AGE THEN {0} ELSE {}}
  \cup {MAX_AGE - credAge[d] : x \in IF check.credential THEN {0} ELSE {}}

(* PostureContext::next_deadline(): the earliest one after now.            *)
NextDeadline ==
  LET times == UNION {Lapses(d) : d \in {e \in Devices : Passes(e)}} \ {0}
  IN IF times = {} THEN NoEval ELSE CHOOSE t \in times : \A u \in times : t <= u

-----------------------------------------------------------------------------
(* The reconcile.                                                          *)

(* claim_due(): no lease (LEASE_SECS + 1) or a lapsed one (0).             *)
Claim(r) ==
  /\ work[r] = Rest
  /\ integ # NoInteg /\ integ.enabled /\ integ.dueIn = 0
  /\ integ.lease \in {0, LEASE_SECS + 1}
  /\ integ' = [integ EXCEPT !.lease = LEASE_SECS]
  /\ work' = [work EXCEPT ![r] = [step |-> "claimed", id |-> integ.id]]
  /\ UNCHANGED <<records, check, credAge, evalIn, reachVars, edits, crashes>>

(* sync_now(): no lease is taken.                                          *)
SyncNow(m) ==
  /\ work[m] = Rest /\ integ # NoInteg
  /\ edits < MaxEdits /\ edits' = edits + 1
  /\ work' = [work EXCEPT ![m] = [step |-> "claimed", id |-> integ.id]]
  /\ UNCHANGED <<integ, records, check, credAge, evalIn, reachVars, crashes>>

(* sync_integration() reads the row the reconcile will run with.           *)
SyncRead(r) ==
  /\ work[r].step = "claimed"
  /\ work' = [work EXCEPT ![r] =
       IF ~Stored(work[r].id) THEN Rest
       ELSE [step |-> "asking", id |-> @.id, config |-> integ.config, wasOutage |-> integ.outage]]
  /\ UNCHANGED <<integ, records, check, credAge, evalIn, reachVars, edits, crashes>>

(* The provider answers, fails or times out (run_adapter()); what it gave  *)
(* is compared with what is stored before the transaction opens.           *)
SyncAnswer(r) ==
  /\ work[r].step = "asking"
  /\ \/ \E got \in Signals :
          work' = [work EXCEPT ![r] =
            [step |-> "answered", ok |-> TRUE, id |-> @.id, got |-> got,
             config |-> @.config, wasOutage |-> @.wasOutage,
             changed |-> \E d \in Devices :
               got[d] # IF Stored(work[r].id) THEN records[d].state ELSE "none"]]
     \/ work' = [work EXCEPT ![r] = 
            [step |-> "answered", ok |-> FALSE, id |-> @.id, wasOutage |-> @.wasOutage]]
  /\ UNCHANGED <<integ, records, check, credAge, evalIn, reachVars, edits, crashes>>

(* Success: records replaced, outage and lease cleared.  A deleted row     *)
(* refuses the records (foreign key) and takes the transaction with it.    *)
SyncSucceed(r) ==
  /\ work[r].step = "answered" /\ work[r].ok
  /\ IF Stored(work[r].id)
     THEN /\ records' = [d \in Devices |-> RecordOf(work[r].got[d], work[r].config)]
          /\ integ' = [integ EXCEPT !.outage = FALSE, !.lease = LEASE_SECS + 1,
                                    !.dueIn = INTERVAL]
          /\ behind' = (behind \/ work[r].changed \/ work[r].wasOutage)
     ELSE /\ behind' = \/ behind
                       \/ /\ work[r].changed \/ work[r].wasOutage
                          /\ \A d \in Devices : work[r].got[d] = "none"
          /\ UNCHANGED <<integ, records>>
  /\ work' = [work EXCEPT ![r] = Rest]
  /\ UNCHANGED <<check, credAge, evalIn, compiled, granted, edits, crashes>>

(* Failure: the outage starts or goes on, the records stay; back-off and   *)
(* Retry-After choose the next attempt.                                    *)
SyncFail(r) ==
  /\ work[r].step = "answered" /\ ~work[r].ok
  /\ \E wait \in 1 .. INTERVAL :
       integ' = IF Stored(work[r].id)
                THEN [integ EXCEPT !.outage = TRUE, !.lease = LEASE_SECS + 1, !.dueIn = wait]
                ELSE integ
  /\ behind' = (behind \/ ~work[r].wasOutage)
  /\ work' = [work EXCEPT ![r] = Rest]
  /\ UNCHANGED <<records, check, credAge, evalIn, compiled, granted, edits, crashes>>

(* The coordinator stops in the middle; its lease stays in the row.        *)
SyncCrash(r) ==
  /\ work[r] # Rest /\ crashes < MaxCrashes
  /\ work' = [work EXCEPT ![r] = Rest] /\ crashes' = crashes + 1
  /\ UNCHANGED <<integ, records, check, credAge, evalIn, reachVars, edits>>

-----------------------------------------------------------------------------
(* The console.                                                            *)

PostureEdit == edits < MaxEdits /\ edits' = edits + 1

(* create_integration(): due at once; nothing refers to it yet.            *)
CreateIntegration(c) ==
  /\ integ = NoInteg /\ PostureEdit
  /\ integ' = [id |-> edits, config |-> c, enabled |-> TRUE, outage |-> FALSE,
               lease |-> LEASE_SECS + 1, dueIn |-> 0]
  /\ UNCHANGED <<records, check, credAge, evalIn, work, reachVars, crashes>>

(* Mutant: enabling and disabling is left to the next compile.             *)
UpdateIntegrationSilently(c, enabled) ==
  /\ integ # NoInteg /\ PostureEdit
  /\ integ' = [integ EXCEPT !.config = c, !.enabled = enabled,
                            !.dueIn = IF c # integ.config THEN 0 ELSE @]
  /\ records' = IF c # integ.config THEN [d \in Devices |-> NoRecord] ELSE records
  /\ UNCHANGED <<check, credAge, evalIn, work, reachVars, crashes>>

(* update_integration(): new settings drop the stored records and make the *)
(* integration due; the lease and the outage stay as they are.             *)
UpdateIntegration(c, enabled) ==
  /\ integ # NoInteg /\ PostureEdit
  /\ integ' = [integ EXCEPT !.config = c, !.enabled = enabled,
                            !.dueIn = IF c # integ.config THEN 0 ELSE @]
  /\ records' = IF c # integ.config THEN [d \in Devices |-> NoRecord] ELSE records
  /\ behind' = TRUE
  /\ UNCHANGED <<check, credAge, evalIn, work, compiled, granted, crashes>>

(* delete_integration(): refused while a check refers to it.               *)
DeleteIntegration ==
  /\ integ # NoInteg /\ check.integration = "none" /\ PostureEdit
  /\ integ' = NoInteg /\ records' = [d \in Devices |-> NoRecord]
  /\ behind' = TRUE
  /\ UNCHANGED <<check, credAge, evalIn, work, compiled, granted, crashes>>

(* create_check_as(), update_check_as(), delete_check_as(): the version in *)
(* the UPDATE makes an edit of the check one step (ensure_in_org() is part *)
(* of it), and all three bump the revision.                                *)
EditCheck(def) ==
  /\ def # check /\ PostureEdit
  /\ def.integration # "none" => integ # NoInteg
  /\ check' = def /\ behind' = TRUE
  /\ UNCHANGED <<integ, records, credAge, evalIn, work, compiled, granted, crashes>>

(* reauth_node(): a new credential, and the revision moves.                *)
Renew(d) ==
  /\ credAge[d] > 0 /\ PostureEdit
  /\ credAge' = [credAge EXCEPT ![d] = 0] /\ behind' = TRUE
  /\ UNCHANGED <<integ, records, check, evalIn, work, compiled, granted, crashes>>

-----------------------------------------------------------------------------
(* The agent's map.                                                        *)

(* The revision is read, then the map is compiled from PostureContext.     *)
Compile ==
  /\ behind /\ compiled = NoMap
  /\ behind' = FALSE
  /\ compiled' = [step |-> "compiled", grant |-> {d \in Devices : Passes(d)},
                  deadline |-> NextDeadline]
  /\ UNCHANGED <<integ, records, check, credAge, evalIn, work, granted, edits, crashes>>

(* record_deadline() only ever lowers the time; then the map is sent.      *)
Answer ==
  /\ compiled # NoMap
  /\ evalIn' = IF compiled.deadline < evalIn THEN compiled.deadline ELSE evalIn
  /\ granted' = compiled.grant /\ compiled' = NoMap
  /\ UNCHANGED <<integ, records, check, credAge, work, behind, edits, crashes>>

(* due(): the long-poll finds the time reached and bumps the revision.     *)
SyncDue ==
  /\ evalIn = 0 /\ evalIn' = NoEval /\ behind' = TRUE
  /\ UNCHANGED <<integ, records, check, credAge, work, compiled, granted, edits, crashes>>

-----------------------------------------------------------------------------
(* A second passes.  Long-polls look at posture_next_eval_at five times a  *)
(* second, so a time that is reached does not wait for the next second.    *)
Down(n) == IF n = 0 THEN 0 ELSE n - 1

PostureTick ==
  /\ evalIn # 0
  /\ integ' = IF integ = NoInteg THEN integ
              ELSE [integ EXCEPT !.dueIn = Down(@),
                                 !.lease = IF @ = LEASE_SECS + 1 THEN @ ELSE Down(@)]
  /\ records' = [d \in Devices |->
       IF records[d] = NoRecord \/ records[d].age = MAX_AGE + 1 THEN records[d]
       ELSE [records[d] EXCEPT !.age = @ + 1]]
  /\ credAge' = [d \in Devices |-> IF credAge[d] = MAX_AGE + 1 THEN MAX_AGE + 1 ELSE credAge[d] + 1]
  /\ evalIn' = IF evalIn = NoEval THEN NoEval ELSE evalIn - 1
  /\ compiled' = IF compiled = NoMap \/ compiled.deadline = NoEval THEN compiled
                 ELSE [compiled EXCEPT !.deadline = Down(@)]
  /\ UNCHANGED <<check, work, behind, granted, edits, crashes>>

Reconcile(r) == SyncRead(r) \/ SyncAnswer(r) \/ SyncSucceed(r) \/ SyncFail(r)

PostureNext ==
  \/ \E r \in Replicas : Claim(r)
  \/ \E m \in Manuals : SyncNow(m)
  \/ \E r \in Replicas \cup Manuals : Reconcile(r) \/ SyncCrash(r)
  \/ \E c \in Configs : CreateIntegration(c) \/ \E e \in BOOLEAN : UpdateIntegration(c, e)
  \/ DeleteIntegration
  \/ \E def \in CheckDefs \cup {NoCheck} : EditCheck(def)
  \/ \E d \in Devices : Renew(d)
  \/ Compile \/ Answer \/ SyncDue \/ PostureTick

(* sync_loop() polls, a reconcile ends within SYNC_TIMEOUT, time passes.   *)
PostureFairness ==
  /\ \A r \in Replicas : WF_postureVars(Claim(r)) /\ WF_postureVars(Reconcile(r))
  /\ WF_postureVars(PostureTick) /\ WF_postureVars(SyncDue)

PostureSpec == PostureInit /\ [][PostureNext]_postureVars /\ PostureFairness

-----------------------------------------------------------------------------
(* Type invariant; stored records belong to an integration that exists.    *)
PostureTypeOK ==
  /\ integ = NoInteg \/ integ \in [id : 0 .. MaxEdits, config : Configs,
                                   enabled : BOOLEAN, outage : BOOLEAN, lease : 0 .. LEASE_SECS + 1,
                                   dueIn : 0 .. INTERVAL]
  /\ \A d \in Devices : records[d] # NoRecord =>
       /\ integ # NoInteg
       /\ records[d] \in [state : {"good", "bad"}, age : Ages, config : Configs]
  /\ check \in CheckDefs \cup {NoCheck}
  /\ credAge \in [Devices -> Ages] /\ evalIn \in 0 .. NoEval /\ granted \subseteq Devices

(* What an agent in step with the coordinator may never grant: a device    *)
(* whose check needs an integration that was disabled.  A reconcile that   *)
(* was under way when the console disabled it does not switch it back on,  *)
(* and a map compiled before cannot pass for a later one.                  *)
DisabledDenies ==
  ~behind /\ compiled = NoMap /\ check.integration # "none"
    /\ (integ = NoInteg \/ ~integ.enabled) => granted = {}

(* An enabled integration that is due is reconciled, although a replica    *)
(* may stop while it holds the lease (claim_due()).                        *)
DueIsSynced ==
  (integ # NoInteg /\ integ.enabled /\ integ.dueIn = 0)
    ~> (integ = NoInteg \/ ~integ.enabled \/ integ.dueIn > 0)

(* What a posture check concludes about a device.                          *)
PostureInv == PostureTypeOK /\ DisabledDenies
=============================================================================
