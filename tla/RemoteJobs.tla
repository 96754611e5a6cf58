----------------------------- MODULE RemoteJobs -----------------------------
(***************************************************************************)
(* Remote jobs: runs of owner-defined templates that an owner approves,    *)
(* the coordinator signs and one device's agent claims and executes        *)
(* (blaktail-coord/src/remote_access.rs, blaktaild/src/remote.rs).         *)
(*                                                                         *)
(* One device and its agent process, which crashes and restarts; requests  *)
(* and answers between the two may be lost.  argv, output and limits are   *)
(* data that no decision below depends on once a template is accepted.     *)
(***************************************************************************)
EXTENDS Naturals

CONSTANTS
  Runs,          \* remote_job_runs
  JobKeys,       \* signing keys the coordinator's secret may derive
  NoJob,         \* no run, no key
  JOB_CLAIM_WINDOW_SECS,
  MaxJobClock,   \* bound on the clock
  MaxMishaps     \* bound on crashes, replays, key and device changes

ASSUME JobsAssumption == JOB_CLAIM_WINDOW_SECS \in Nat \ {0} /\ MaxJobClock \in Nat

VARIABLES
  template,      \* "none", "enabled" or "disabled"
  runs,          \* [status, cancel, expires, key] of each run
  jobKey,        \* job_signing_key() of the coordinator
  published,     \* the key in the agent's last peer map
  pin,           \* remote-jobs.pub
  remembered,    \* remote-jobs-runs.json: runs executed, with their expiry
  agent,         \* where the job loop is
  fetched,       \* jobs of the current poll still to be handled
  executed,      \* how often each run was started on the device (history)
  withdrawn,     \* runs cancelled or rejected before they were claimed (history)
  deviceUp,      \* the device is active at the coordinator
  jobClock,
  mishaps

jobCoordVars == <<template, runs, jobKey, withdrawn, deviceUp>>
agentVars == <<published, pin, remembered, agent, fetched, executed>>
jobVars == <<jobCoordVars, agentVars, jobClock, mishaps>>

EndStates == {"succeeded", "failed", "timed_out", "output_capped", "cancelled", "error"}
NewRun == [status |-> "none", cancel |-> FALSE, expires |-> 0, key |-> NoJob]

JobsInit ==
  /\ template = "none" /\ runs = [r \in Runs |-> NewRun]
  /\ jobKey \in JobKeys /\ published = jobKey /\ pin = NoJob
  /\ remembered = [r \in {} |-> 0]
  /\ agent = [step |-> "idle", run |-> NoJob] /\ fetched = {}
  /\ executed = [r \in Runs |-> 0] /\ withdrawn = {}
  /\ deviceUp = TRUE /\ jobClock = 0 /\ mishaps = 0

-----------------------------------------------------------------------------
(* The console.                                                            *)

(* create_template(), once validate_argv() and the limits accept it, and   *)
(* disable_template().                                                     *)
CreateTemplate ==
  /\ template = "none" /\ template' = "enabled"
  /\ UNCHANGED <<runs, jobKey, withdrawn, deviceUp, agentVars, jobClock, mishaps>>

DisableTemplate ==
  /\ template = "enabled" /\ template' = "disabled"
  /\ UNCHANGED <<runs, jobKey, withdrawn, deviceUp, agentVars, jobClock, mishaps>>

(* request_run(): the template is enabled and selects an active device.    *)
RequestRun(r) ==
  /\ runs[r].status = "none" /\ template = "enabled" /\ deviceUp
  /\ runs' = [runs EXCEPT ![r].status = "pending_approval"]
  /\ UNCHANGED <<template, jobKey, withdrawn, deviceUp, agentVars, jobClock, mishaps>>

(* approve_run(): signs the payload and opens the claim window.            *)
ApproveRun(r) ==
  /\ runs[r].status = "pending_approval" /\ template = "enabled"
  /\ runs' = [runs EXCEPT ![r].status = "approved", ![r].key = jobKey,
                          ![r].expires = jobClock + JOB_CLAIM_WINDOW_SECS]
  /\ UNCHANGED <<template, jobKey, withdrawn, deviceUp, agentVars, jobClock, mishaps>>

RejectRun(r) ==
  /\ runs[r].status = "pending_approval"
  /\ runs' = [runs EXCEPT ![r].status = "rejected"]
  /\ withdrawn' = withdrawn \cup {r}
  /\ UNCHANGED <<template, jobKey, deviceUp, agentVars, jobClock, mishaps>>

(* cancel_run(): outright before the claim, a request to the agent after.  *)
CancelRun(r) ==
  /\ \/ /\ runs[r].status \in {"pending_approval", "approved"}
        /\ runs' = [runs EXCEPT ![r].status = "cancelled", ![r].cancel = TRUE]
        /\ withdrawn' = withdrawn \cup {x \in {r} : executed[x] = 0}
     \/ /\ runs[r].status = "running" /\ ~runs[r].cancel
        /\ runs' = [runs EXCEPT ![r].cancel = TRUE]
        /\ UNCHANGED withdrawn
  /\ UNCHANGED <<template, jobKey, deviceUp, agentVars, jobClock, mishaps>>

(* run_view(): what the console shows.                                     *)
ShownStatus(r) ==
  IF runs[r].status = "approved" /\ runs[r].expires <= jobClock THEN "expired"
  ELSE runs[r].status

-----------------------------------------------------------------------------
(* The agent.                                                              *)

AgentIdle == [step |-> "idle", run |-> NoJob]
Abandon == agent' = AgentIdle /\ fetched' = {}

(* pinned_key() and pending_jobs(): a changed key stops the poll, the      *)
(* first key seen is pinned.                                               *)
PollOnce ==
  /\ agent = AgentIdle /\ fetched = {} /\ deviceUp
  /\ pin \in {NoJob, published} /\ pin' = published
  /\ fetched' = {r \in Runs : ShownStatus(r) = "approved"}
  /\ UNCHANGED <<jobCoordVars, published, remembered, agent, executed, jobClock, mishaps>>

(* remember_run(): expired entries go, the run is kept to its expiry.      *)
Remember(r) ==
  [x \in {y \in DOMAIN remembered : remembered[y] > jobClock} \cup {r} |->
     IF x = r THEN runs[r].expires ELSE remembered[x]]

(* verify_job() and remember_run(): an expired job, one signed with another *)
(* key or one that ran here is skipped; a run is recorded before the claim. *)
TakeJob(r) ==
  /\ agent = AgentIdle /\ r \in fetched
  /\ fetched' = fetched \ {r}
  /\ IF \/ runs[r].key # pin \/ runs[r].expires <= jobClock
        \/ r \in DOMAIN remembered /\ remembered[r] > jobClock
     THEN UNCHANGED <<remembered, agent>>
     ELSE /\ remembered' = Remember(r)
          /\ agent' = [step |-> "claiming", run |-> r]
  /\ UNCHANGED <<jobCoordVars, published, pin, executed, jobClock, mishaps>>

(* Mutant: the claim does not look at the status of the run.               *)
ClaimAny(r) ==
  /\ agent = [step |-> "claiming", run |-> r] /\ deviceUp
  /\ IF runs[r].expires > jobClock
     THEN /\ runs' = [runs EXCEPT ![r].status = "running"]
          /\ agent' = [step |-> "running", run |-> r]
          /\ executed' = [executed EXCEPT ![r] = @ + 1]
          /\ UNCHANGED fetched
     ELSE agent' = AgentIdle /\ UNCHANGED <<runs, executed, fetched>>
  /\ UNCHANGED <<template, jobKey, withdrawn, deviceUp, published, pin, remembered,
                 jobClock, mishaps>>

(* claim_job() and the start of execute(); the agent turns to the next job *)
(* when the claim is refused and drops the poll when the answer is lost.   *)
ClaimJob(r) ==
  /\ agent = [step |-> "claiming", run |-> r] /\ deviceUp
  /\ IF runs[r].status = "approved" /\ runs[r].expires > jobClock
     THEN /\ runs' = [runs EXCEPT ![r].status = "running"]
          /\ \/ /\ agent' = [step |-> "running", run |-> r]
                /\ executed' = [executed EXCEPT ![r] = @ + 1]
                /\ UNCHANGED fetched
             \/ Abandon /\ UNCHANGED executed
     ELSE agent' = AgentIdle /\ UNCHANGED <<runs, executed, fetched>>
  /\ UNCHANGED <<template, jobKey, withdrawn, deviceUp, published, pin, remembered,
                 jobClock, mishaps>>

(* execute(): the timeout kills the process group.                         *)
ExecuteTimeout(r) ==
  /\ agent = [step |-> "running", run |-> r]
  /\ agent' = [step |-> "ended", run |-> r, status |-> "timed_out"]
  /\ UNCHANGED <<jobCoordVars, published, pin, remembered, fetched, executed,
                 jobClock, mishaps>>

(* execute(): the child exits, floods its output, or the watcher sees that *)
(* job_state() asks to cancel.                                             *)
ExecuteEnd(r, status) ==
  /\ agent = [step |-> "running", run |-> r]
  /\ status = "cancelled" => runs[r].cancel \/ runs[r].status = "cancelled"
  /\ agent' = [step |-> "ended", run |-> r, status |-> status]
  /\ UNCHANGED <<jobCoordVars, published, pin, remembered, fetched, executed,
                 jobClock, mishaps>>

(* job_result(): stored only while the run is running on this device.      *)
StoreResult(r, status) ==
  runs' = IF runs[r].status = "running" THEN [runs EXCEPT ![r].status = status] ELSE runs

(* The end of run_one(): the result reaches the coordinator or is lost; a  *)
(* refusal is an error, which drops the rest of the poll.                  *)
PostResult(r) ==
  /\ agent.step = "ended" /\ agent.run = r
  /\ \/ deviceUp /\ StoreResult(r, agent.status)
     \/ UNCHANGED runs
  /\ agent' = AgentIdle
  /\ fetched' = IF runs'[r] = runs[r] THEN {} ELSE fetched
  /\ UNCHANGED <<template, jobKey, withdrawn, deviceUp, published, pin, remembered,
                 executed, jobClock, mishaps>>

-----------------------------------------------------------------------------
(* Mishaps.                                                                *)

AgentCrash ==
  /\ agent # AgentIdle \/ fetched # {}
  /\ Abandon
  /\ UNCHANGED <<jobCoordVars, published, pin, remembered, executed, jobClock>>

(* A claimed run is offered again with its old signature: the coordinator's *)
(* database was restored to a copy from before the claim.                  *)
Reoffer(r) ==
  /\ runs[r].status \in EndStates \cup {"running"} /\ r \notin withdrawn
  /\ runs' = [runs EXCEPT ![r].status = "approved", ![r].cancel = FALSE]
  /\ UNCHANGED <<template, jobKey, withdrawn, deviceUp, agentVars, jobClock>>

NewSecret ==
  /\ jobKey' \in JobKeys \ {jobKey}
  /\ UNCHANGED <<template, runs, withdrawn, deviceUp, agentVars, jobClock>>

DeviceChange ==
  /\ deviceUp' = ~deviceUp
  /\ UNCHANGED <<template, runs, jobKey, withdrawn, agentVars, jobClock>>

(* agent_view() brings the current key with the next peer map.             *)
PeerMapKey ==
  /\ deviceUp /\ published # jobKey /\ published' = jobKey
  /\ UNCHANGED <<jobCoordVars, pin, remembered, agent, fetched, executed, jobClock, mishaps>>

JobTick ==
  /\ jobClock < MaxJobClock /\ jobClock' = jobClock + 1
  /\ UNCHANGED <<jobCoordVars, agentVars, mishaps>>

JobsNext ==
  \/ CreateTemplate \/ DisableTemplate \/ PollOnce \/ PeerMapKey \/ JobTick
  \/ \E r \in Runs :
       \/ RequestRun(r) \/ ApproveRun(r) \/ RejectRun(r) \/ CancelRun(r)
       \/ TakeJob(r) \/ ClaimJob(r) \/ ExecuteTimeout(r) \/ PostResult(r)
       \/ \E st \in EndStates \ {"timed_out"} : ExecuteEnd(r, st)
  \/ /\ mishaps < MaxMishaps /\ mishaps' = mishaps + 1
     /\ \/ AgentCrash \/ NewSecret \/ DeviceChange
        \/ \E r \in Runs : Reoffer(r)

JobsFairness == \A r \in Runs : WF_jobVars(ExecuteTimeout(r))

-----------------------------------------------------------------------------
JobsTypeOK ==
  /\ template \in {"none", "enabled", "disabled"}
  /\ runs \in [Runs -> [status : EndStates \cup {"none", "pending_approval", "approved",
                                                 "rejected", "running"},
                        cancel : BOOLEAN, key : JobKeys \cup {NoJob},
                        expires : 0..MaxJobClock + JOB_CLAIM_WINDOW_SECS]]
  /\ pin \in JobKeys \cup {NoJob} /\ fetched \subseteq Runs /\ withdrawn \subseteq Runs
  /\ agent.step \in {"idle", "claiming", "running", "ended"}

(* A run is executed at most once, though the agent crashes and restarts,  *)
(* claims and answers are lost and the coordinator offers it again: the    *)
(* run is on disk before it is claimed and until its signature expires.    *)
ExecutedAtMostOnce == \A r \in Runs : executed[r] <= 1

(* A run that was rejected or cancelled before it was claimed never starts, *)
(* even when the agent had already fetched it.                             *)
WithdrawnNeverRuns == \A r \in withdrawn : executed[r] = 0

(* The outcome of a run is final: neither a late result nor a late cancel  *)
(* overwrites it (a database restored from a copy aside).                  *)
OutcomeFinal ==
  [][\A r \in Runs : runs[r].status \in EndStates \cup {"rejected"}
       => runs'[r].status \in {runs[r].status, "approved"}]_jobVars

(* The agent never executes a job for ever: the timeout ends it.           *)
JobEnds == \A r \in Runs : agent = [step |-> "running", run |-> r]
                             ~> agent # [step |-> "running", run |-> r]

JobsSpec == JobsInit /\ [][JobsNext]_jobVars /\ JobsFairness

(* A job runs once and only while it is approved, and its outcome stays.   *)
JobsHold == [](JobsTypeOK /\ ExecutedAtMostOnce /\ WithdrawnNeverRuns) /\ OutcomeFinal
=============================================================================
