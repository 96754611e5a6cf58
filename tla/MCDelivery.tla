----------------------------- MODULE MCDelivery -----------------------------
(***************************************************************************)
(* Instances of what the coordinator hands to somebody else and must see   *)
(* through: control updates, remote sessions and jobs, notifications and   *)
(* the records of posture integrations.                                    *)
(*                                                                         *)
(* The components share no state at this level, so `focus` picks, once and *)
(* for all, the one whose steps a behaviour shows; the others stay as they *)
(* started, and fairness is asked of the one that runs.                    *)
(***************************************************************************)
EXTENDS ControlUpdates, RemoteSessions, RemoteJobs, Outbox, PostureSync

VARIABLE focus

Components == {"control", "sessions", "jobs", "outbox", "posture"}
deliveryVars == <<controlVars, remoteVars, jobVars, outboxVars, postureVars, focus>>

DeliveryInit ==
  /\ focus \in Components
  /\ ControlInit /\ RemoteInit /\ JobsInit /\ OutboxInit /\ PostureInit
  /\ focus # "sessions" => \A t \in Targets : hostKey[t] = CHOOSE k \in HostKeys : TRUE
  /\ focus # "posture" => check = NoCheck
  /\ focus # "jobs" => jobKey = CHOOSE k \in JobKeys : TRUE

DeliveryNext ==
  /\ UNCHANGED focus
  /\ \/ focus = "control" /\ ControlNext /\ UNCHANGED <<remoteVars, jobVars, outboxVars, postureVars>>
     \/ focus = "sessions" /\ RemoteNext /\ UNCHANGED <<controlVars, jobVars, outboxVars, postureVars>>
     \/ focus = "jobs" /\ JobsNext /\ UNCHANGED <<controlVars, remoteVars, outboxVars, postureVars>>
     \/ focus = "outbox" /\ OutboxNext /\ UNCHANGED <<controlVars, remoteVars, jobVars, postureVars>>
     \/ focus = "posture" /\ PostureNext /\ UNCHANGED <<controlVars, remoteVars, jobVars, outboxVars>>

(* ControlFairness, RemoteFairness, JobsFairness, OutboxFairness and        *)
(* PostureFairness, of the component that runs.                            *)
DeliveryFairness ==
  /\ WF_controlVars(focus = "control" /\ PollRound) /\ WF_controlVars(focus = "control" /\ ReadRevision)
  /\ WF_controlVars(focus = "control" /\ AnswerPoll) /\ WF_controlVars(focus = "control" /\ ApplyPeerMap)
  /\ WF_controlVars(focus = "control" /\ SecondStatement)
  /\ \A c \in Conns : /\ WF_remoteVars(focus = "sessions" /\ ReportRead(c))
                      /\ WF_remoteVars(focus = "sessions" /\ ReportDecide(c))
                      /\ WF_remoteVars(focus = "sessions" /\ Connect(c))
  /\ \A r \in Runs : WF_jobVars(focus = "jobs" /\ ExecuteTimeout(r))
  /\ \A w \in Loops : WF_outboxVars(focus = "outbox" /\ LoopStep(w))
  /\ WF_outboxVars(focus = "outbox" /\ OutboxTick)
  /\ \A r \in Replicas : /\ WF_postureVars(focus = "posture" /\ Claim(r))
                         /\ WF_postureVars(focus = "posture" /\ Reconcile(r))
  /\ WF_postureVars(focus = "posture" /\ PostureTick) /\ WF_postureVars(focus = "posture" /\ SyncDue)

DeliverySpec == DeliveryInit /\ [][DeliveryNext]_deliveryVars /\ DeliveryFairness

(* RevisionReached of the behaviours that show the control channel: the     *)
(* agent starts behind the coordinator, and elsewhere it does not poll.    *)
AgentCatchesUp == focus = "control" => RevisionReached

(* Quiet from the last minute of the day to its first one, with digests.   *)
NightlyQuiet == {[quiet |-> [start |-> 2, end |-> 1], digest |-> 1]}
(* A check on an integration's verdict and on the age of the credential.   *)
BothKinds == {[integration |-> "pass", credential |-> TRUE]}

(* What was handed over is dealt with in the end, of the component that    *)
(* runs: updates reach the agent, revoked sessions stop, jobs end, rows    *)
(* settle and integrations are synced.                                     *)
DeliveriesSettle == AgentCatchesUp /\ RevokeStopsRelay /\ JobEnds /\ RowsSettle /\ DueIsSynced
=============================================================================
