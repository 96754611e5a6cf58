--------------------------- MODULE DeliveryProofs ---------------------------
(***************************************************************************)
(* What one machine hands to another over links and processes that fail:   *)
(* an agent's session with its relay, remote jobs, remote sessions, the    *)
(* peer map, notifications and posture records, for any number of          *)
(* connections, runs, tickets, peers, replicas and devices.                *)
(***************************************************************************)
EXTENDS RelaySession, RemoteJobs, RemoteSessions, ControlUpdates, Outbox, PostureSync,
        SequenceTheorems, FiniteSetTheorems, WellFoundedInduction, TLAPS

-----------------------------------------------------------------------------
(* The relay session.                                                      *)

(* A connect is only under way while no connection is up: what ConnectFail *)
(* relies on when it forgets the one it was to replace.                    *)
ConnectsAlone == connecting = "yes" => alive = {}
SessionIInv == SessionInv /\ ConnectsAlone

LEMMA SessionInitIInv == SessionInit => SessionIInv
BY SessionAssumption
   DEF SessionInit, SessionIInv, SessionInv, SessionTypeOK, NoLeakedConnection,
       ConnectsAlone, WSS_AFTER_UDP_MISSES, UDP_AFTER_HITS

LEMMA LadderTypes ==
  ASSUME SessionTypeOK, LadderEndRound
  PROVE  /\ link' \in {"udp", "wss"} /\ answered' \in {"yes", "no"}
         /\ misses' \in 0..WSS_AFTER_UDP_MISSES /\ hits' \in 0..UDP_AFTER_HITS
BY DEF SessionTypeOK, LadderEndRound, Saturating, WSS_AFTER_UDP_MISSES, UDP_AFTER_HITS

LEMMA ProbeTypes ==
  ASSUME SessionTypeOK, NEW l, NEW h, NEW w, RegisterAndPing(l, h, w)
  PROVE  /\ udpOut' \subseteq {"REGISTER", "PING"}
         /\ queue' \in Seq({"REGISTER", "PING"}) /\ Len(queue') <= MaxQueue
<1>1. udpOut' \subseteq {"REGISTER", "PING"}
  BY DEF RegisterAndPing
<1> DEFINE probe == <<"REGISTER", "PING">>
<1>2. probe \in Seq({"REGISTER", "PING"}) /\ Len(probe) = 2
  OBVIOUS
<1> HIDE DEF probe
<1>3. queue \o probe \in Seq({"REGISTER", "PING"}) /\ Len(queue \o probe) = Len(queue) + 2
  BY <1>2, ConcatProperties DEF SessionTypeOK
<1>4. <<>> \in Seq({"REGISTER", "PING"}) /\ Len(<<>>) = 0
  OBVIOUS
<1>5. queue' \in {<<>>, queue} \/ (queue' = queue \o probe /\ Len(queue) + 2 <= MaxQueue)
  BY DEF RegisterAndPing, probe
<1>6. CASE queue' = <<>>
  BY <1>1, <1>4, <1>6, SessionAssumption
<1>7. CASE queue' = queue
  BY <1>1, <1>7 DEF SessionTypeOK
<1>8. CASE queue' = queue \o probe /\ Len(queue) + 2 <= MaxQueue
  BY <1>1, <1>3, <1>8
<1> QED
  BY <1>5, <1>6, <1>7, <1>8

LEMMA SessionStepIInv == SessionIInv /\ [SessionNext]_sessionVars => SessionIInv'
<1> SUFFICES ASSUME SessionIInv, [SessionNext]_sessionVars PROVE SessionIInv'
  OBVIOUS
<1> USE SessionAssumption DEF SessionIInv, SessionInv, NoLeakedConnection, ConnectsAlone
<1>1. CASE EndRound
  <2>1. SessionTypeOK'
    <3>1. alive' \subseteq Streams /\ wss' \in Streams \cup {None} /\ connecting' \in {"yes", "no"}
      BY <1>1 DEF EndRound, Connecting, SessionTypeOK
    <3>2. udpIn' = udpIn
      BY <1>1 DEF EndRound
    <3> QED
      BY <1>1, <3>1, <3>2, LadderTypes, ProbeTypes DEF EndRound, SessionTypeOK
  <2>2. NoLeakedConnection' /\ ConnectsAlone'
    BY <1>1 DEF EndRound, Connecting, SessionTypeOK
  <2> QED
    BY <2>1, <2>2
<1>2. ASSUME NEW s \in Streams, ConnectDone(s) PROVE SessionIInv'
  <2>1. SessionTypeOK'
    <3>1. alive' \subseteq Streams /\ wss' \in Streams \cup {None} /\ connecting' \in {"yes", "no"}
      BY <1>2 DEF ConnectDone, SessionTypeOK
    <3>2. UNCHANGED <<link, answered, misses, hits, udpIn>>
      BY <1>2 DEF ConnectDone, ladderVars
    <3> QED
      BY <1>2, <3>1, <3>2, ProbeTypes DEF ConnectDone, SessionTypeOK
  <2>2. NoLeakedConnection' /\ ConnectsAlone'
    BY <1>2 DEF ConnectDone
  <2> QED
    BY <2>1, <2>2
<1>3. CASE ConnectFail
  BY <1>3 DEF ConnectFail, SessionTypeOK, ladderVars, sessionNetVars
<1>4. CASE WssBreak
  BY <1>4 DEF WssBreak, SessionTypeOK, ladderVars, sessionNetVars
<1>5. CASE HubUdpRegister
  BY <1>5 DEF HubUdpRegister, SessionTypeOK, ladderVars, wssVars
<1>6. CASE HubUdpPing
  BY <1>6 DEF HubUdpPing, SessionTypeOK, ladderVars, wssVars
<1>7. ASSUME NEW s \in Streams, HubWssFrame(s) PROVE SessionIInv'
  <2>1. queue' \in Seq({"REGISTER", "PING"}) /\ Len(queue') <= MaxQueue
    BY <1>7 DEF HubWssFrame, SessionTypeOK
  <2> QED
    BY <1>7, <2>1 DEF HubWssFrame, SessionTypeOK, ladderVars, sessionNetVars
<1>8. ASSUME NEW s \in Streams, HubClosed(s) PROVE SessionIInv'
  BY <1>8 DEF HubClosed, SessionTypeOK, ladderVars, wssVars, sessionNetVars
<1>9. CASE RecvObserved
  BY <1>9 DEF RecvObserved, SessionTypeOK, wssVars
<1>10. CASE Lose
  BY <1>10 DEF Lose, SessionTypeOK, ladderVars, wssVars
<1>11. CASE NetChange
  BY <1>11 DEF NetChange, SessionTypeOK, ladderVars, wssVars
<1>12. CASE UNCHANGED sessionVars
  BY <1>12 DEF sessionVars, ladderVars, wssVars, sessionNetVars, SessionTypeOK
<1> QED
  BY <1>1, <1>2, <1>3, <1>4, <1>5, <1>6, <1>7, <1>8, <1>9, <1>10, <1>11, <1>12
     DEF SessionNext, Deliver

(* Whatever order connects, link changes and breaks come in, the agent     *)
(* keeps no connection open but the one it uses (relay_client.rs), for any *)
(* number of connections and any queue.                                    *)
THEOREM SessionAlwaysHolds == SessionSpec => []SessionInv
<1>1. SessionIInv => SessionInv
  BY DEF SessionIInv
<1> QED
  BY SessionInitIInv, SessionStepIInv, <1>1, PTL DEF SessionSpec

LEMMA SessionStepIsHubStep == [SessionNext]_sessionVars => [Hub!HubNext]_(Hub!hubVars)
<1> SUFFICES ASSUME [SessionNext]_sessionVars PROVE Hub!HubNext \/ UNCHANGED hubVars
  BY DEF hubVars, Hub!hubVars
<1>1. CASE EndRound
  BY <1>1 DEF EndRound
<1>2. ASSUME NEW s \in Streams, ConnectDone(s) PROVE Hub!HubNext
  BY <1>2 DEF ConnectDone, Hub!HubNext
<1>3. CASE ConnectFail \/ WssBreak \/ RecvObserved \/ Lose \/ NetChange
  BY <1>3 DEF ConnectFail, WssBreak, RecvObserved, Lose, NetChange
<1>4. CASE HubUdpRegister
  <2>1. Hub!Register(Self, CapabilityExpiry, Udp) /\ CapabilityExpiry \in 1..(0 + 1)
    BY <1>4 DEF HubUdpRegister, CapabilityExpiry
  <2> QED
    BY <2>1 DEF Hub!HubNext, Hub!Addrs
<1>5. CASE HubUdpPing
  BY <1>5 DEF HubUdpPing, Hub!HubNext, Hub!Addrs
<1>6. ASSUME NEW s \in Streams, HubWssFrame(s) PROVE Hub!HubNext
  <2>1. CapabilityExpiry \in 1..(0 + 1)
    BY DEF CapabilityExpiry
  <2> QED
    BY <1>6, <2>1 DEF HubWssFrame, Hub!HubNext, Hub!Addrs
<1>7. ASSUME NEW s \in Streams, HubClosed(s) PROVE Hub!HubNext
  BY <1>7 DEF HubClosed, Hub!HubNext
<1>8. CASE UNCHANGED sessionVars
  BY <1>8 DEF sessionVars
<1> QED
  BY <1>1, <1>2, <1>3, <1>4, <1>5, <1>6, <1>7, <1>8 DEF SessionNext, Deliver

(* The relay inside the session is the relay: every behaviour of the       *)
(* composition is, seen from the relay's tables, one of RelayHub, so the   *)
(* theorems about RelayHub hold in it.                                     *)
THEOREM SessionImplementsHub == SessionSpec => RelayServesSession
<1>1. SessionInit => Hub!HubInit
  BY DEF SessionInit
<1> QED
  BY <1>1, SessionStepIsHubStep, PTL DEF SessionSpec, RelayServesSession, Hub!HubSpec
-----------------------------------------------------------------------------
(* Remote jobs.                                                            *)

AgentState == [step : {"idle"}, run : {NoJob}]
                \cup [step : {"claiming", "running"}, run : Runs]
                \cup [step : {"ended"}, run : Runs, status : EndStates]
RunRow == [status : EndStates \cup {"none", "pending_approval", "approved", "rejected", "running"},
           cancel : BOOLEAN, key : JobKeys \cup {NoJob},
           expires : 0..MaxJobClock + JOB_CLAIM_WINDOW_SECS]

JobTypes ==
  /\ runs \in [Runs -> RunRow] /\ template \in {"none", "enabled", "disabled"}
  /\ agent \in AgentState /\ fetched \subseteq Runs /\ withdrawn \subseteq Runs
  /\ jobKey \in JobKeys /\ published \in JobKeys /\ pin \in JobKeys \cup {NoJob}
  /\ DOMAIN remembered \subseteq Runs /\ \A r \in DOMAIN remembered : remembered[r] \in Nat
  /\ executed \in [Runs -> Nat] /\ jobClock \in 0..MaxJobClock

(* The device refuses the run from now on: the signature has expired or    *)
(* remote-jobs-runs.json has the run until it does.                        *)
Burnt(r) == \/ runs[r].expires <= jobClock
            \/ r \in DOMAIN remembered /\ remembered[r] = runs[r].expires
(* approve_run(), which alone sets an expiry, is behind the run.           *)
Signed(r) == runs[r].status \notin {"none", "pending_approval"}

ExecutedAreBurnt == \A r \in Runs : executed[r] # 0 => executed[r] = 1 /\ Signed(r) /\ Burnt(r)
FetchedAreSigned == \A r \in fetched : Signed(r)
ClaimedIsFresh ==
  agent.step = "claiming" => /\ executed[agent.run] = 0
                             /\ Signed(agent.run) /\ Burnt(agent.run)
WithdrawnStayClosed ==
  \A r \in withdrawn : executed[r] = 0 /\ runs[r].status \in {"rejected", "cancelled"}

JobsIInv == JobTypes /\ ExecutedAreBurnt /\ FetchedAreSigned /\ ClaimedIsFresh /\ WithdrawnStayClosed

LEMMA JobsInitIInv == JobsInit => JobsIInv
<1> SUFFICES ASSUME JobsInit PROVE JobsIInv
  OBVIOUS
<1> USE JobsAssumption DEF JobsInit
<1>1. NewRun \in RunRow
  BY DEF NewRun, RunRow
<1>2. agent \in AgentState
  BY DEF AgentState
<1>3. JobTypes
  BY <1>1, <1>2 DEF JobTypes
<1> QED
  BY <1>3 DEF JobsIInv, ExecutedAreBurnt, FetchedAreSigned, ClaimedIsFresh, WithdrawnStayClosed

(* What any step may do to the row of a run, besides ending it.            *)
Kept(r) == /\ runs'[r].expires = runs[r].expires \/ runs[r].status = "pending_approval"
           /\ Signed(r) => Signed(r)'
           /\ runs[r].status \in EndStates \cup {"rejected"}
                => runs'[r].status \in {runs[r].status, "approved"}
           /\ r \in withdrawn => runs'[r].status = runs[r].status

LEMMA RunRows ==
  ASSUME JobsIInv, [JobsNext]_jobVars
  PROVE  runs' \in [Runs -> RunRow] /\ \A r \in Runs : Kept(r)
<1> USE JobsAssumption DEF JobsIInv, JobTypes, EndStates
<1>1. CASE UNCHANGED runs
  BY <1>1 DEF Kept, Signed, RunRow
<1> DEFINE Only(r, row) == runs' = [runs EXCEPT ![r] = row]
<1>2. ASSUME NEW r \in Runs, NEW row \in RunRow, Only(r, row),
             row.expires = runs[r].expires \/ runs[r].status = "pending_approval",
             Signed(r) => row.status \notin {"none", "pending_approval"},
             runs[r].status \in EndStates \cup {"rejected"} => row.status \in {runs[r].status, "approved"},
             r \in withdrawn => row.status = runs[r].status
      PROVE  runs' \in [Runs -> RunRow] /\ \A q \in Runs : Kept(q)
  <2>1. runs' \in [Runs -> RunRow] /\ runs'[r] = row
    BY <1>2
  <2>2. ASSUME NEW q \in Runs PROVE Kept(q)
    <3>1. CASE q = r
      BY <1>2, <2>1, <3>1 DEF Kept, Signed
    <3>2. CASE q # r
      <4>1. runs'[q] = runs[q]
        BY <1>2, <3>2
      <4> QED
        BY <4>1 DEF Kept, Signed
    <3> QED
      BY <3>1, <3>2
  <2> QED
    BY <2>1, <2>2
<1> HIDE DEF Only
<1>3. ASSUME NEW r \in Runs, NEW st \in EndStates \cup {"pending_approval", "approved", "rejected", "running"}
      PROVE  LET row == [runs[r] EXCEPT !.status = st]
             IN row \in RunRow /\ row.status = st /\ row.expires = runs[r].expires
  BY <1>3 DEF RunRow
<1>4. ASSUME NEW r \in Runs, RequestRun(r) PROVE runs' \in [Runs -> RunRow] /\ \A q \in Runs : Kept(q)
  <2>1. Only(r, [runs[r] EXCEPT !.status = "pending_approval"])
    BY <1>4 DEF RequestRun, Only
  <2> QED
    BY <1>2, <1>3, <1>4, <2>1 DEF RequestRun, Signed, WithdrawnStayClosed
<1>5. ASSUME NEW r \in Runs, ApproveRun(r) PROVE runs' \in [Runs -> RunRow] /\ \A q \in Runs : Kept(q)
  <2> DEFINE until == jobClock + JOB_CLAIM_WINDOW_SECS
             a == [runs[r] EXCEPT !.status = "approved"]
             b == [a EXCEPT !.key = jobKey]
             d == [b EXCEPT !.expires = until]
  <2>1. until \in 0..MaxJobClock + JOB_CLAIM_WINDOW_SECS
    OBVIOUS
  <2>2. a \in RunRow /\ a.status = "approved"
    BY <1>3
  <2>3. Only(r, d)
    BY <1>5 DEF ApproveRun, Only, RunRow
  <2> HIDE DEF until, a
  <2>4. b \in RunRow /\ b.status = "approved"
    BY <2>2 DEF RunRow
  <2> HIDE DEF b
  <2>5. d \in RunRow /\ d.status = "approved"
    BY <2>1, <2>4 DEF RunRow
  <2> HIDE DEF d
  <2> QED
    BY <1>2, <1>5, <2>3, <2>5 DEF ApproveRun, Signed, WithdrawnStayClosed
<1>6. ASSUME NEW r \in Runs, RejectRun(r) PROVE runs' \in [Runs -> RunRow] /\ \A q \in Runs : Kept(q)
  <2>1. Only(r, [runs[r] EXCEPT !.status = "rejected"])
    BY <1>6 DEF RejectRun, Only
  <2> QED
    BY <1>2, <1>3, <1>6, <2>1 DEF RejectRun, Signed, WithdrawnStayClosed
<1>7. ASSUME NEW r \in Runs, CancelRun(r) PROVE runs' \in [Runs -> RunRow] /\ \A q \in Runs : Kept(q)
  <2> DEFINE flagged == [runs[r] EXCEPT !.cancel = TRUE]
             gone == [runs[r] EXCEPT !.status = "cancelled"]
             both == [gone EXCEPT !.cancel = TRUE]
  <2>1. flagged \in RunRow /\ flagged.status = runs[r].status /\ flagged.expires = runs[r].expires
    BY DEF RunRow
  <2>2. gone \in RunRow /\ gone.status = "cancelled" /\ gone.expires = runs[r].expires
    BY <1>3
  <2>3. \/ Only(r, flagged) /\ runs[r].status = "running"
        \/ Only(r, both) /\ runs[r].status \in {"pending_approval", "approved"}
    BY <1>7 DEF CancelRun, Only, RunRow
  <2> HIDE DEF gone, flagged
  <2>4. both \in RunRow /\ both.status = "cancelled" /\ both.expires = runs[r].expires
    BY <2>2 DEF RunRow
  <2> HIDE DEF both
  <2>5. CASE Only(r, flagged) /\ runs[r].status = "running"
    BY <1>2, <2>1, <2>5 DEF Signed
  <2>6. CASE Only(r, both) /\ runs[r].status \in {"pending_approval", "approved"}
    BY <1>2, <2>4, <2>6 DEF Signed, WithdrawnStayClosed
  <2> QED
    BY <2>3, <2>5, <2>6
<1>8. ASSUME NEW r \in Runs, ClaimJob(r) PROVE runs' \in [Runs -> RunRow] /\ \A q \in Runs : Kept(q)
  <2>1. CASE UNCHANGED runs
    BY <1>1, <2>1
  <2>2. CASE runs[r].status = "approved" /\ Only(r, [runs[r] EXCEPT !.status = "running"])
    <3> DEFINE row == [runs[r] EXCEPT !.status = "running"]
    <3>1. row \in RunRow /\ row.status = "running" /\ row.expires = runs[r].expires
      BY <1>3
    <3>2. r \notin withdrawn
      BY <2>2 DEF WithdrawnStayClosed
    <3>3. Only(r, row)
      BY <2>2
    <3> HIDE DEF row
    <3> QED
      BY <1>2, <2>2, <3>1, <3>2, <3>3 DEF Signed
  <2>3. \/ UNCHANGED runs
        \/ runs[r].status = "approved" /\ runs' = [runs EXCEPT ![r].status = "running"]
    BY <1>8, Zenon DEF ClaimJob
  <2>4. runs' = [runs EXCEPT ![r].status = "running"] => Only(r, [runs[r] EXCEPT !.status = "running"])
    BY DEF Only
  <2> QED
    BY <2>1, <2>2, <2>3, <2>4
<1>9. ASSUME NEW r \in Runs, PostResult(r) PROVE runs' \in [Runs -> RunRow] /\ \A q \in Runs : Kept(q)
  <2>1. CASE UNCHANGED runs
    BY <1>1, <2>1
  <2>2. CASE /\ runs[r].status = "running" /\ agent.status \in EndStates
             /\ Only(r, [runs[r] EXCEPT !.status = agent.status])
    <3> DEFINE row == [runs[r] EXCEPT !.status = agent.status]
    <3>1. row \in RunRow /\ row.status = agent.status /\ row.expires = runs[r].expires
      BY <1>3, <2>2
    <3>2. r \notin withdrawn
      BY <2>2 DEF WithdrawnStayClosed
    <3>3. Only(r, row)
      BY <2>2
    <3> HIDE DEF row
    <3> QED
      BY <1>2, <2>2, <3>1, <3>2, <3>3 DEF Signed
  <2>3. agent.status \in EndStates
    BY <1>9 DEF PostResult, AgentState
  <2>4. \/ UNCHANGED runs
        \/ runs[r].status = "running" /\ runs' = [runs EXCEPT ![r].status = agent.status]
    BY <1>9, Zenon DEF PostResult, StoreResult
  <2>5. runs' = [runs EXCEPT ![r].status = agent.status] => Only(r, [runs[r] EXCEPT !.status = agent.status])
    BY DEF Only
  <2> QED
    BY <2>1, <2>2, <2>3, <2>4, <2>5
<1>10. ASSUME NEW r \in Runs, Reoffer(r) PROVE runs' \in [Runs -> RunRow] /\ \A q \in Runs : Kept(q)
  <2> DEFINE a == [runs[r] EXCEPT !.status = "approved"]
             b == [a EXCEPT !.cancel = FALSE]
  <2>1. a \in RunRow /\ a.status = "approved" /\ a.expires = runs[r].expires
    BY <1>3
  <2>2. Only(r, b)
    BY <1>10 DEF Reoffer, Only, RunRow
  <2> HIDE DEF a
  <2>3. b \in RunRow /\ b.status = "approved" /\ b.expires = runs[r].expires
    BY <2>1 DEF RunRow
  <2> HIDE DEF b
  <2> QED
    BY <1>2, <1>10, <2>2, <2>3 DEF Reoffer
<1>11. CASE UNCHANGED jobVars
  BY <1>1, <1>11 DEF jobVars, jobCoordVars
<1>12. CASE CreateTemplate \/ DisableTemplate \/ PollOnce \/ PeerMapKey \/ JobTick \/ AgentCrash \/ NewSecret \/ DeviceChange
  BY <1>1, <1>12 DEF CreateTemplate, DisableTemplate, PollOnce, PeerMapKey, JobTick, AgentCrash,
     NewSecret, DeviceChange, jobCoordVars
<1>13. ASSUME NEW r \in Runs, TakeJob(r) \/ ExecuteTimeout(r) \/ \E st \in EndStates \ {"timed_out"} : ExecuteEnd(r, st)
       PROVE  runs' \in [Runs -> RunRow] /\ \A q \in Runs : Kept(q)
  BY <1>1, <1>13 DEF TakeJob, ExecuteTimeout, ExecuteEnd, jobCoordVars
<1> QED
  BY <1>4, <1>5, <1>6, <1>7, <1>8, <1>9, <1>10, <1>11, <1>12, <1>13 DEF JobsNext

LEMMA JobTypesStep ==
  ASSUME JobsIInv, [JobsNext]_jobVars
  PROVE  JobTypes'
<1> USE JobsAssumption DEF JobsIInv, JobTypes
<1>1. runs' \in [Runs -> RunRow]
  BY RunRows
<1>2. CASE UNCHANGED jobVars
  BY <1>1, <1>2 DEF jobVars, jobCoordVars, agentVars
<1>3. CASE CreateTemplate \/ DisableTemplate \/ PeerMapKey \/ JobTick \/ NewSecret \/ DeviceChange
  BY <1>1, <1>3 DEF CreateTemplate, DisableTemplate, PeerMapKey, JobTick, NewSecret, DeviceChange,
     jobCoordVars, agentVars
<1>4. CASE PollOnce
  BY <1>1, <1>4 DEF PollOnce, jobCoordVars
<1>5. CASE AgentCrash
  BY <1>1, <1>5 DEF AgentCrash, Abandon, AgentIdle, AgentState, jobCoordVars
<1>6. ASSUME NEW r \in Runs, RequestRun(r) \/ ApproveRun(r) \/ RejectRun(r) \/ CancelRun(r) \/ Reoffer(r)
      PROVE  JobTypes'
  BY <1>1, <1>6 DEF RequestRun, ApproveRun, RejectRun, CancelRun, Reoffer, agentVars
<1>7. ASSUME NEW r \in Runs, TakeJob(r) PROVE JobTypes'
  <2>1. runs[r].expires \in Nat
    BY DEF RunRow
  <2>2. DOMAIN Remember(r) \subseteq Runs /\ \A x \in DOMAIN Remember(r) : Remember(r)[x] \in Nat
    BY <2>1 DEF Remember
  <2>3. [step |-> "claiming", run |-> r] \in AgentState
    BY DEF AgentState
  <2>4. /\ UNCHANGED <<remembered, agent>> \/ (remembered' = Remember(r) /\ agent' = [step |-> "claiming", run |-> r])
        /\ fetched' = fetched \ {r}
        /\ UNCHANGED <<jobCoordVars, published, pin, executed, jobClock>>
    BY <1>7, Zenon DEF TakeJob
  <2> QED
    BY <1>1, <2>2, <2>3, <2>4 DEF jobCoordVars
<1>8. ASSUME NEW r \in Runs, ClaimJob(r) PROVE JobTypes'
  <2>1. [step |-> "running", run |-> r] \in AgentState /\ AgentIdle \in AgentState
    BY DEF AgentState, AgentIdle
  <2>2. /\ agent' \in {AgentIdle, [step |-> "running", run |-> r]}
        /\ executed' \in {executed, [executed EXCEPT ![r] = @ + 1]}
        /\ fetched' \in {{}, fetched}
        /\ UNCHANGED <<template, jobKey, withdrawn, published, pin, remembered, jobClock>>
    BY <1>8 DEF ClaimJob, Abandon
  <2> QED
    BY <1>1, <2>1, <2>2
<1>9. ASSUME NEW r \in Runs, NEW st \in EndStates, (ExecuteTimeout(r) /\ st = "timed_out") \/ ExecuteEnd(r, st)
      PROVE  JobTypes'
  <2>1. [step |-> "ended", run |-> r, status |-> st] \in AgentState
    BY DEF AgentState
  <2> QED
    BY <1>1, <1>9, <2>1 DEF ExecuteTimeout, ExecuteEnd, jobCoordVars
<1>10. ASSUME NEW r \in Runs, PostResult(r) PROVE JobTypes'
  BY <1>1, <1>10 DEF PostResult, AgentIdle, AgentState
<1> QED
  BY <1>2, <1>3, <1>4, <1>5, <1>6, <1>7, <1>8, <1>9, <1>10 DEF JobsNext, EndStates

LEMMA JobsStepIInv == JobsIInv /\ [JobsNext]_jobVars => JobsIInv'
<1> SUFFICES ASSUME JobsIInv, [JobsNext]_jobVars PROVE JobsIInv'
  OBVIOUS
<1>1. JobTypes' /\ \A r \in Runs : Kept(r)
  BY JobTypesStep, RunRows
(* What is burnt stays so unless the file of runs forgets it.              *)
<1>2. ASSUME NEW r \in Runs, Signed(r), Burnt(r), jobClock' \in {jobClock, jobClock + 1}, UNCHANGED remembered
      PROVE  Burnt(r)'
  <2>1. runs'[r].expires = runs[r].expires /\ runs[r].expires \in Nat /\ jobClock \in Nat
    BY <1>1, <1>2, JobsAssumption DEF Kept, Signed, JobsIInv, JobTypes, RunRow
  <2> QED
    BY <1>2, <2>1 DEF Burnt
(* A step that starts nothing.                                             *)
<1>3. ASSUME UNCHANGED <<executed, remembered>>, jobClock' \in {jobClock, jobClock + 1},
             agent' = agent \/ agent'.step # "claiming",
             fetched' \subseteq fetched \cup {r \in Runs : runs[r].status = "approved"},
             \A r \in withdrawn' \ withdrawn : executed[r] = 0 /\ runs'[r].status \in {"rejected", "cancelled"}
      PROVE  JobsIInv'
  <2>1. ExecutedAreBurnt'
    BY <1>1, <1>2, <1>3 DEF ExecutedAreBurnt, JobsIInv, Kept
  <2>2. FetchedAreSigned'
    BY <1>1, <1>3 DEF FetchedAreSigned, JobsIInv, JobTypes, Kept, Signed
  <2>3. ClaimedIsFresh'
    <3>1. CASE agent' = agent /\ agent.step = "claiming"
      <4>1. agent.run \in Runs
        BY <3>1 DEF JobsIInv, JobTypes, AgentState
      <4> QED
        BY <1>1, <1>2, <1>3, <3>1, <4>1 DEF ClaimedIsFresh, JobsIInv, Kept
    <3> QED
      BY <1>3, <3>1 DEF ClaimedIsFresh
  <2>4. WithdrawnStayClosed'
    BY <1>1, <1>3 DEF WithdrawnStayClosed, JobsIInv, JobTypes, Kept
  <2> QED
    BY <1>1, <2>1, <2>2, <2>3, <2>4 DEF JobsIInv
<1>4. CASE UNCHANGED jobVars
  BY <1>3, <1>4 DEF jobVars, jobCoordVars, agentVars
<1>5. CASE CreateTemplate \/ DisableTemplate \/ PeerMapKey \/ JobTick \/ NewSecret \/ DeviceChange
  BY <1>3, <1>5 DEF CreateTemplate, DisableTemplate, PeerMapKey, JobTick, NewSecret, DeviceChange,
     jobCoordVars, agentVars
<1>6. CASE PollOnce
  <2>1. \A r \in fetched' : r \in Runs /\ runs[r].status = "approved"
    BY <1>6 DEF PollOnce, ShownStatus
  <2> QED
    BY <1>3, <1>6, <2>1 DEF PollOnce, jobCoordVars
<1>7. CASE AgentCrash
  BY <1>3, <1>7 DEF AgentCrash, Abandon, AgentIdle, jobCoordVars
<1>8. ASSUME NEW r \in Runs, RequestRun(r) \/ ApproveRun(r) \/ Reoffer(r) PROVE JobsIInv'
  BY <1>3, <1>8 DEF RequestRun, ApproveRun, Reoffer, agentVars
<1>9. ASSUME NEW r \in Runs, RejectRun(r) PROVE JobsIInv'
  <2>1. executed[r] = 0
    BY <1>9 DEF RejectRun, JobsIInv, ExecutedAreBurnt, Signed
  <2>2. runs'[r].status = "rejected"
    BY <1>9 DEF RejectRun, JobsIInv, JobTypes, RunRow
  <2> QED
    BY <1>3, <1>9, <2>1, <2>2 DEF RejectRun, agentVars
<1>10. ASSUME NEW r \in Runs, CancelRun(r) PROVE JobsIInv'
  <2>1. \A q \in withdrawn' \ withdrawn : q = r /\ executed[r] = 0 /\ runs[r].status \in {"pending_approval", "approved"}
    BY <1>10 DEF CancelRun
  <2>2. runs[r].status \in {"pending_approval", "approved"} => runs'[r].status = "cancelled"
    BY <1>10 DEF CancelRun, JobsIInv, JobTypes, RunRow
  <2> QED
    BY <1>3, <1>10, <2>1, <2>2 DEF CancelRun, agentVars
<1>11. ASSUME NEW r \in Runs, NEW st \in EndStates, ExecuteTimeout(r) \/ ExecuteEnd(r, st) PROVE JobsIInv'
  BY <1>3, <1>11 DEF ExecuteTimeout, ExecuteEnd, jobCoordVars
<1>12. ASSUME NEW r \in Runs, PostResult(r) PROVE JobsIInv'
  BY <1>3, <1>12 DEF PostResult, AgentIdle
<1>13. ASSUME NEW r \in Runs, TakeJob(r) PROVE JobsIInv'
  <2>1. CASE UNCHANGED <<remembered, agent>>
    BY <1>3, <1>13, <2>1 DEF TakeJob, jobCoordVars
  <2>2. CASE /\ runs[r].expires > jobClock /\ ~(r \in DOMAIN remembered /\ remembered[r] > jobClock)
             /\ remembered' = Remember(r) /\ agent' = [step |-> "claiming", run |-> r]
    <3>1. /\ UNCHANGED <<runs, withdrawn, executed, jobClock>> /\ fetched' \subseteq fetched
          /\ jobClock \in Nat /\ \A q \in Runs : runs[q].expires \in Nat
          /\ r \in fetched
      BY <1>13, JobsAssumption DEF TakeJob, jobCoordVars, JobsIInv, JobTypes, RunRow
    <3>2. ASSUME NEW q \in Runs, Burnt(q) PROVE Burnt(q)'
      <4>1. CASE q = r
        BY <2>2, <3>1, <4>1 DEF Remember, Burnt
      <4>2. CASE q # r /\ runs[q].expires > jobClock
        <5>1. q \in DOMAIN remembered /\ remembered[q] = runs[q].expires
          BY <3>1, <3>2, <4>2 DEF Burnt
        <5> QED
          BY <2>2, <3>1, <4>2, <5>1 DEF Remember, Burnt
      <4>3. CASE runs[q].expires <= jobClock
        BY <3>1, <4>3 DEF Burnt
      <4> QED
        BY <3>1, <4>1, <4>2, <4>3
    <3>3. Burnt(r)' /\ ~Burnt(r)
      BY <2>2, <3>1 DEF Remember, Burnt
    <3>4. executed[r] = 0 /\ Signed(r)
      BY <3>1, <3>3 DEF JobsIInv, ExecutedAreBurnt, FetchedAreSigned
    <3>5. ExecutedAreBurnt'
      BY <3>1, <3>2 DEF JobsIInv, ExecutedAreBurnt, Signed
    <3>6. ClaimedIsFresh'
      BY <2>2, <3>1, <3>3, <3>4 DEF ClaimedIsFresh, Signed
    <3> QED
      BY <1>1, <3>1, <3>5, <3>6 DEF JobsIInv, FetchedAreSigned, WithdrawnStayClosed, Signed
  <2> QED
    BY <1>13, <2>1, <2>2 DEF TakeJob, JobsIInv, JobTypes, RunRow
<1>14. ASSUME NEW r \in Runs, ClaimJob(r) PROVE JobsIInv'
  <2>1. CASE UNCHANGED executed
    BY <1>3, <1>14, <2>1 DEF ClaimJob, Abandon, AgentIdle
  <2>2. CASE /\ runs[r].status = "approved" /\ runs' = [runs EXCEPT ![r].status = "running"]
             /\ agent' = [step |-> "running", run |-> r]
             /\ executed' = [executed EXCEPT ![r] = @ + 1] /\ UNCHANGED fetched
    <3>1. /\ UNCHANGED <<withdrawn, remembered, jobClock>> /\ agent.step = "claiming" /\ agent.run = r
          /\ executed \in [Runs -> Nat]
      BY <1>14 DEF ClaimJob, JobsIInv, JobTypes
    <3>2. executed[r] = 0 /\ Signed(r) /\ Burnt(r)
      BY <3>1 DEF JobsIInv, ClaimedIsFresh
    <3>3. ASSUME NEW q \in Runs, executed'[q] # 0 PROVE executed'[q] = 1 /\ Signed(q) /\ Burnt(q)
      BY <2>2, <3>1, <3>2, <3>3 DEF JobsIInv, ExecutedAreBurnt
    <3>4. ExecutedAreBurnt'
      BY <1>1, <1>2, <3>1, <3>3 DEF ExecutedAreBurnt, Kept
    <3>5. r \notin withdrawn
      BY <2>2 DEF JobsIInv, WithdrawnStayClosed
    <3>6. WithdrawnStayClosed'
      BY <1>1, <2>2, <3>1, <3>5 DEF JobsIInv, JobTypes, WithdrawnStayClosed, Kept
    <3>7. FetchedAreSigned' /\ ClaimedIsFresh'
      BY <1>1, <2>2 DEF FetchedAreSigned, ClaimedIsFresh, JobsIInv, JobTypes, Kept
    <3> QED
      BY <1>1, <3>4, <3>6, <3>7 DEF JobsIInv
  <2>3. \/ UNCHANGED executed
        \/ /\ runs[r].status = "approved" /\ runs' = [runs EXCEPT ![r].status = "running"]
           /\ agent' = [step |-> "running", run |-> r]
           /\ executed' = [executed EXCEPT ![r] = @ + 1] /\ UNCHANGED fetched
    BY <1>14, Zenon DEF ClaimJob
  <2> QED
    BY <2>1, <2>2, <2>3
<1> QED
  BY <1>4, <1>5, <1>6, <1>7, <1>8, <1>9, <1>10, <1>11, <1>12, <1>13, <1>14 DEF JobsNext, EndStates

LEMMA JobsInvariant == JobsSpec => []JobsIInv
BY JobsInitIInv, JobsStepIInv, PTL DEF JobsSpec

(* A run starts at most once and never after it was withdrawn, through     *)
(* crashes of the agent, lost claims and a coordinator that offers it      *)
(* again (remote.rs remember_run before claim_job), and its outcome is     *)
(* never overwritten: for any number of runs and any claim window.         *)
THEOREM JobsAlwaysHold == JobsSpec => JobsHold
<1>1. JobsIInv => JobsTypeOK /\ ExecutedAtMostOnce /\ WithdrawnNeverRuns
  <2> SUFFICES ASSUME JobsIInv PROVE JobsTypeOK /\ ExecutedAtMostOnce /\ WithdrawnNeverRuns
    OBVIOUS
  <2>1. JobsTypeOK
    BY DEF JobsIInv, JobTypes, JobsTypeOK, RunRow, AgentState
  <2>2. ExecutedAtMostOnce
    BY DEF JobsIInv, JobTypes, ExecutedAreBurnt, ExecutedAtMostOnce
  <2>3. WithdrawnNeverRuns
    BY DEF JobsIInv, WithdrawnStayClosed, WithdrawnNeverRuns
  <2> QED
    BY <2>1, <2>2, <2>3
<1>2. JobsIInv /\ [JobsNext]_jobVars =>
        [\A r \in Runs : runs[r].status \in EndStates \cup {"rejected"}
           => runs'[r].status \in {runs[r].status, "approved"}]_jobVars
  BY RunRows DEF Kept
<1> QED
  BY <1>1, <1>2, JobsInvariant, PTL DEF JobsSpec, JobsHold, OutcomeFinal
-----------------------------------------------------------------------------
(* Remote sessions.                                                        *)

Away == [step : {"idle", "closed"}]
Redeeming == [step : {"redeeming"}, session : SessionIds, gateway : Gateways]
Begun == [step : {"starting", "live", "ending"}, session : SessionIds, gateway : Gateways,
          key : HostKeys \cup {Nobody}, deadline : Nat, began : Nat]
Reported == [step : {"reporting", "live", "ending"}, session : SessionIds, gateway : Gateways,
             key : HostKeys \cup {Nobody}, deadline : Nat, began : Nat, saw : BOOLEAN]
ConnState == Away \cup Redeeming \cup Begun \cup Reported
Pin == [pinned : HostKeys \cup {Nobody}, pending : HostKeys \cup {Nobody}]

RemoteTypes ==
  /\ raGateway \in Gateways \cup {Nobody}
  /\ rows \in [SessionIds -> Row \cup {Nobody}]
  /\ asks \in [SessionIds -> Ask \cup {Nobody}]
  /\ pins \in [Targets -> Pin] /\ vouched \in [Targets -> SUBSET HostKeys]
  /\ hostKey \in [Targets -> HostKeys]
  /\ endAudits \in [SessionIds -> Nat]
  /\ conns \in [Conns -> ConnState] /\ raClock \in 0..MaxClock

(* A request that will insert a row is the only one for that session.      *)
AsksAreFirst == \A s \in SessionIds : asks[s] # Nobody => rows[s] = Nobody

(* A pin was vouched for, and what was vouched for is pinned or was.       *)
PinsVouched ==
  \A t \in Targets : IF pins[t].pinned = Nobody THEN vouched[t] = {} ELSE pins[t].pinned \in vouched[t]

(* What the gateway knows of a session is what its row says: its ticket is *)
(* spent, its key was vouched for, and its deadline is the one issued.     *)
Backed(x) ==
  x.step \notin {"idle", "closed"} =>
    /\ rows[x.session] # Nobody /\ rows[x.session].redeemed
    /\ x.step # "redeeming" =>
         /\ x.deadline = rows[x.session].issued + SESSION_SECS
         /\ x.key # Nobody => x.key \in vouched[rows[x.session].target]
    /\ x.step \in {"live", "reporting"} => raClock <= x.deadline \/ raClock = x.began
ConnsBacked == \A c \in Conns : Backed(conns[c])

OneHolder == \A c, d \in Conns, s \in SessionIds : Holding(c, s) /\ Holding(d, s) => c = d

RemoteIInv == RemoteTypes /\ EndAuditedOnce /\ AsksAreFirst /\ PinsVouched /\ ConnsBacked /\ OneHolder

LEMMA RemoteInitIInv == RemoteInit => RemoteIInv
<1> SUFFICES ASSUME RemoteInit PROVE RemoteIInv
  OBVIOUS
<1> USE RemoteAssumption, NobodyAssumption DEF RemoteInit
<1>1. [pinned |-> Nobody, pending |-> Nobody] \in Pin /\ Idle \in ConnState
  BY DEF Pin, Idle, ConnState, Away
<1>2. RemoteTypes
  BY <1>1 DEF RemoteTypes
<1>3. \A c \in Conns : conns[c].step = "idle"
  BY DEF Idle
<1>4. EndAuditedOnce /\ AsksAreFirst /\ PinsVouched
  BY DEF EndAuditedOnce, AsksAreFirst, PinsVouched
<1> QED
  BY <1>2, <1>3, <1>4 DEF RemoteIInv, ConnsBacked, Backed, OneHolder, Holding

(* What no step changes of a row that is there.                            *)
RowKept(s) == rows[s] # Nobody => /\ rows'[s] # Nobody
                                  /\ rows'[s].issued = rows[s].issued
                                  /\ rows'[s].target = rows[s].target
                                  /\ rows[s].redeemed => rows'[s].redeemed

(* The connections that a step leaves alone stay backed.                   *)
LEMMA KeptConns ==
  ASSUME RemoteIInv, \A s \in SessionIds : RowKept(s),
         \A t \in Targets : vouched[t] \subseteq vouched'[t], raClock' = raClock,
         NEW c \in Conns, conns'[c] = conns[c]
  PROVE  Backed(conns[c])'
<1> DEFINE x == conns[c]
<1>1. x \in ConnState /\ Backed(x)
  BY DEF RemoteIInv, RemoteTypes, ConnsBacked
<1>2. CASE x.step \in {"idle", "closed"}
  BY <1>2 DEF Backed
<1>3. CASE x.step \notin {"idle", "closed"}
  <2>1. x.session \in SessionIds
    BY <1>1, <1>3 DEF ConnState, Away, Redeeming, Begun, Reported
  <2>2. RowKept(x.session) /\ rows[x.session] # Nobody
    BY <1>1, <1>3, <2>1 DEF Backed
  <2>3. rows[x.session].target \in Targets
    BY <2>1, <2>2 DEF RemoteIInv, RemoteTypes, Row
  <2> QED
    BY <1>1, <1>3, <2>2, <2>3 DEF Backed, RowKept
<1> QED
  BY <1>2, <1>3

(* end_session() and the other writes to one row.                          *)
LEMMA RowFields ==
  ASSUME NEW r \in Row, raClock \in 0..MaxClock
  PROVE  /\ LET e == [r EXCEPT !.ended = TRUE] IN
              e \in Row /\ e.ended /\ e.issued = r.issued /\ e.target = r.target
              /\ (e.redeemed <=> r.redeemed)
         /\ LET e == [r EXCEPT !.last = raClock] IN
              e \in Row /\ (e.ended <=> r.ended) /\ e.issued = r.issued /\ e.target = r.target
              /\ (e.redeemed <=> r.redeemed)
         /\ LET e == [r EXCEPT !.redeemed = TRUE] IN
              e \in Row /\ (e.ended <=> r.ended) /\ e.issued = r.issued /\ e.target = r.target
              /\ e.redeemed
         /\ LET e == [r EXCEPT !.revoked = TRUE] IN
              e \in Row /\ (e.ended <=> r.ended) /\ e.issued = r.issued /\ e.target = r.target
              /\ (e.redeemed <=> r.redeemed)
BY DEF Row

(* The coordinator's rows are in order after a step.                       *)
RowsInOrder ==
  /\ rows' \in [SessionIds -> Row \cup {Nobody}] /\ asks' \in [SessionIds -> Ask \cup {Nobody}]
  /\ endAudits' \in [SessionIds -> Nat] /\ EndAuditedOnce' /\ AsksAreFirst'
  /\ \A s \in SessionIds : RowKept(s)

LEMMA SameRows ==
  ASSUME RemoteIInv, UNCHANGED <<rows, endAudits>>,
         asks' \in [SessionIds -> Ask \cup {Nobody}],
         \A s \in SessionIds : asks'[s] # Nobody => asks[s] # Nobody \/ rows[s] = Nobody
  PROVE  RowsInOrder
BY DEF RowsInOrder, RemoteIInv, RemoteTypes, EndAuditedOnce, AsksAreFirst, RowKept

LEMMA OneRow ==
  ASSUME RemoteIInv, NEW s \in SessionIds, rows[s] # Nobody, NEW row \in Row,
         row.issued = rows[s].issued, row.target = rows[s].target,
         rows[s].redeemed => row.redeemed,
         rows' = [rows EXCEPT ![s] = row], UNCHANGED asks,
         \/ endAudits' = endAudits /\ (row.ended <=> rows[s].ended)
         \/ endAudits' = [endAudits EXCEPT ![s] = @ + 1] /\ row.ended /\ ~rows[s].ended
  PROVE  RowsInOrder
<1>1. rows' \in [SessionIds -> Row \cup {Nobody}] /\ rows'[s] = row /\ row # Nobody
  BY NobodyAssumption DEF RemoteIInv, RemoteTypes
<1>2. \A q \in SessionIds : q # s => rows'[q] = rows[q] /\ endAudits'[q] = endAudits[q]
  BY DEF RemoteIInv, RemoteTypes
<1>3. endAudits' \in [SessionIds -> Nat]
  BY DEF RemoteIInv, RemoteTypes
<1>4. endAudits'[s] = IF row.ended THEN 1 ELSE 0
  <2>1. endAudits[s] = IF rows[s].ended THEN 1 ELSE 0
    BY DEF RemoteIInv, EndAuditedOnce
  <2> QED
    BY <2>1 DEF RemoteIInv, RemoteTypes
<1>5. EndAuditedOnce'
  BY <1>1, <1>2, <1>4 DEF RemoteIInv, EndAuditedOnce
<1>6. AsksAreFirst'
  BY <1>1, <1>2 DEF RemoteIInv, AsksAreFirst
<1>7. \A q \in SessionIds : RowKept(q)
  BY <1>1, <1>2 DEF RowKept
<1> QED
  BY <1>1, <1>3, <1>5, <1>6, <1>7 DEF RowsInOrder, RemoteIInv, RemoteTypes

LEMMA RowIsThere ==
  ASSUME RemoteIInv, NEW c \in Conns, conns[c].step \notin {"idle", "closed"}
  PROVE  conns[c].session \in SessionIds /\ rows[conns[c].session] # Nobody /\ rows[conns[c].session] \in Row
<1>1. conns[c] \in ConnState /\ Backed(conns[c])
  BY DEF RemoteIInv, RemoteTypes, ConnsBacked
<1>2. conns[c].session \in SessionIds
  BY <1>1 DEF ConnState, Away, Redeeming, Begun, Reported
<1> QED
  BY <1>1, <1>2 DEF Backed, RemoteIInv, RemoteTypes

LEMMA EndedRow ==
  ASSUME RemoteIInv, NEW s \in SessionIds, rows[s] # Nobody, EndSession(s), UNCHANGED asks
  PROVE  RowsInOrder
<1>1. CASE rows[s].ended
  BY <1>1, SameRows DEF EndSession, RemoteIInv, RemoteTypes
<1>2. CASE ~rows[s].ended
  <2> DEFINE a == [rows[s] EXCEPT !.ended = TRUE]
             b == [a EXCEPT !.last = raClock]
  <2>1. rows[s] \in Row /\ raClock \in 0..MaxClock
    BY DEF RemoteIInv, RemoteTypes
  <2>2. a \in Row /\ a.ended /\ a.issued = rows[s].issued /\ a.target = rows[s].target
        /\ (a.redeemed <=> rows[s].redeemed)
    BY <2>1, RowFields
  <2>3. rows' = [rows EXCEPT ![s] = b] /\ endAudits' = [endAudits EXCEPT ![s] = @ + 1]
    BY <1>2, <2>1 DEF EndSession, RemoteIInv, RemoteTypes, Row
  <2> HIDE DEF a
  <2>4. b \in Row /\ b.ended /\ b.issued = rows[s].issued /\ b.target = rows[s].target
        /\ (b.redeemed <=> rows[s].redeemed)
    BY <2>1, <2>2, RowFields
  <2> HIDE DEF b
  <2> QED
    BY <1>2, <2>3, <2>4, OneRow
<1> QED
  BY <1>1, <1>2

LEMMA RowsStep ==
  ASSUME RemoteIInv, [RemoteNext]_remoteVars
  PROVE  RowsInOrder
<1>1. CASE UNCHANGED <<rows, endAudits, asks>>
  BY <1>1, SameRows DEF RemoteIInv, RemoteTypes
<1>2. ASSUME NEW s \in SessionIds, NEW t \in Targets, NEW kind \in Kinds, CreateCheck(s, t, kind)
      PROVE  RowsInOrder
  <2> DEFINE ask == [target |-> t, gateway |-> raGateway, kind |-> kind, step |-> "checked"]
  <2>1. ask \in Ask
    BY <1>2 DEF CreateCheck, Ask, RemoteIInv, RemoteTypes
  <2>2. UNCHANGED <<rows, endAudits>> /\ asks' = [asks EXCEPT ![s] = ask] /\ rows[s] = Nobody
    BY <1>2 DEF CreateCheck
  <2> HIDE DEF ask
  <2>3. asks' \in [SessionIds -> Ask \cup {Nobody}] /\ \A q \in SessionIds : q # s => asks'[q] = asks[q]
    BY <2>1, <2>2 DEF RemoteIInv, RemoteTypes
  <2> QED
    BY <2>2, <2>3, SameRows
<1>3. ASSUME NEW s \in SessionIds, CreateCount(s) PROVE RowsInOrder
  <2> DEFINE ask == [asks[s] EXCEPT !.step = "counted"]
  <2>1. ask \in Ask /\ asks[s] # Nobody
    BY <1>3 DEF CreateCount, Ask, RemoteIInv, RemoteTypes
  <2>2. /\ UNCHANGED <<rows, endAudits>>
        /\ asks' = [asks EXCEPT ![s] = Nobody] \/ asks' = [asks EXCEPT ![s] = ask]
    BY <1>3 DEF CreateCount
  <2> HIDE DEF ask
  <2>3. asks' \in [SessionIds -> Ask \cup {Nobody}] /\ \A q \in SessionIds : q # s => asks'[q] = asks[q]
    BY <2>1, <2>2 DEF RemoteIInv, RemoteTypes
  <2> QED
    BY <2>1, <2>2, <2>3, SameRows
<1>4. ASSUME NEW s \in SessionIds, CreateInsert(s) PROVE RowsInOrder
  <2> DEFINE row == [target |-> asks[s].target, gateway |-> asks[s].gateway, kind |-> asks[s].kind,
                     issued |-> raClock, redeemed |-> FALSE, revoked |-> FALSE, ended |-> FALSE,
                     last |-> raClock]
  <2>1. asks[s] \in Ask /\ raClock \in 0..MaxClock
    BY <1>4 DEF CreateInsert, RemoteIInv, RemoteTypes
  <2>2. row \in Row /\ ~row.ended
    BY <2>1 DEF Row, Ask
  <2>3. rows' = [rows EXCEPT ![s] = row] /\ asks' = [asks EXCEPT ![s] = Nobody] /\ UNCHANGED endAudits
    BY <1>4 DEF CreateInsert
  <2> HIDE DEF row
  <2>4. rows' \in [SessionIds -> Row \cup {Nobody}] /\ rows'[s] = row /\ asks'[s] = Nobody
        /\ asks' \in [SessionIds -> Ask \cup {Nobody}]
    BY <2>2, <2>3 DEF RemoteIInv, RemoteTypes
  <2>5. \A q \in SessionIds : q # s => rows'[q] = rows[q] /\ asks'[q] = asks[q]
    BY <2>3 DEF RemoteIInv, RemoteTypes
  <2>6. rows[s] = Nobody /\ endAudits[s] = 0
    BY <1>4 DEF CreateInsert, RemoteIInv, AsksAreFirst, EndAuditedOnce
  <2>7. EndAuditedOnce'
    BY <2>2, <2>3, <2>4, <2>5, <2>6 DEF RemoteIInv, EndAuditedOnce
  <2>8. AsksAreFirst' /\ \A q \in SessionIds : RowKept(q)
    BY <2>4, <2>5, <2>6 DEF RemoteIInv, AsksAreFirst, RowKept
  <2> QED
    BY <2>3, <2>4, <2>7, <2>8 DEF RowsInOrder, RemoteIInv, RemoteTypes
<1>5. ASSUME NEW which \in SUBSET SessionIds, Revoke(which) PROVE RowsInOrder
  <2> DEFINE open == {s \in which : rows[s] # Nobody /\ ~rows[s].revoked /\ ~rows[s].ended}
             closed(s) == [rows[s] EXCEPT !.revoked = TRUE]
  <2>1. \A s \in open : rows[s] # Nobody /\ rows[s] \in Row
    BY DEF RemoteIInv, RemoteTypes
  <2>2. \A s \in open : /\ closed(s) \in Row /\ (closed(s).ended <=> rows[s].ended)
                        /\ closed(s).issued = rows[s].issued /\ closed(s).target = rows[s].target
                        /\ (closed(s).redeemed <=> rows[s].redeemed)
    BY <2>1, RowFields DEF RemoteIInv, RemoteTypes
  <2>3. /\ rows' = [s \in SessionIds |-> IF s \in open THEN closed(s) ELSE rows[s]]
        /\ UNCHANGED <<endAudits, asks>>
    BY <1>5 DEF Revoke
  <2> HIDE DEF open, closed
  <2>4. rows' \in [SessionIds -> Row \cup {Nobody}]
    BY <2>2, <2>3 DEF RemoteIInv, RemoteTypes
  <2>5. \A s \in SessionIds : \/ rows'[s] = rows[s]
                              \/ rows'[s] = closed(s) /\ s \in open /\ rows'[s] # Nobody
    BY <2>2, <2>3, NobodyAssumption
  <2>6. EndAuditedOnce'
    BY <2>1, <2>2, <2>3, <2>5 DEF RemoteIInv, EndAuditedOnce
  <2>7. AsksAreFirst' /\ \A q \in SessionIds : RowKept(q)
    BY <2>1, <2>2, <2>3, <2>5 DEF RemoteIInv, AsksAreFirst, RowKept
  <2> QED
    BY <2>3, <2>4, <2>6, <2>7 DEF RowsInOrder, RemoteIInv, RemoteTypes
<1>6. ASSUME NEW c \in Conns, NEW g \in Gateways, NEW s \in SessionIds, RedeemFlip(c, g, s) PROVE RowsInOrder
  <2> DEFINE a == [rows[s] EXCEPT !.redeemed = TRUE]
             b == [a EXCEPT !.last = raClock]
  <2>1. rows[s] # Nobody /\ rows[s] \in Row /\ raClock \in 0..MaxClock
    BY <1>6 DEF RedeemFlip, RemoteIInv, RemoteTypes
  <2>2. a \in Row /\ (a.ended <=> rows[s].ended) /\ a.issued = rows[s].issued /\ a.target = rows[s].target
        /\ a.redeemed
    BY <2>1, RowFields
  <2>3. (rows' = [rows EXCEPT ![s] = b] \/ UNCHANGED rows) /\ UNCHANGED <<endAudits, asks>>
    BY <1>6, <2>1 DEF RedeemFlip, RemoteIInv, RemoteTypes, Row
  <2> HIDE DEF a
  <2>4. b \in Row /\ (b.ended <=> rows[s].ended) /\ b.issued = rows[s].issued /\ b.target = rows[s].target
        /\ b.redeemed
    BY <2>1, <2>2, RowFields
  <2> HIDE DEF b
  <2> QED
    BY <1>1, <2>1, <2>3, <2>4, OneRow
<1>7. ASSUME NEW c \in Conns, RedeemAnswer(c) PROVE RowsInOrder
  <2>1. UNCHANGED <<rows, endAudits>> \/ EndSession(conns[c].session)
    BY <1>7 DEF RedeemAnswer
  <2>2. UNCHANGED asks /\ conns[c].step = "redeeming"
    BY <1>7 DEF RedeemAnswer
  <2> QED
    BY <1>1, <2>1, <2>2, EndedRow, RowIsThere
<1>8. ASSUME NEW c \in Conns, ReportEnd(c) PROVE RowsInOrder
  <2>1. UNCHANGED <<rows, endAudits>> \/ EndSession(conns[c].session)
    BY <1>8 DEF ReportEnd
  <2>2. UNCHANGED asks /\ conns[c].step = "ending"
    BY <1>8 DEF ReportEnd
  <2> QED
    BY <1>1, <2>1, <2>2, EndedRow, RowIsThere
<1>9. ASSUME NEW c \in Conns, ReportDecide(c) PROVE RowsInOrder
  <2> DEFINE s == conns[c].session
             b == [rows[s] EXCEPT !.last = raClock]
  <2>1. UNCHANGED asks /\ s \in SessionIds /\ rows[s] # Nobody /\ rows[s] \in Row
    BY <1>9, RowIsThere DEF ReportDecide
  <2>2. b \in Row /\ (b.ended <=> rows[s].ended) /\ b.issued = rows[s].issued /\ b.target = rows[s].target
        /\ (b.redeemed <=> rows[s].redeemed)
    BY <2>1, RowFields DEF RemoteIInv, RemoteTypes
  <2>3. \/ EndSession(s)
        \/ UNCHANGED <<rows, endAudits>>
        \/ rows' = [rows EXCEPT ![s] = b] /\ UNCHANGED endAudits
    BY <1>9 DEF ReportDecide
  <2> HIDE DEF b
  <2> QED
    BY <1>1, <2>1, <2>2, <2>3, EndedRow, OneRow
<1>10. ASSUME NEW c \in Conns, Connect(c) \/ LeaveLoop(c) \/ ReportRead(c) \/ GatewayCrash(c) PROVE RowsInOrder
  BY <1>1, <1>10 DEF Connect, LeaveLoop, ReportRead, GatewayCrash, coordVars
<1>11. ASSUME NEW t \in Targets, NEW k \in HostKeys, ReportHostKey(t) \/ AcknowledgeHostKey(t, k) PROVE RowsInOrder
  BY <1>1, <1>11 DEF ReportHostKey, AcknowledgeHostKey
<1>12. CASE Upheaval \/ RemoteTick \/ (\E g \in Gateways \cup {Nobody} : PutSettings(g)) \/ UNCHANGED remoteVars
  BY <1>1, <1>12 DEF Upheaval, RemoteTick, PutSettings, remoteVars, coordVars
<1>13. CASE \E t \in Targets : ReportHostKey(t)
  BY <1>1, <1>13 DEF ReportHostKey
<1> QED
  BY <1>2, <1>3, <1>4, <1>5, <1>6, <1>7, <1>8, <1>9, <1>10, <1>11, <1>12, <1>13 DEF RemoteNext, GatewayStep

(* What was pinned was vouched for, and what was vouched for stays so.     *)
PinsInOrder ==
  /\ pins' \in [Targets -> Pin] /\ vouched' \in [Targets -> SUBSET HostKeys] /\ PinsVouched'
  /\ \A t \in Targets : vouched[t] \subseteq vouched'[t]

LEMMA PinsStep ==
  ASSUME RemoteIInv, [RemoteNext]_remoteVars
  PROVE  PinsInOrder /\ hostKey' \in [Targets -> HostKeys] /\ raGateway' \in Gateways \cup {Nobody}
<1> DEFINE Goal == PinsInOrder /\ hostKey' \in [Targets -> HostKeys] /\ raGateway' \in Gateways \cup {Nobody}
<1>1. ASSUME UNCHANGED <<pins, vouched>>, hostKey' \in [Targets -> HostKeys], raGateway' \in Gateways \cup {Nobody}
      PROVE  Goal
  BY <1>1 DEF PinsInOrder, RemoteIInv, RemoteTypes, PinsVouched
<1>2. ASSUME NEW t \in Targets, NEW p \in Pin, NEW V \in SUBSET HostKeys,
             p.pinned \in V, p.pinned # Nobody, vouched[t] \subseteq V,
             pins' = [pins EXCEPT ![t] = p], vouched' = [vouched EXCEPT ![t] = V],
             UNCHANGED <<hostKey, raGateway>>
      PROVE  Goal
  BY <1>2 DEF PinsInOrder, RemoteIInv, RemoteTypes, PinsVouched
<1>3. ASSUME NEW t \in Targets, NEW k \in HostKeys, AcknowledgeHostKey(t, k) PROVE Goal
  <2> DEFINE p == [pinned |-> k, pending |-> Nobody]
  <2>1. p \in Pin /\ p.pinned = k /\ k # Nobody
    BY NobodyAssumption DEF Pin
  <2>2. vouched[t] \in SUBSET HostKeys
    BY DEF RemoteIInv, RemoteTypes
  <2>3. /\ pins' = [pins EXCEPT ![t] = p] /\ vouched' = [vouched EXCEPT ![t] = vouched[t] \cup {k}]
        /\ UNCHANGED <<hostKey, raGateway>>
    BY <1>3 DEF AcknowledgeHostKey, worldVars
  <2> HIDE DEF p
  <2>4. k \in vouched[t] \cup {k} /\ vouched[t] \subseteq vouched[t] \cup {k} /\ vouched[t] \cup {k} \in SUBSET HostKeys
    BY <2>2
  <2> QED
    BY <1>2, <2>1, <2>3, <2>4
<1>4. ASSUME NEW t \in Targets, ReportHostKey(t) PROVE Goal
  <2> DEFINE k == hostKey[t]
             p == IF pins[t].pinned \in {Nobody, k} THEN [pinned |-> k, pending |-> Nobody]
                  ELSE [pinned |-> pins[t].pinned, pending |-> k]
             V == IF pins[t].pinned = Nobody THEN {k} ELSE vouched[t]
  <2>1. k \in HostKeys /\ k # Nobody /\ pins[t] \in Pin /\ vouched[t] \in SUBSET HostKeys
    BY NobodyAssumption DEF RemoteIInv, RemoteTypes
  <2>2. IF pins[t].pinned = Nobody THEN vouched[t] = {} ELSE pins[t].pinned \in vouched[t]
    BY DEF RemoteIInv, PinsVouched
  <2>3. /\ pins' = [pins EXCEPT ![t] = p] /\ vouched' = [vouched EXCEPT ![t] = V]
        /\ UNCHANGED <<hostKey, raGateway>>
    BY <1>4 DEF ReportHostKey, worldVars
  <2> HIDE DEF k
  <2>4. p \in Pin /\ p.pinned # Nobody /\ p.pinned = IF pins[t].pinned = Nobody THEN k ELSE pins[t].pinned
    BY <2>1 DEF Pin
  <2>5. V \in SUBSET HostKeys /\ vouched[t] \subseteq V
    BY <2>1, <2>2
  <2>6. p.pinned \in V
    BY <2>2, <2>4
  <2> HIDE DEF p, V
  <2> QED
    BY <1>2, <2>3, <2>4, <2>5, <2>6
<1>5. CASE Upheaval
  <2>1. hostKey' \in [Targets -> HostKeys]
    BY <1>5 DEF Upheaval, RemoteIInv, RemoteTypes
  <2> QED
    BY <1>1, <1>5, <2>1 DEF Upheaval, coordVars, RemoteIInv, RemoteTypes
<1>6. ASSUME NEW s \in SessionIds, NEW t \in Targets, NEW kind \in Kinds, CreateCheck(s, t, kind) PROVE Goal
  BY <1>1, <1>6 DEF CreateCheck, worldVars, RemoteIInv, RemoteTypes
<1>12. ASSUME NEW c \in Conns, NEW g \in Gateways, NEW s \in SessionIds, RedeemFlip(c, g, s) PROVE Goal
  BY <1>1, <1>12 DEF RedeemFlip, worldVars, RemoteIInv, RemoteTypes
<1>7. ASSUME NEW S \in SUBSET SessionIds, Revoke(S) PROVE Goal
  BY <1>1, <1>7 DEF Revoke, worldVars, RemoteIInv, RemoteTypes
<1>8. ASSUME NEW c \in Conns, RedeemAnswer(c) \/ GatewayStep(c) \/ GatewayCrash(c) PROVE Goal
  BY <1>1, <1>8 DEF RedeemAnswer, GatewayStep, Connect, LeaveLoop, ReportRead, ReportDecide, ReportEnd,
     GatewayCrash, coordVars, worldVars, RemoteIInv, RemoteTypes
<1>9. CASE RemoteTick \/ UNCHANGED remoteVars
  BY <1>1, <1>9 DEF RemoteTick, remoteVars, coordVars, worldVars, RemoteIInv, RemoteTypes
<1>10. ASSUME NEW g \in Gateways \cup {Nobody}, PutSettings(g) PROVE Goal
  BY <1>1, <1>10 DEF PutSettings, RemoteIInv, RemoteTypes
<1>11. ASSUME NEW s \in SessionIds, CreateCount(s) \/ CreateInsert(s) PROVE Goal
  BY <1>1, <1>11 DEF CreateCount, CreateInsert, worldVars, RemoteIInv, RemoteTypes
<1> QED
  BY <1>3, <1>4, <1>5, <1>6, <1>7, <1>8, <1>9, <1>10, <1>11, <1>12 DEF RemoteNext

(* The gateway's connections are in order after a step.                    *)
ConnsInOrder == conns' \in [Conns -> ConnState] /\ ConnsBacked' /\ OneHolder'

LEMMA SameConns ==
  ASSUME RemoteIInv, RowsInOrder, PinsInOrder, raClock' = raClock, UNCHANGED conns
  PROVE  ConnsInOrder
<1>1. ConnsBacked'
  BY KeptConns DEF ConnsBacked, RowsInOrder, PinsInOrder
<1> QED
  BY <1>1 DEF ConnsInOrder, RemoteIInv, RemoteTypes, OneHolder, Holding

LEMMA OneConn ==
  ASSUME RemoteIInv, RowsInOrder, PinsInOrder, raClock' = raClock,
         NEW c \in Conns, NEW x \in ConnState, conns' = [conns EXCEPT ![c] = x],
         x.step \in {"idle", "closed"} \/
           (/\ conns[c].step \notin {"idle", "closed"} /\ x.session = conns[c].session),
         x.step \notin {"idle", "closed", "redeeming"} =>
           /\ x.deadline = rows[x.session].issued + SESSION_SECS
           /\ x.key # Nobody => x.key \in vouched[rows[x.session].target],
         x.step \in {"live", "reporting"} => raClock <= x.deadline \/ raClock = x.began
  PROVE  ConnsInOrder
<1>1. conns' \in [Conns -> ConnState] /\ conns'[c] = x
  BY DEF RemoteIInv, RemoteTypes
<1>2. \A d \in Conns : d # c => conns'[d] = conns[d]
  BY DEF RemoteIInv, RemoteTypes
<1>3. Backed(conns[c])'
  <2>1. CASE x.step \in {"idle", "closed"}
    BY <1>1, <2>1 DEF Backed
  <2>2. CASE x.step \notin {"idle", "closed"}
    <3> DEFINE s == x.session
    <3>1. s \in SessionIds /\ rows[s] # Nobody /\ rows[s] \in Row /\ rows[s].redeemed
      BY <2>2, RowIsThere DEF RemoteIInv, ConnsBacked, Backed
    <3>2. rows'[s] # Nobody /\ rows'[s].issued = rows[s].issued /\ rows'[s].target = rows[s].target
          /\ rows'[s].redeemed
      BY <3>1 DEF RowsInOrder, RowKept
    <3>3. vouched[rows[s].target] \subseteq vouched'[rows[s].target]
      BY <3>1 DEF PinsInOrder, Row
    <3> QED
      BY <1>1, <2>2, <3>2, <3>3 DEF Backed
  <2> QED
    BY <2>1, <2>2
<1>4. ConnsBacked'
  BY <1>2, <1>3, KeptConns DEF ConnsBacked, RowsInOrder, PinsInOrder
<1>5. OneHolder'
  <2>1. \A d \in Conns, s \in SessionIds : Holding(d, s)' => Holding(d, s)
    BY <1>1, <1>2 DEF Holding
  <2> QED
    BY <2>1 DEF OneHolder, RemoteIInv
<1> QED
  BY <1>1, <1>4, <1>5 DEF ConnsInOrder

(* What the gateway's steps write to one connection.                       *)
LEMMA ConnFields ==
  ASSUME NEW x \in ConnState, x.step \in {"starting", "live", "reporting"}, NEW st \in {"live", "ending"}
  PROVE  LET e == [x EXCEPT !.step = st] IN
           /\ e \in ConnState /\ e.step = st /\ e.session = x.session /\ e.key = x.key
           /\ e.deadline = x.deadline /\ e.began = x.began
<1>1. x \in Begun \cup Reported
  BY DEF ConnState, Away, Redeeming
<1>2. CASE x \in Begun
  <2>1. [x EXCEPT !.step = st] \in Begun
    BY <1>2 DEF Begun
  <2> QED
    BY <1>2, <2>1 DEF Begun, ConnState
<1>3. CASE x \in Reported
  <2>1. [x EXCEPT !.step = st] \in Reported
    BY <1>3 DEF Reported
  <2> QED
    BY <1>3, <2>1 DEF Reported, ConnState
<1> QED
  BY <1>1, <1>2, <1>3

LEMMA ConnsStep ==
  ASSUME RemoteIInv, [RemoteNext]_remoteVars
  PROVE  ConnsInOrder /\ raClock' \in 0..MaxClock
<1> DEFINE Goal == ConnsInOrder /\ raClock' \in 0..MaxClock
<1>1. RowsInOrder /\ PinsInOrder /\ raClock \in 0..MaxClock
  BY RowsStep, PinsStep DEF RemoteIInv, RemoteTypes
<1>2. CASE UNCHANGED <<conns, raClock>>
  BY <1>1, <1>2, SameConns
<1>3. [step |-> "closed"] \in ConnState /\ [step |-> "closed"].step = "closed"
  BY DEF ConnState, Away
<1>4. ASSUME NEW c \in Conns, conns' = [conns EXCEPT ![c] = [step |-> "closed"]], raClock' = raClock PROVE Goal
  <2> DEFINE x == [step |-> "closed"]
  <2>1. x \in ConnState /\ x.step = "closed" /\ conns' = [conns EXCEPT ![c] = x]
    BY <1>3, <1>4
  <2> HIDE DEF x
  <2> QED
    BY <1>1, <1>4, <2>1, OneConn
<1>5. ASSUME NEW c \in Conns, NEW g \in Gateways, NEW s \in SessionIds, RedeemFlip(c, g, s) PROVE Goal
  <2> DEFINE x == [step |-> "redeeming", session |-> s, gateway |-> g]
  <2>1. raClock' = raClock /\ conns[c].step = "idle" /\ rows[s] # Nobody
    BY <1>5 DEF RedeemFlip
  <2>2. \/ conns' = [conns EXCEPT ![c] = [step |-> "closed"]]
        \/ /\ ~rows[s].redeemed /\ conns' = [conns EXCEPT ![c] = x]
           /\ rows' = [rows EXCEPT ![s].redeemed = TRUE, ![s].last = raClock]
    BY <1>5 DEF RedeemFlip
  <2>3. CASE conns' = [conns EXCEPT ![c] = [step |-> "closed"]]
    BY <1>4, <2>1, <2>3
  <2>4. CASE /\ ~rows[s].redeemed /\ conns' = [conns EXCEPT ![c] = x]
             /\ rows' = [rows EXCEPT ![s].redeemed = TRUE, ![s].last = raClock]
    <3>1. x \in ConnState /\ x.step = "redeeming" /\ x.session = s
      BY DEF ConnState, Redeeming
    <3>2. rows'[s] # Nobody /\ rows'[s].redeemed
      <4>1. rows[s] \in Row /\ rows \in [SessionIds -> Row \cup {Nobody}]
        BY <2>1 DEF RemoteIInv, RemoteTypes
      <4>2. rows'[s].redeemed
        BY <2>4, <4>1 DEF Row
      <4> QED
        BY <1>1, <2>1, <4>2 DEF RowsInOrder, RowKept
    <3> HIDE DEF x
    <3>3. conns' \in [Conns -> ConnState] /\ conns'[c] = x /\ \A d \in Conns : d # c => conns'[d] = conns[d]
      BY <2>4, <3>1 DEF RemoteIInv, RemoteTypes
    <3>4. Backed(conns[c])'
      BY <3>1, <3>2, <3>3 DEF Backed
    <3>5. ConnsBacked'
      BY <1>1, <2>1, <3>3, <3>4, KeptConns DEF ConnsBacked, RowsInOrder, PinsInOrder
    <3>6. \A d \in Conns : ~Holding(d, s)
      BY <2>4 DEF RemoteIInv, ConnsBacked, Backed, Holding
    <3>7. \A d \in Conns, o \in SessionIds : Holding(d, o)' => IF d = c THEN o = s ELSE Holding(d, o)
      BY <3>1, <3>3 DEF Holding
    <3>8. OneHolder'
      BY <3>6, <3>7 DEF OneHolder, RemoteIInv
    <3> QED
      BY <1>1, <2>1, <3>3, <3>5, <3>8 DEF ConnsInOrder
  <2> QED
    BY <2>2, <2>3, <2>4
<1>6. ASSUME NEW c \in Conns, RedeemAnswer(c) PROVE Goal
  <2> DEFINE s == conns[c].session
             r == rows[s]
             k == IF r.kind = "ssh" THEN pins[r.target].pinned ELSE Nobody
             x == [step |-> "starting", session |-> s, gateway |-> conns[c].gateway,
                   key |-> k, deadline |-> Deadline(s), began |-> raClock]
  <2>1. raClock' = raClock /\ conns[c].step = "redeeming"
    BY <1>6 DEF RedeemAnswer
  <2>2. conns' = [conns EXCEPT ![c] = [step |-> "closed"]] \/ conns' = [conns EXCEPT ![c] = x]
    BY <1>6 DEF RedeemAnswer
  <2>3. s \in SessionIds /\ r \in Row
    BY <2>1, RowIsThere
  <2>4. conns[c].gateway \in Gateways
    BY <2>1 DEF RemoteIInv, RemoteTypes, ConnState, Away, Redeeming, Begun, Reported
  <2>5. Deadline(s) = r.issued + SESSION_SECS /\ Deadline(s) \in Nat
    BY <2>3, RemoteAssumption DEF Deadline, Row
  <2>6. k \in HostKeys \cup {Nobody} /\ (k # Nobody => k \in vouched[r.target])
    BY <2>3 DEF Row, RemoteIInv, RemoteTypes, PinsVouched, Pin
  <2>7. raClock \in Nat
    BY <1>1, RemoteAssumption
  <2> HIDE DEF k
  <2>8. /\ x \in ConnState /\ x.step = "starting" /\ x.session = s /\ x.key = k
        /\ x.deadline = Deadline(s)
    BY <2>3, <2>4, <2>5, <2>6, <2>7 DEF ConnState, Begun
  <2> HIDE DEF x
  <2>9. CASE conns' = [conns EXCEPT ![c] = x]
    BY <1>1, <2>1, <2>5, <2>6, <2>8, <2>9, OneConn
  <2> QED
    BY <1>4, <2>1, <2>2, <2>9
<1>7. ASSUME NEW c \in Conns, NEW x \in ConnState, raClock' = raClock, conns' = [conns EXCEPT ![c] = x],
             conns[c].step \notin {"idle", "closed", "redeeming"}, x.step \notin {"idle", "closed", "redeeming"},
             x.session = conns[c].session, x.key = conns[c].key, x.deadline = conns[c].deadline,
             x.step \in {"live", "reporting"} =>
               x.began = raClock \/ (x.began = conns[c].began /\ conns[c].step \in {"live", "reporting"})
      PROVE  Goal
  <2>1. Backed(conns[c])
    BY DEF RemoteIInv, ConnsBacked
  <2> QED
    BY <1>1, <1>7, <2>1, OneConn DEF Backed
<1>8. ASSUME NEW c \in Conns, Connect(c) PROVE Goal
  <2> DEFINE y(st) == [conns[c] EXCEPT !.step = st]
             x(st) == [y(st) EXCEPT !.began = raClock]
  <2>1. raClock' = raClock /\ conns[c].step = "starting" /\ conns[c] \in Begun
    BY <1>8 DEF Connect, RemoteIInv, RemoteTypes, ConnState, Away, Redeeming, Reported
  <2>2. PICK st \in {"live", "ending"} : conns' = [conns EXCEPT ![c].step = st, ![c].began = raClock]
    BY <1>8 DEF Connect
  <2>3. raClock \in Nat
    BY <1>1, RemoteAssumption
  <2>4. y(st) \in Begun /\ y(st).step = st /\ y(st).session = conns[c].session /\ y(st).key = conns[c].key
        /\ y(st).deadline = conns[c].deadline
    BY <2>1 DEF Begun
  <2>5. conns' = [conns EXCEPT ![c] = x(st)]
    BY <2>2, <2>1 DEF RemoteIInv, RemoteTypes
  <2> HIDE DEF y
  <2>6. x(st) \in Begun /\ x(st).step = st /\ x(st).session = conns[c].session /\ x(st).key = conns[c].key
        /\ x(st).deadline = conns[c].deadline /\ x(st).began = raClock
    BY <2>3, <2>4 DEF Begun
  <2> HIDE DEF x
  <2> QED
    BY <1>7, <2>1, <2>5, <2>6 DEF ConnState
<1>9. ASSUME NEW c \in Conns, NEW st \in {"live", "ending"}, raClock' = raClock,
             conns' = [conns EXCEPT ![c].step = st], conns[c].step \in {"live", "reporting"}
      PROVE  Goal
  <2> DEFINE x == [conns[c] EXCEPT !.step = st]
  <2>1. /\ x \in ConnState /\ x.step = st /\ x.session = conns[c].session /\ x.key = conns[c].key
        /\ x.deadline = conns[c].deadline /\ x.began = conns[c].began
    <3>1. conns[c] \in ConnState /\ conns[c].step \in {"starting", "live", "reporting"}
      BY <1>9 DEF RemoteIInv, RemoteTypes
    <3> QED
      BY <3>1, ConnFields
  <2>2. conns' = [conns EXCEPT ![c] = x]
    BY <1>9
  <2> HIDE DEF x
  <2> QED
    BY <1>7, <1>9, <2>1, <2>2
<1>10. ASSUME NEW c \in Conns, LeaveLoop(c) PROVE Goal
  BY <1>9, <1>10 DEF LeaveLoop
<1>11. ASSUME NEW c \in Conns, ReportDecide(c) PROVE Goal
  <2>1. PICK st \in {"live", "ending"} : conns' = [conns EXCEPT ![c].step = st]
    BY <1>11 DEF ReportDecide
  <2>2. raClock' = raClock /\ conns[c].step = "reporting"
    BY <1>11 DEF ReportDecide
  <2> QED
    BY <1>9, <2>1, <2>2
<1>12. ASSUME NEW c \in Conns, ReportRead(c) PROVE Goal
  <2> DEFINE saw == rows[conns[c].session].revoked \/ rows[conns[c].session].ended
             x == [step |-> "reporting", session |-> conns[c].session, gateway |-> conns[c].gateway,
                   key |-> conns[c].key, deadline |-> conns[c].deadline, began |-> conns[c].began, saw |-> saw]
  <2>1. raClock' = raClock /\ conns[c].step = "live"
    BY <1>12 DEF ReportRead
  <2>2. conns' = [conns EXCEPT ![c] = x] \/ conns' = [conns EXCEPT ![c].step = "ending"]
    BY <1>12 DEF ReportRead
  <2>3. conns[c] \in Begun \cup Reported
    BY <2>1 DEF RemoteIInv, RemoteTypes, ConnState, Away, Redeeming
  <2>4. saw \in BOOLEAN
    OBVIOUS
  <2> HIDE DEF saw
  <2>5. x \in Reported
    BY <2>3, <2>4 DEF Begun, Reported
  <2>6. /\ x.step = "reporting" /\ x.session = conns[c].session /\ x.key = conns[c].key
        /\ x.deadline = conns[c].deadline /\ x.began = conns[c].began
    OBVIOUS
  <2> HIDE DEF x
  <2>7. CASE conns' = [conns EXCEPT ![c] = x]
    BY <1>7, <2>1, <2>5, <2>6, <2>7 DEF ConnState
  <2> QED
    BY <1>9, <2>1, <2>2, <2>7
<1>13. ASSUME NEW c \in Conns, ReportEnd(c) \/ GatewayCrash(c) PROVE Goal
  BY <1>4, <1>13 DEF ReportEnd, GatewayCrash
<1>14. CASE RemoteTick
  <2>1. /\ raClock < MaxClock /\ raClock' = raClock + 1 /\ UNCHANGED <<rows, vouched, conns>>
        /\ \A c \in Conns : conns[c].step \in {"live", "reporting"} => conns[c].deadline > raClock
    BY <1>14 DEF RemoteTick, coordVars
  <2>2. ASSUME NEW c \in Conns PROVE Backed(conns[c])'
    <3>1. Backed(conns[c]) /\ conns[c] \in ConnState
      BY DEF RemoteIInv, RemoteTypes, ConnsBacked
    <3>2. conns[c].step \in {"live", "reporting"} => conns[c].deadline \in Nat
      BY <3>1 DEF ConnState, Away, Redeeming, Begun, Reported
    <3>3. conns[c].step \in {"live", "reporting"} => raClock' <= conns[c].deadline
      BY <1>1, <2>1, <3>2
    <3> QED
      BY <2>1, <3>1, <3>3 DEF Backed
  <2>3. raClock' \in 0..MaxClock
    BY <1>1, <2>1, RemoteAssumption
  <2> QED
    BY <2>1, <2>2, <2>3 DEF ConnsInOrder, ConnsBacked, RemoteIInv, RemoteTypes, OneHolder, Holding
<1>15. ASSUME NEW s \in SessionIds, CreateCount(s) \/ CreateInsert(s) PROVE Goal
  BY <1>2, <1>15 DEF CreateCount, CreateInsert
<1>16. ASSUME NEW s \in SessionIds, NEW t \in Targets, NEW kind \in Kinds, CreateCheck(s, t, kind) PROVE Goal
  BY <1>2, <1>16 DEF CreateCheck
<1>17. ASSUME NEW S \in SUBSET SessionIds, Revoke(S) PROVE Goal
  BY <1>2, <1>17 DEF Revoke
<1>18. ASSUME NEW t \in Targets, NEW k \in HostKeys, AcknowledgeHostKey(t, k) PROVE Goal
  BY <1>2, <1>18 DEF AcknowledgeHostKey
<1>19. ASSUME NEW t \in Targets, ReportHostKey(t) PROVE Goal
  BY <1>2, <1>19 DEF ReportHostKey
<1>20. ASSUME NEW g \in Gateways \cup {Nobody}, PutSettings(g) PROVE Goal
  BY <1>2, <1>20 DEF PutSettings
<1>21. CASE Upheaval \/ UNCHANGED remoteVars
  BY <1>2, <1>21 DEF Upheaval, remoteVars
<1> QED
  BY <1>5, <1>6, <1>8, <1>10, <1>11, <1>12, <1>13, <1>14, <1>15, <1>16, <1>17, <1>18, <1>19, <1>20, <1>21
  DEF RemoteNext, GatewayStep

(* What RemoteIInv says of single-use tickets, as a count.                 *)
LEMMA HeldOnce ==
  ASSUME OneHolder
  PROVE  TicketSingleUse
<1> SUFFICES ASSUME NEW s \in SessionIds
             PROVE  Cardinality({c \in Conns : Holding(c, s)}) <= 1
  BY DEF TicketSingleUse
<1> DEFINE H == {c \in Conns : Holding(c, s)}
<1>1. CASE H = {}
  BY <1>1, FS_EmptySet
<1>2. CASE H # {}
  <2>1. PICK c : c \in H
    BY <1>2
  <2>2. H = {c}
    BY <2>1 DEF OneHolder
  <2> QED
    BY <2>2, FS_Singleton
<1> QED
  BY <1>1, <1>2

LEMMA RemoteIInvImplies == RemoteIInv => RemoteInv
<1> SUFFICES ASSUME RemoteIInv PROVE RemoteInv
  OBVIOUS
<1>1. RemoteTypeOK
  <2>1. \A c \in Conns : conns[c].step \in {"idle", "redeeming", "starting", "live", "reporting", "ending", "closed"}
    BY DEF RemoteIInv, RemoteTypes, ConnState, Away, Redeeming, Begun, Reported
  <2> QED
    BY <2>1 DEF RemoteIInv, RemoteTypes, RemoteTypeOK, Pin
<1>2. OnlyVouchedHostKeys /\ NoRelayPastDeadline
  BY DEF RemoteIInv, ConnsBacked, Backed, OnlyVouchedHostKeys, NoRelayPastDeadline
<1> QED
  BY <1>1, <1>2, HeldOnce DEF RemoteIInv, RemoteInv

(* Whatever the interleaving of browser connections, coordinator requests, *)
(* reports, gateway crashes and changes of devices, policy and host keys,  *)
(* a ticket is held by one connection at most (redeem_ticket()), every end *)
(* is audited exactly once (end_session()), the gateway trusts only keys   *)
(* that were pinned or acknowledged, and no connection relays past the end *)
(* set when its ticket was issued (Live::new()).                           *)
THEOREM RemoteAlwaysHolds == RemoteSpec => []RemoteInv
<1>1. RemoteIInv /\ [RemoteNext]_remoteVars => RemoteIInv'
  <2> SUFFICES ASSUME RemoteIInv, [RemoteNext]_remoteVars PROVE RemoteIInv'
    OBVIOUS
  <2>1. RowsInOrder /\ PinsInOrder /\ hostKey' \in [Targets -> HostKeys] /\ raGateway' \in Gateways \cup {Nobody}
    BY RowsStep, PinsStep
  <2>2. ConnsInOrder /\ raClock' \in 0..MaxClock
    BY ConnsStep
  <2> QED
    BY <2>1, <2>2 DEF RowsInOrder, PinsInOrder, ConnsInOrder, RemoteIInv, RemoteTypes
<1> QED
  BY <1>1, RemoteInitIInv, RemoteIInvImplies, PTL DEF RemoteSpec

-----------------------------------------------------------------------------
(* The peer map.                                                           *)

OverlapRow == [key : Nat, id : Nat]
PeerRow == [live : BOOLEAN, key : 1..Rotations, policy : {0, 1}, overlap : OverlapRow]
PollState == [at : {"idle", "waiting", "expired", "read", "sent"}, forced : BOOLEAN, revision : Nat,
              kind : {"none", "snapshot", "delta"}, peers : SUBSET Entries,
              removed : SUBSET (Nodes \cup OverlapIds)]
AgentMap == [since : Nat, peers : [Nodes -> Entries]]

(* Overlap rows have ids of their own.                                     *)
Overlaps(n) == nodeRows[n].overlap # NoOverlap
OverlapsApart ==
  \A n \in Nodes : Overlaps(n) =>
    /\ nodeRows[n].overlap.id \in OverlapIds
    /\ \A m \in Nodes : Overlaps(m) /\ nodeRows[m].overlap.id = nodeRows[n].overlap.id => m = n

ControlTypes ==
  /\ nodeRows \in [Nodes -> PeerRow]
  /\ OverlapsApart
  /\ revision \in Nat \ {0} /\ bumps \in {0, 1} /\ revision + bumps <= MaxRevision
  /\ lostBump \in BOOLEAN /\ clean \in BOOLEAN
  /\ baseline \in [revision : Nat, ids : SUBSET (Nodes \cup OverlapIds)]
  /\ poll \in PollState /\ IsFiniteSet(poll.peers)
  /\ node \in AgentMap /\ saved \in AgentMap

(* No entry the agent holds or is sent names another peer's row: a row of  *)
(* its own has the peer's id, an overlap row an id nobody else has.        *)
Owned(e) ==
  /\ e.class \in Nodes /\ e.id \in Nodes \cup OverlapIds
  /\ e.id \in Nodes => e.class = e.id
  /\ \A n \in Nodes : Overlaps(n) /\ nodeRows[n].overlap.id = e.id => e.class = n
Held(n) == node.peers[n] # NoEntry
EntriesOwned ==
  /\ \A e \in poll.peers : Owned(e)
  /\ \A n \in Nodes : Held(n) => Owned(node.peers[n]) /\ node.peers[n].class = n

(* A request in progress is ahead of the agent, the coordinator ahead of   *)
(* both, and a poll that expired overlaps will read its own bump.          *)
PollIsAhead ==
  /\ node.since <= revision /\ saved.since <= revision
  /\ poll.at \in {"idle", "waiting"} => ~poll.forced
  /\ poll.at = "expired" => node.since < revision + bumps
  /\ poll.at \in {"read", "sent"} => node.since < poll.revision /\ poll.revision <= revision

(* state.json has the peers the agent has; after faults, also its revision *)
(* once a snapshot was applied.                                            *)
SavedIsHeld == saved.peers = node.peers /\ (clean => saved = node)

(* A peer that is gone is news to whoever is at this revision.             *)
GoneSince(n, r) == ~nodeRows[n].live /\ ~lostBump => r < revision + bumps

(* What the coordinator remembers to have sent covers what the agent holds *)
(* if it is what the agent acknowledged.                                   *)
BaselineCovers ==
  clean /\ node.since > 0 /\ baseline.revision = node.since =>
    \A n \in Nodes : Held(n) => node.peers[n].id \in baseline.ids

(* A delta leaves alone what was still exported when it was made.          *)
Stays(n) == Held(n) /\ node.peers[n].id \notin poll.removed \cup IdsOf(poll.peers)
AnswerIsSafe ==
  poll.at = "sent" =>
    /\ poll.kind \in {"snapshot", "delta"}
    /\ \A e \in poll.peers : GoneSince(e.class, poll.revision)
    /\ baseline.revision = poll.revision => IdsOf(poll.peers) \subseteq baseline.ids
    /\ poll.kind = "delta" /\ clean =>
         \A n \in Nodes : Stays(n) =>
           /\ GoneSince(n, poll.revision)
           /\ baseline.revision = poll.revision => node.peers[n].id \in baseline.ids

HeldIsNews == clean => \A n \in Nodes : Held(n) => GoneSince(n, node.since)

ControlIInv ==
  /\ ControlTypes /\ EntriesOwned /\ PollIsAhead /\ SavedIsHeld
  /\ BaselineCovers /\ AnswerIsSafe /\ HeldIsNews

LEMMA ControlInitIInv == ControlInit => ControlIInv
<1> SUFFICES ASSUME ControlInit PROVE ControlIInv
  OBVIOUS
<1> USE ControlAssumption
<1>1. NoEntry \in Entries /\ NoOverlap \in OverlapRow
  BY DEF NoEntry, Entries, NoOverlap, OverlapRow
<1>2. nodeRows \in [Nodes -> PeerRow] /\ \A n \in Nodes : nodeRows[n].overlap = NoOverlap
  BY <1>1 DEF ControlInit, PeerRow
<1>3. /\ poll \in PollState /\ poll.peers = {} /\ poll.at = "idle" /\ ~poll.forced
  BY DEF ControlInit, NoPoll, PollState
<1>4. node \in AgentMap /\ saved = node /\ node.since = 0 /\ \A n \in Nodes : node.peers[n] = NoEntry
  BY <1>1 DEF ControlInit, AgentMap
<1>5. baseline \in [revision : Nat, ids : SUBSET (Nodes \cup OverlapIds)]
  BY DEF ControlInit, NoView
<1>6. /\ revision = 1 /\ bumps = 0 /\ lostBump = FALSE /\ clean = TRUE
  BY DEF ControlInit
<1>7. IsFiniteSet(poll.peers)
  BY <1>3, FS_EmptySet
<1>8. ControlTypes
  <2>1. OverlapsApart
    BY <1>2 DEF OverlapsApart, Overlaps
  <2>2. revision \in Nat \ {0} /\ bumps \in {0, 1} /\ revision + bumps <= MaxRevision
    BY <1>6
  <2>3. lostBump \in BOOLEAN /\ clean \in BOOLEAN
    BY <1>6
  <2> QED
    BY <1>2, <1>3, <1>4, <1>5, <1>7, <2>1, <2>2, <2>3 DEF ControlTypes
<1> QED
  BY <1>2, <1>3, <1>4, <1>6, <1>8
  DEF ControlIInv, EntriesOwned, PollIsAhead, SavedIsHeld, BaselineCovers, AnswerIsSafe, HeldIsNews, Held

(* The ids rotate_peer() may not reuse.                                    *)
LEMMA UsedAre ==
  /\ \A n \in Nodes : nodeRows[n].overlap.id \in UsedIds /\ node.peers[n].id \in UsedIds
  /\ \A e \in poll.peers : e.id \in UsedIds
BY DEF UsedIds, IdsOf

LEMMA LaterSum ==
  ASSUME NEW i \in Nat, NEW r \in Nat, NEW b \in {0, 1}, NEW q \in Nat, NEW d \in {0, 1},
         i < r + b, r + b <= q + d
  PROVE  i < q + d
OBVIOUS

LEMMA BeforeSum ==
  ASSUME NEW i \in Nat, NEW r \in Nat, NEW q \in Nat, NEW d \in {0, 1}, i <= r, r < q + d
  PROVE  i < q + d
OBVIOUS

(* A step of writers, of a poll that has not read yet, or of a coordinator *)
(* that forgets: neither the agent nor an answer on its way changes.       *)
LEMMA WritersKeep ==
  ASSUME ControlIInv, UNCHANGED <<node, saved, clean>>,
         baseline' \in {baseline, NoView}, lostBump' \in BOOLEAN, lostBump => lostBump',
         nodeRows' \in [Nodes -> PeerRow], OverlapsApart',
         revision' \in Nat, revision <= revision', bumps' \in {0, 1}, revision' + bumps' <= MaxRevision,
         lostBump' \/ revision + bumps <= revision' + bumps',
         \A n \in Nodes : Overlaps(n)' => nodeRows'[n].overlap = nodeRows[n].overlap
                                            \/ nodeRows'[n].overlap.id \notin UsedIds,
         \A n \in Nodes : nodeRows'[n].live \/ ~nodeRows[n].live \/ revision < revision' + bumps',
         \/ poll' = poll /\ revision + bumps <= revision' + bumps'
         \/ /\ poll' \in PollState /\ poll'.peers \subseteq poll.peers
            /\ poll'.at \in {"idle", "waiting", "expired"}
            /\ poll'.at # "expired" => ~poll'.forced
            /\ poll'.at = "expired" => node.since < revision' + bumps'
  PROVE  ControlIInv'
<1> USE ControlAssumption
<1>1. ControlTypes /\ node.since \in Nat /\ saved.since \in Nat /\ poll.revision \in Nat
  BY DEF ControlIInv, ControlTypes, AgentMap, PollState
<1>2. poll' \in PollState /\ poll'.peers \subseteq poll.peers /\ IsFiniteSet(poll'.peers)
  BY <1>1, FS_Subset DEF ControlTypes
<1>3. ControlTypes'
  <2>1. baseline' \in [revision : Nat, ids : SUBSET (Nodes \cup OverlapIds)]
    BY <1>1 DEF ControlTypes, NoView
  <2>2. revision' \in Nat \ {0}
    BY <1>1 DEF ControlTypes
  <2> QED
    BY <1>1, <1>2, <2>1, <2>2 DEF ControlTypes
<1>4. ASSUME NEW e, Owned(e), e.id \in UsedIds PROVE Owned(e)'
  BY <1>4 DEF Owned, Overlaps
<1>5. EntriesOwned'
  <2>1. \A e \in poll.peers : e.id \in UsedIds
    BY UsedAre
  <2>2. \A n \in Nodes : node.peers[n].id \in UsedIds
    BY UsedAre
  <2> QED
    BY <1>2, <1>4, <2>1, <2>2 DEF ControlIInv, EntriesOwned, Held
<1>6. PollIsAhead'
  <2>1. node.since <= revision' /\ saved.since <= revision'
    BY <1>1 DEF ControlIInv, PollIsAhead, ControlTypes
  <2>2. CASE poll' = poll /\ revision + bumps <= revision' + bumps'
    <3>0. poll.at = "expired" => node.since < revision + bumps
      BY DEF ControlIInv, PollIsAhead
    <3>1. poll.at = "expired" => node.since < revision' + bumps'
      BY <1>1, <2>2, <3>0, LaterSum DEF ControlTypes
    <3>2. poll.at \in {"read", "sent"} => node.since < poll.revision /\ poll.revision <= revision'
      BY <1>1 DEF ControlIInv, PollIsAhead, ControlTypes
    <3>3. poll.at \in {"idle", "waiting"} => ~poll.forced
      BY DEF ControlIInv, PollIsAhead
    <3> QED
      BY <2>1, <2>2, <3>1, <3>2, <3>3 DEF PollIsAhead
  <2>3. CASE /\ poll'.at \in {"idle", "waiting", "expired"}
             /\ poll'.at # "expired" => ~poll'.forced
             /\ poll'.at = "expired" => node.since < revision' + bumps'
    BY <2>1, <2>3 DEF PollIsAhead
  <2> QED
    BY <2>2, <2>3
<1>7. ASSUME NEW n \in Nodes, NEW r \in Nat, r <= revision, GoneSince(n, r) PROVE GoneSince(n, r)'
  <2> SUFFICES ASSUME ~nodeRows'[n].live, ~lostBump' PROVE r < revision' + bumps'
    BY DEF GoneSince
  <2>1. revision \in Nat /\ bumps \in {0, 1} /\ revision + bumps <= revision' + bumps'
    BY <1>1 DEF ControlTypes
  <2>2. CASE ~nodeRows[n].live
    <3>1. r < revision + bumps
      BY <1>7, <2>2 DEF GoneSince
    <3> QED
      BY <2>1, <3>1, LaterSum
  <2>3. CASE revision < revision' + bumps'
    BY <1>7, <2>1, <2>3, BeforeSum
  <2> QED
    BY <2>2, <2>3
<1>8. HeldIsNews'
  BY <1>1, <1>7 DEF ControlIInv, HeldIsNews, PollIsAhead, Held
<1>9. BaselineCovers'
  <2>1. CASE baseline' = baseline
    BY <2>1 DEF ControlIInv, BaselineCovers, Held
  <2>2. CASE baseline' = NoView
    BY <1>1, <2>2 DEF NoView, BaselineCovers
  <2> QED
    BY <2>1, <2>2
<1>10. AnswerIsSafe'
  <2>1. CASE poll'.at # "sent"
    BY <2>1 DEF AnswerIsSafe
  <2>2. CASE poll'.at = "sent"
    <3>1. poll' = poll /\ poll.at = "sent"
      BY <2>2
    <3>2. poll.revision <= revision /\ poll.revision # 0
      BY <1>1, <3>1 DEF ControlIInv, PollIsAhead
    <3>3. baseline'.revision = poll.revision => baseline' = baseline
      BY <3>2 DEF NoView
    <3>4. \A e \in poll.peers : GoneSince(e.class, poll.revision)'
      BY <1>1, <1>7, <3>1, <3>2 DEF ControlIInv, AnswerIsSafe, EntriesOwned, Owned
    <3>5. \A n \in Nodes : GoneSince(n, poll.revision) => GoneSince(n, poll.revision)'
      BY <1>1, <1>7, <3>1, <3>2
    <3> QED
      BY <3>1, <3>3, <3>4, <3>5 DEF ControlIInv, AnswerIsSafe, Stays, Held, IdsOf
  <2> QED
    BY <2>1, <2>2
<1> QED
  BY <1>3, <1>5, <1>6, <1>8, <1>9, <1>10 DEF ControlIInv, SavedIsHeld

LEMMA FewerOverlaps ==
  ASSUME OverlapsApart, \A n \in Nodes : nodeRows'[n].overlap \in {nodeRows[n].overlap, NoOverlap}
  PROVE  /\ OverlapsApart'
         /\ \A n \in Nodes : Overlaps(n)' => nodeRows'[n].overlap = nodeRows[n].overlap
BY DEF OverlapsApart, Overlaps

(* What the writers do to one peer's row.                                  *)
LEMMA RowEdits ==
  ASSUME NEW r \in PeerRow
  PROVE  /\ LET e == [r EXCEPT !.live = TRUE] IN e \in PeerRow /\ e.live /\ e.overlap = r.overlap
         /\ LET e == [r EXCEPT !.policy = 1] IN e \in PeerRow /\ (e.live <=> r.live) /\ e.overlap = r.overlap
         /\ LET e == [r EXCEPT !.live = FALSE, !.policy = 1] IN e \in PeerRow /\ e.overlap = r.overlap
         /\ LET e == [r EXCEPT !.overlap = NoOverlap] IN
              e \in PeerRow /\ (e.live <=> r.live) /\ e.overlap = NoOverlap
BY DEF PeerRow, OverlapRow, NoOverlap

LEMMA OneRowEdit ==
  ASSUME ControlIInv, NEW n \in Nodes, NEW e \in PeerRow, nodeRows' = [nodeRows EXCEPT ![n] = e],
         e.overlap = nodeRows[n].overlap,
         AgentUnchanged, UNCHANGED lostBump, revision' \in Nat, bumps' \in {0, 1},
         revision <= revision', revision + bumps <= revision' + bumps', revision' + bumps' <= MaxRevision,
         e.live \/ ~nodeRows[n].live \/ revision < revision' + bumps'
  PROVE  ControlIInv'
<1>1. ControlTypes
  BY DEF ControlIInv
<1>2. nodeRows' \in [Nodes -> PeerRow] /\ nodeRows'[n] = e /\ \A m \in Nodes : m # n => nodeRows'[m] = nodeRows[m]
  BY <1>1 DEF ControlTypes
<1>3. \A m \in Nodes : nodeRows'[m].overlap = nodeRows[m].overlap
  BY <1>2
<1>4. OverlapsApart' /\ \A m \in Nodes : Overlaps(m)' => nodeRows'[m].overlap = nodeRows[m].overlap
  BY <1>1, <1>3, FewerOverlaps DEF ControlTypes
<1>5. \A m \in Nodes : nodeRows'[m].live \/ ~nodeRows[m].live \/ revision < revision' + bumps'
  BY <1>2
<1>6. lostBump' \in BOOLEAN /\ (lostBump => lostBump')
  BY <1>1 DEF ControlTypes
<1> QED
  BY <1>2, <1>4, <1>5, <1>6, WritersKeep DEF AgentUnchanged

LEMMA PeerWriters ==
  ASSUME ControlIInv, NEW n \in Nodes,
         InsertPeer(n) \/ Recompile(n) \/ RevokePeer(n) \/ SelfRevoke(n)
  PROVE  ControlIInv'
<1>1. ControlTypes /\ nodeRows[n] \in PeerRow /\ revision \in Nat /\ bumps \in Nat /\ MaxRevision \in Nat
  BY ControlAssumption DEF ControlIInv, ControlTypes
<1>2. ASSUME Bump, UNCHANGED bumps
      PROVE  /\ revision' \in Nat /\ bumps' \in {0, 1} /\ revision <= revision'
             /\ revision + bumps <= revision' + bumps' /\ revision' + bumps' <= MaxRevision
             /\ revision < revision' + bumps'
  <2>1. revision' = revision + 1 /\ revision + bumps < MaxRevision
    BY <1>2 DEF Bump, Room
  <2> QED
    BY <1>1, <1>2, <2>1 DEF ControlTypes
<1>3. CASE InsertPeer(n)
  <2> DEFINE e == [nodeRows[n] EXCEPT !.live = TRUE]
  <2>1. e \in PeerRow /\ e.live /\ e.overlap = nodeRows[n].overlap
    BY <1>1, RowEdits
  <2>2. nodeRows' = [nodeRows EXCEPT ![n] = e]
    BY <1>3 DEF InsertPeer
  <2> HIDE DEF e
  <2> QED
    BY <1>2, <1>3, <2>1, <2>2, OneRowEdit DEF InsertPeer
<1>4. CASE Recompile(n)
  <2> DEFINE e == [nodeRows[n] EXCEPT !.policy = 1]
  <2>1. e \in PeerRow /\ (e.live <=> nodeRows[n].live) /\ e.overlap = nodeRows[n].overlap
    BY <1>1, RowEdits
  <2>2. nodeRows' = [nodeRows EXCEPT ![n] = e]
    BY <1>4 DEF Recompile
  <2> HIDE DEF e
  <2> QED
    BY <1>2, <1>4, <2>1, <2>2, OneRowEdit DEF Recompile
<1>5. CASE RevokePeer(n) \/ SelfRevoke(n)
  <2> DEFINE e == [nodeRows[n] EXCEPT !.live = FALSE, !.policy = 1]
  <2>1. e \in PeerRow /\ e.overlap = nodeRows[n].overlap
    BY <1>1, RowEdits
  <2>2. nodeRows' = [nodeRows EXCEPT ![n] = e]
    BY <1>5, <1>1 DEF RevokePeer, SelfRevoke, ControlTypes
  <2>3. ASSUME SelfRevoke(n)
        PROVE  /\ revision' \in Nat /\ bumps' \in {0, 1} /\ revision <= revision'
               /\ revision + bumps <= revision' + bumps' /\ revision' + bumps' <= MaxRevision
               /\ revision < revision' + bumps'
    <3>1. revision' = revision /\ bumps = 0 /\ bumps' = 1 /\ revision + bumps < MaxRevision
      BY <2>3 DEF SelfRevoke, Room
    <3> QED
      BY <1>1, <3>1
  <2>4. AgentUnchanged /\ UNCHANGED lostBump
    BY <1>5 DEF RevokePeer, SelfRevoke
  <2> HIDE DEF e
  <2>5. CASE RevokePeer(n)
    BY <1>2, <2>1, <2>2, <2>4, <2>5, OneRowEdit DEF RevokePeer
  <2>6. CASE SelfRevoke(n)
    BY <2>1, <2>2, <2>3, <2>4, <2>6, OneRowEdit
  <2> QED
    BY <1>5, <2>5, <2>6
<1> QED
  BY <1>3, <1>4, <1>5

LEMMA RotateKeeps ==
  ASSUME ControlIInv, NEW n \in Nodes, RotatePeer(n)
  PROVE  ControlIInv'
<1>1. ControlTypes /\ nodeRows[n] \in PeerRow /\ revision \in Nat /\ bumps \in Nat /\ MaxRevision \in Nat
  BY ControlAssumption DEF ControlIInv, ControlTypes
<1>2. PICK o \in OverlapIds \ UsedIds :
        nodeRows' = [nodeRows EXCEPT ![n].key = @ + 1, ![n].overlap = [key |-> nodeRows[n].key, id |-> o]]
  BY DEF RotatePeer
<1> DEFINE v == [key |-> nodeRows[n].key, id |-> o]
           k == nodeRows[n].key + 1
           a == [nodeRows[n] EXCEPT !.key = k]
           e == [a EXCEPT !.overlap = v]
<1>3. v \in OverlapRow /\ v.id = o
  <2>1. nodeRows[n].key \in Nat
    BY <1>1, ControlAssumption DEF PeerRow
  <2>2. o \in Nat
    BY ControlAssumption
  <2> QED
    BY <2>1, <2>2 DEF OverlapRow
<1>4. k \in 1..Rotations
  BY <1>1, ControlAssumption DEF RotatePeer, PeerRow
<1>5. nodeRows' = [nodeRows EXCEPT ![n] = e]
  <2>1. nodeRows \in [Nodes -> PeerRow]
    BY <1>1 DEF ControlTypes
  <2>2. nodeRows' = [nodeRows EXCEPT ![n] = [nodeRows[n] EXCEPT !.key = nodeRows[n].key + 1, !.overlap = v]]
    BY <1>2, <2>1
  <2> HIDE DEF v
  <2>3. [nodeRows[n] EXCEPT !.key = nodeRows[n].key + 1, !.overlap = v] = e
    BY <1>1 DEF PeerRow
  <2> QED
    BY <2>2, <2>3
<1> HIDE DEF v, k
<1>6. a \in PeerRow /\ (a.live <=> nodeRows[n].live)
  BY <1>1, <1>4 DEF PeerRow
<1> HIDE DEF a
<1>7. e \in PeerRow /\ (e.live <=> nodeRows[n].live) /\ e.overlap = v
  BY <1>3, <1>6 DEF PeerRow
<1> HIDE DEF e
<1>8. nodeRows' \in [Nodes -> PeerRow] /\ nodeRows'[n] = e /\ \A m \in Nodes : m # n => nodeRows'[m] = nodeRows[m]
  BY <1>1, <1>5, <1>7 DEF ControlTypes
<1>9. o \in OverlapIds /\ o \notin UsedIds /\ \A m \in Nodes : nodeRows[m].overlap.id # o
  BY UsedAre
<1>10. OverlapsApart'
  BY <1>1, <1>3, <1>7, <1>8, <1>9 DEF ControlTypes, OverlapsApart, Overlaps
<1>11. \A m \in Nodes : Overlaps(m)' => nodeRows'[m].overlap = nodeRows[m].overlap
                                           \/ nodeRows'[m].overlap.id \notin UsedIds
  BY <1>3, <1>7, <1>8, <1>9
<1>12. \A m \in Nodes : nodeRows'[m].live \/ ~nodeRows[m].live
  BY <1>7, <1>8
<1>13. /\ revision' = revision + 1 /\ bumps' = bumps /\ revision + bumps < MaxRevision
       /\ AgentUnchanged /\ UNCHANGED lostBump
  BY DEF RotatePeer, Bump, Room
<1>14. /\ revision' \in Nat /\ bumps' \in {0, 1} /\ revision <= revision'
       /\ revision + bumps <= revision' + bumps' /\ revision' + bumps' <= MaxRevision
  BY <1>1, <1>13 DEF ControlTypes
<1>15. lostBump' \in BOOLEAN /\ (lostBump => lostBump')
  BY <1>1, <1>13 DEF ControlTypes
<1> QED
  BY <1>8, <1>10, <1>11, <1>12, <1>13, <1>14, <1>15, WritersKeep DEF AgentUnchanged

(* Polls that have not read, bumps, and a coordinator that forgets.        *)
LEMMA ClearKeeps ==
  ASSUME ControlTypes, ClearOverlaps
  PROVE  /\ nodeRows' \in [Nodes -> PeerRow] /\ OverlapsApart' /\ \A n \in Nodes : ~Overlaps(n)'
         /\ \A n \in Nodes : nodeRows'[n].live \/ ~nodeRows[n].live
<1> DEFINE e(n) == [nodeRows[n] EXCEPT !.overlap = NoOverlap]
<1>1. \A n \in Nodes : e(n) \in PeerRow /\ (e(n).live <=> nodeRows[n].live) /\ e(n).overlap = NoOverlap
  BY RowEdits DEF ControlTypes
<1>2. nodeRows' = [n \in Nodes |-> e(n)]
  BY DEF ClearOverlaps
<1> HIDE DEF e
<1> QED
  BY <1>1, <1>2 DEF OverlapsApart, Overlaps

LEMMA SameRowsKeep ==
  ASSUME ControlTypes, UNCHANGED nodeRows
  PROVE  /\ nodeRows' \in [Nodes -> PeerRow] /\ OverlapsApart'
         /\ \A n \in Nodes : nodeRows'[n].overlap = nodeRows[n].overlap
         /\ \A n \in Nodes : nodeRows'[n].live \/ ~nodeRows[n].live
<1>1. \A n \in Nodes : nodeRows[n].live \in BOOLEAN
  BY DEF ControlTypes, PeerRow
<1> QED
  BY <1>1 DEF ControlTypes, OverlapsApart, Overlaps

LEMMA PollFields ==
  ASSUME NEW p \in PollState
  PROVE  /\ LET q == [p EXCEPT !.at = "expired", !.forced = TRUE] IN
              q \in PollState /\ q.at = "expired" /\ q.peers = p.peers
         /\ LET q == [p EXCEPT !.at = "waiting"] IN
              q \in PollState /\ q.at = "waiting" /\ (q.forced <=> p.forced) /\ q.peers = p.peers
         /\ NoPoll \in PollState /\ NoPoll.at = "idle" /\ ~NoPoll.forced /\ NoPoll.peers = {}
BY DEF PollState, NoPoll

LEMMA OtherSteps ==
  ASSUME ControlIInv,
         \/ OtherExpires \/ SecondStatement \/ PollRound \/ NoContent \/ LoseAnswer \/ ViewsLost
         \/ UNCHANGED controlVars
  PROVE  ControlIInv'
<1>1. /\ ControlTypes /\ revision \in Nat /\ bumps \in {0, 1} /\ MaxRevision \in Nat
      /\ revision + bumps <= MaxRevision /\ lostBump \in BOOLEAN /\ poll \in PollState
      /\ node.since \in Nat /\ node.since <= revision
  BY ControlAssumption DEF ControlIInv, ControlTypes, AgentMap, PollIsAhead
<1>2. CASE OtherExpires
  <2>1. /\ ClearOverlaps /\ AgentUnchanged /\ UNCHANGED <<revision, lostBump>>
        /\ bumps = 0 /\ bumps' = 1 /\ revision + bumps < MaxRevision
    BY <1>2 DEF OtherExpires, Room
  <2>2. revision + bumps <= revision' + bumps' /\ revision' + bumps' <= MaxRevision /\ revision <= revision'
    BY <1>1, <2>1
  <2> QED
    BY <1>1, <2>1, <2>2, ClearKeeps, WritersKeep DEF AgentUnchanged
<1>3. CASE SecondStatement
  <2>1. /\ AgentUnchanged /\ UNCHANGED <<nodeRows, lostBump>>
        /\ bumps > 0 /\ bumps' = bumps - 1 /\ revision' = revision + 1
    BY <1>3 DEF SecondStatement
  <2>2. /\ revision + bumps <= revision' + bumps' /\ revision' + bumps' <= MaxRevision /\ revision <= revision'
        /\ revision' \in Nat /\ bumps' \in {0, 1}
    BY <1>1, <2>1
  <2> QED
    BY <1>1, <2>1, <2>2, SameRowsKeep, WritersKeep DEF AgentUnchanged
<1>4. CASE PollRound
  <2>1. UNCHANGED <<revision, lostBump, baseline, node, saved, clean>>
    BY <1>4 DEF PollRound
  <2>2. CASE /\ bumps = 0 /\ bumps' = 1 /\ Room /\ ClearOverlaps
             /\ poll' = [poll EXCEPT !.at = "expired", !.forced = TRUE]
    <3>1. revision + bumps <= revision' + bumps' /\ revision' + bumps' <= MaxRevision /\ revision <= revision'
          /\ node.since < revision' + bumps'
      BY <1>1, <2>1, <2>2 DEF Room
    <3>2. poll' \in PollState /\ poll'.at = "expired" /\ poll'.peers = poll.peers
      BY <1>1, <2>2, PollFields
    <3> QED
      BY <1>1, <2>1, <2>2, <3>1, <3>2, ClearKeeps, WritersKeep
  <2>3. CASE poll.at = "idle" /\ poll' = [poll EXCEPT !.at = "waiting"] /\ UNCHANGED <<nodeRows, bumps>>
    <3>1. ~poll.forced
      BY <2>3 DEF ControlIInv, PollIsAhead
    <3>2. poll' \in PollState /\ poll'.at = "waiting" /\ poll'.peers = poll.peers /\ ~poll'.forced
      BY <1>1, <2>3, <3>1, PollFields
    <3> QED
      BY <1>1, <2>1, <2>3, <3>2, SameRowsKeep, WritersKeep
  <2> QED
    BY <1>4, <2>2, <2>3 DEF PollRound
<1>5. CASE NoContent \/ LoseAnswer
  <2>1. UNCHANGED <<nodeRows, revision, bumps, lostBump, baseline, node, saved, clean>> /\ poll' = NoPoll
    BY <1>5 DEF NoContent, LoseAnswer
  <2>2. poll' \in PollState /\ poll'.at = "idle" /\ poll'.peers = {} /\ ~poll'.forced
    BY <1>1, <2>1, PollFields
  <2> QED
    BY <1>1, <2>1, <2>2, SameRowsKeep, WritersKeep
<1>6. CASE ViewsLost
  <2>1. UNCHANGED <<nodeRows, revision, node, saved, clean>> /\ baseline' = NoView
    BY <1>6 DEF ViewsLost
  <2>2. CASE UNCHANGED <<bumps, lostBump, poll>>
    BY <1>1, <2>1, <2>2, SameRowsKeep, WritersKeep
  <2>3. CASE poll' = NoPoll /\ bumps' = 0 /\ lostBump' = (lostBump \/ bumps > 0)
    <3>1. poll' \in PollState /\ poll'.at = "idle" /\ poll'.peers = {} /\ ~poll'.forced
      BY <1>1, <2>3, PollFields
    <3>2. lostBump' \in BOOLEAN /\ (lostBump => lostBump') /\ (bumps = 1 => lostBump')
      <4> DEFINE b == bumps > 0
      <4>1. bumps = 1 => b
        BY <1>1
      <4>2. lostBump' = (lostBump \/ b)
        BY <2>3
      <4> HIDE DEF b
      <4> QED
        BY <4>1, <4>2, Zenon
    <3>3. revision' + bumps' <= MaxRevision /\ revision <= revision'
      BY <1>1, <2>1, <2>3
    <3>4. lostBump' \/ revision + bumps <= revision' + bumps'
      BY <1>1, <2>1, <2>3, <3>2
    <3> QED
      BY <1>1, <2>1, <2>3, <3>1, <3>2, <3>3, <3>4, SameRowsKeep, WritersKeep
  <2> QED
    BY <1>6, <2>2, <2>3 DEF ViewsLost
<1>7. CASE UNCHANGED controlVars
  BY <1>1, <1>7, SameRowsKeep, WritersKeep DEF controlVars
<1> QED
  BY <1>2, <1>3, <1>4, <1>5, <1>6, <1>7

LEMMA FiniteRange ==
  ASSUME NEW S, IsFiniteSet(S), NEW f, f = [x \in S |-> f[x]]
  PROVE  IsFiniteSet({f[x] : x \in S})
<1> DEFINE T == {f[x] : x \in S}
<1>1. f \in Surjection(S, T)
  BY DEF Surjection
<1> QED
  BY <1>1, FS_Surjection

(* What list_peers() exports, and what the agent makes of it.              *)
LEMMA ExportedOwned ==
  ASSUME ControlTypes
  PROVE  /\ Exported \subseteq Entries /\ IsFiniteSet(Exported)
         /\ \A e \in Exported : Owned(e) /\ nodeRows[e.class].live
<1> USE ControlAssumption
<1> DEFINE Live == {m \in Nodes : nodeRows[m].live}
           Lapping == {m \in Nodes : nodeRows[m].live /\ Overlaps(m)}
           own(n) == Entry(n, n, nodeRows[n].key)
           old(n) == Entry(nodeRows[n].overlap.id, n, nodeRows[n].overlap.key)
           A == {own(n) : n \in Live}
           B == {old(n) : n \in Lapping}
<1>1. Exported = A \cup B
  BY DEF Exported, Overlaps
<1>2. IsFiniteSet(Live) /\ IsFiniteSet(Lapping)
  BY FS_Subset
<1>3. IsFiniteSet(A) /\ IsFiniteSet(B)
  <2> DEFINE f == [n \in Live |-> own(n)]
             g == [n \in Lapping |-> old(n)]
  <2>1. A = {f[n] : n \in Live} /\ B = {g[n] : n \in Lapping}
    BY Zenon
  <2>2. f = [n \in Live |-> f[n]] /\ g = [n \in Lapping |-> g[n]]
    OBVIOUS
  <2> HIDE DEF f, g, Live, Lapping, A, B
  <2> QED
    BY <1>2, <2>1, <2>2, FiniteRange
<1>4. IsFiniteSet(Exported)
  BY <1>1, <1>3, FS_Union
<1>5. ASSUME NEW n \in Live PROVE own(n) \in Entries /\ Owned(own(n)) /\ own(n).class = n
  <2>1. nodeRows[n] \in PeerRow /\ OverlapsApart
    BY DEF ControlTypes
  <2>2. own(n) \in Entries /\ own(n).class = n /\ own(n).id = n
    BY <2>1 DEF Entry, Entries, PeerRow
  <2> HIDE DEF own
  <2>3. n \notin OverlapIds
    OBVIOUS
  <2> QED
    BY <2>1, <2>2, <2>3 DEF Owned, OverlapsApart
<1>6. ASSUME NEW n \in Lapping PROVE old(n) \in Entries /\ Owned(old(n)) /\ old(n).class = n
  <2>1. nodeRows[n] \in PeerRow /\ OverlapsApart
    BY DEF ControlTypes
  <2>2. old(n) \in Entries /\ old(n).class = n /\ old(n).id = nodeRows[n].overlap.id
    BY <2>1 DEF Entry, Entries, PeerRow, OverlapRow
  <2> HIDE DEF old
  <2>3. nodeRows[n].overlap.id \in OverlapIds /\ nodeRows[n].overlap.id \notin Nodes
    BY <2>1 DEF OverlapsApart
  <2> QED
    BY <2>1, <2>2, <2>3 DEF Owned, OverlapsApart
<1> HIDE DEF own, old
<1> QED
  BY <1>1, <1>4, <1>5, <1>6

(* A set of numbers that is not empty has a least element: what induction  *)
(* is reduced to below.                                                    *)
LEMMA LeastNumber ==
  ASSUME NEW T, T \subseteq Nat, T # {}
  PROVE  \E x \in T : \A y \in T : x <= y
<1>1. PICK x \in T : \A y \in T : ~ (<<y, x>> \in OpToRel(<, Nat))
  BY WFMin, NatLessThanWellFounded
<1>2. ASSUME NEW y \in T PROVE x <= y
  <2>1. ~ (y < x)
    BY <1>1, <1>2 DEF OpToRel
  <2> QED
    BY <2>1
<1> QED
  BY <1>2

(* Some element of a finite set has the largest value: the one with the    *)
(* fewest above it.                                                        *)
LEMMA GreatestValue ==
  ASSUME NEW M, IsFiniteSet(M), M # {}, NEW f \in [M -> Nat]
  PROVE  \E m \in M : \A k \in M : f[k] <= f[m]
<1> DEFINE Above(m) == {k \in M : f[k] > f[m]}
           T == {Cardinality(Above(m)) : m \in M}
<1>1. ASSUME NEW m \in M PROVE IsFiniteSet(Above(m)) /\ Cardinality(Above(m)) \in Nat
  <2>1. Above(m) \in SUBSET M
    OBVIOUS
  <2> HIDE DEF Above
  <2>2. IsFiniteSet(Above(m))
    BY <2>1, FS_Subset
  <2> QED
    BY <2>2, FS_CardinalityType
<1>2. T \subseteq Nat /\ T # {}
  BY <1>1
<1>3. PICK m \in M : \A k \in M : Cardinality(Above(m)) <= Cardinality(Above(k))
  <2> HIDE DEF T
  <2>1. PICK t \in T : \A u \in T : t <= u
    BY <1>2, LeastNumber
  <2> QED
    BY <2>1 DEF T
<1>4. ASSUME NEW k \in M, ~(f[k] <= f[m]) PROVE FALSE
  <2>1. k \in Above(m) /\ k \notin Above(k) /\ Above(k) \in SUBSET Above(m)
    BY <1>4
  <2> HIDE DEF Above
  <2>2. Cardinality(Above(k)) <= Cardinality(Above(m)) /\ Cardinality(Above(k)) # Cardinality(Above(m))
    BY <1>1, <2>1, FS_Subset
  <2> QED
    BY <1>1, <1>3, <2>2
<1> QED
  BY <1>4

LEMMA LastAndFirst ==
  ASSUME NEW X, X \subseteq Entries, IsFiniteSet(X), X # {}
  PROVE  Last(X) \in X /\ First(X) \in X
<1>1. \A e \in X : e.id \in Nat
  BY DEF Entries
<1>2. \E e \in X : \A f \in X : f.id <= e.id
  <2> DEFINE g == [e \in X |-> e.id]
  <2>1. g \in [X -> Nat] /\ \A e \in X : g[e] = e.id
    BY <1>1
  <2> HIDE DEF g
  <2>2. \E e \in X : \A f \in X : g[f] <= g[e]
    BY <2>1, GreatestValue
  <2> QED
    BY <2>1, <2>2
<1>3. \E e \in X : \A f \in X : e.id <= f.id
  <2> DEFINE T == {e.id : e \in X}
  <2>1. T \subseteq Nat /\ T # {}
    BY <1>1
  <2>2. \A e \in X : e.id \in T
    OBVIOUS
  <2>3. \A t \in T : \E e \in X : t = e.id
    OBVIOUS
  <2> HIDE DEF T
  <2>4. PICK t \in T : \A u \in T : t <= u
    BY <2>1, LeastNumber
  <2> QED
    BY <2>2, <2>3, <2>4
<1>4. Last(X) \in X
  BY <1>2, Zenon DEF Last
<1>5. First(X) \in X
  BY <1>3, Zenon DEF First
<1> QED
  BY <1>4, <1>5

(* installable_wireguard_peers() installs only what it was asked to, each  *)
(* entry for the peer whose it is.                                         *)
LEMMA Picked ==
  ASSUME NEW D, D \subseteq Entries, IsFiniteSet(D), NEW kind, NEW n \in Nodes
  PROVE  \/ Installable(D, kind)[n] = NoEntry
         \/ Installable(D, kind)[n] \in D /\ Installable(D, kind)[n].class = n
<1> DEFINE mine == {e \in D : e.class = n}
           same == {e \in mine : node.peers[n] # NoEntry /\ e.key = node.peers[n].key}
           current == {e \in mine : kind = "snapshot" /\ e.id = n}
<1>1. Installable(D, kind)[n] =
        IF same # {} THEN Last(same)
        ELSE IF mine = {} THEN NoEntry
        ELSE IF current # {} THEN First(current) ELSE First(mine)
  BY DEF Installable
<1>2. /\ mine \subseteq D /\ same \subseteq mine /\ current \subseteq mine
      /\ \A e \in mine : e.class = n
  OBVIOUS
<1> HIDE DEF mine, same, current
<1>3. IsFiniteSet(mine) /\ IsFiniteSet(same) /\ IsFiniteSet(current)
  BY <1>2, FS_Subset
<1>4. mine \subseteq Entries /\ same \subseteq Entries /\ current \subseteq Entries
  BY <1>2
<1>5. /\ same # {} => Last(same) \in same
      /\ current # {} => First(current) \in current
      /\ mine # {} => First(mine) \in mine
  BY <1>3, <1>4, LastAndFirst
<1> QED
  BY <1>1, <1>2, <1>5

LEMMA InstalledTypes ==
  ASSUME NEW D, D \subseteq Entries, IsFiniteSet(D), NEW kind
  PROVE  Installable(D, kind) \in [Nodes -> Entries]
<1>1. NoEntry \in Entries
  BY DEF NoEntry, Entries
<1> DEFINE I == Installable(D, kind)
<1>2. I = [n \in Nodes |-> I[n]]
  BY DEF Installable
<1>3. \A n \in Nodes : I[n] \in Entries
  BY <1>1, Picked
<1> HIDE DEF I
<1>4. I \in [Nodes -> Entries]
  BY <1>2, <1>3
<1> QED
  BY <1>4 DEF I

(* The agent's own steps, each of which ends a request.                    *)
LEMMA AgentMoves ==
  ASSUME ControlIInv, UNCHANGED <<nodeRows, revision, bumps, lostBump, baseline>>,
         node' \in AgentMap, saved' \in AgentMap, node'.since <= revision, saved'.since <= revision,
         poll' \in {poll, NoPoll}, poll'.at = "idle",
         \A n \in Nodes : node'.peers[n] # NoEntry => Owned(node'.peers[n]) /\ node'.peers[n].class = n,
         saved'.peers = node'.peers, clean' \in BOOLEAN, clean' => saved' = node',
         clean' => \A n \in Nodes : node'.peers[n] # NoEntry =>
                     /\ GoneSince(n, node'.since)
                     /\ baseline.revision = node'.since => node'.peers[n].id \in baseline.ids
  PROVE  ControlIInv'
<1>1. poll' \in PollState /\ poll'.peers \subseteq poll.peers /\ ~poll'.forced
  <2>1. CASE poll' = poll
    BY <2>1 DEF ControlIInv, ControlTypes, PollIsAhead
  <2>2. CASE poll' = NoPoll
    BY <2>2, PollFields DEF ControlIInv, ControlTypes
  <2> QED
    BY <2>1, <2>2
<1>2. IsFiniteSet(poll'.peers)
  BY <1>1, FS_Subset DEF ControlIInv, ControlTypes
<1>3. ControlTypes'
  BY <1>1, <1>2 DEF ControlIInv, ControlTypes, OverlapsApart, Overlaps
<1>4. \A e : Owned(e)' <=> Owned(e)
  BY DEF Owned, Overlaps
<1>5. EntriesOwned'
  BY <1>1, <1>4 DEF ControlIInv, EntriesOwned, Held
<1>6. PollIsAhead'
  BY <1>1 DEF PollIsAhead
<1>7. SavedIsHeld' /\ AnswerIsSafe'
  BY DEF SavedIsHeld, AnswerIsSafe
<1>8. BaselineCovers' /\ HeldIsNews'
  BY DEF BaselineCovers, HeldIsNews, Held, GoneSince
<1> QED
  BY <1>3, <1>5, <1>6, <1>7, <1>8 DEF ControlIInv

LEMMA ApplyKeeps ==
  ASSUME ControlIInv, ApplyPeerMap
  PROVE  ControlIInv'
<1> DEFINE held == {node.peers[n] : n \in Nodes}
           kept == {e \in held \ {NoEntry} : e.id \notin poll.removed \cup IdsOf(poll.peers)}
           I == Installable(Desired, poll.kind)
<1>1. /\ ControlTypes /\ node \in AgentMap /\ poll \in PollState /\ poll.at = "sent"
      /\ poll.peers \subseteq Entries /\ IsFiniteSet(poll.peers) /\ poll.revision \in Nat
      /\ poll.revision <= revision /\ clean \in BOOLEAN
  BY DEF ApplyPeerMap, ControlIInv, ControlTypes, PollState, PollIsAhead
<1>2. held \subseteq Entries /\ IsFiniteSet(held)
  <2>1. node.peers \in [Nodes -> Entries]
    BY <1>1 DEF AgentMap
  <2>2. node.peers = [n \in Nodes |-> node.peers[n]]
    BY <2>1
  <2> QED
    BY <2>1, <2>2, ControlAssumption, FiniteRange
<1>3. kept \subseteq held /\ Desired = IF poll.kind = "delta" THEN kept \cup poll.peers ELSE poll.peers
  BY DEF Desired
<1>4. \A e \in kept : \E n \in Nodes : e = node.peers[n] /\ Stays(n)
  BY DEF Stays, Held
<1> HIDE DEF held, kept
<1>5. IsFiniteSet(kept) /\ kept \subseteq Entries
  BY <1>2, <1>3, FS_Subset
<1>6. Desired \subseteq Entries /\ IsFiniteSet(Desired)
  <2>1. IsFiniteSet(kept \cup poll.peers)
    BY <1>1, <1>5, FS_Union
  <2> QED
    BY <1>1, <1>3, <1>5, <2>1
<1>7. I \in [Nodes -> Entries]
  BY <1>6, InstalledTypes
<1>8. ASSUME NEW n \in Nodes, I[n] # NoEntry
      PROVE  /\ I[n].class = n
             /\ I[n] \in poll.peers \/ (poll.kind = "delta" /\ I[n] = node.peers[n] /\ Stays(n))
  <2>1. I[n] \in Desired /\ I[n].class = n
    BY <1>6, <1>8, Picked
  <2>2. CASE I[n] \in poll.peers
    BY <2>1, <2>2
  <2>3. CASE I[n] \notin poll.peers
    <3>1. I[n] \in kept /\ poll.kind = "delta"
      BY <1>3, <2>1, <2>3
    <3>2. PICK m \in Nodes : I[n] = node.peers[m] /\ Stays(m)
      BY <1>4, <3>1
    <3>3. node.peers[m].class = m
      BY <3>2 DEF ControlIInv, EntriesOwned, Stays
    <3> QED
      BY <2>1, <3>1, <3>2, <3>3
  <2> QED
    BY <2>2, <2>3
<1>9. /\ node' = [since |-> poll.revision, peers |-> I] /\ saved' = node' /\ poll' = NoPoll
      /\ clean' = (clean \/ poll.kind = "snapshot")
      /\ UNCHANGED <<nodeRows, revision, bumps, lostBump, baseline>>
  BY DEF ApplyPeerMap
<1> HIDE DEF I
<1>10. node' \in AgentMap /\ node'.since = poll.revision /\ node'.peers = I
  BY <1>1, <1>7, <1>9 DEF AgentMap
<1>11. ASSUME NEW n \in Nodes, I[n] # NoEntry PROVE Owned(I[n])
  BY <1>8, <1>11 DEF ControlIInv, EntriesOwned, Stays
<1>12. ASSUME clean', NEW n \in Nodes, I[n] # NoEntry
       PROVE  GoneSince(n, poll.revision) /\ (baseline.revision = poll.revision => I[n].id \in baseline.ids)
  <2>1. CASE I[n] \in poll.peers
    <3>1. I[n].class = n
      BY <1>8, <1>12
    <3>2. I[n].id \in IdsOf(poll.peers)
      BY <2>1 DEF IdsOf
    <3> QED
      BY <1>1, <2>1, <3>1, <3>2 DEF ControlIInv, AnswerIsSafe
  <2>2. CASE I[n] \notin poll.peers
    <3>1. poll.kind = "delta" /\ I[n] = node.peers[n] /\ Stays(n)
      BY <1>8, <1>12, <2>2
    <3>2. clean
      BY <1>1, <1>9, <1>12, <3>1
    <3> QED
      BY <1>1, <3>1, <3>2 DEF ControlIInv, AnswerIsSafe
  <2> QED
    BY <2>1, <2>2
<1>13. poll'.at = "idle" /\ clean' \in BOOLEAN
  BY <1>1, <1>9, PollFields
<1> QED
  BY <1>1, <1>8, <1>9, <1>10, <1>11, <1>12, <1>13, AgentMoves

LEMMA FaultsKeep ==
  ASSUME ControlIInv, ApplyFails \/ PeersRecovery \/ AgentRestart
  PROVE  ControlIInv'
<1>1. /\ ControlTypes /\ node \in AgentMap /\ saved \in AgentMap /\ poll \in PollState
      /\ poll.revision \in Nat /\ node.since <= revision /\ saved.since <= revision
      /\ saved.peers = node.peers /\ (clean => saved = node) /\ clean \in BOOLEAN
  BY DEF ControlIInv, ControlTypes, PollState, PollIsAhead, SavedIsHeld
<1>2. \A n \in Nodes : Held(n) => Owned(node.peers[n]) /\ node.peers[n].class = n
  BY DEF ControlIInv, EntriesOwned
<1>3. NoPoll.at = "idle"
  BY DEF NoPoll
<1>4. CASE ApplyFails
  <2>1. /\ node' = [node EXCEPT !.since = poll.revision] /\ clean' = FALSE /\ poll' = NoPoll
        /\ UNCHANGED <<nodeRows, revision, bumps, lostBump, baseline, saved>> /\ poll.at = "sent"
    BY <1>4 DEF ApplyFails
  <2>2. node' \in AgentMap /\ node'.since = poll.revision /\ node'.peers = node.peers
    BY <1>1, <2>1 DEF AgentMap
  <2>3. poll.revision <= revision
    BY <2>1 DEF ControlIInv, PollIsAhead
  <2> QED
    BY <1>1, <1>2, <1>3, <2>1, <2>2, <2>3, AgentMoves DEF Held
<1>5. CASE PeersRecovery
  <2> DEFINE I == Installable(Exported, "snapshot")
  <2>1. /\ node' = [node EXCEPT !.peers = I] /\ saved' = node' /\ clean' = FALSE /\ poll.at = "idle"
        /\ UNCHANGED <<nodeRows, revision, bumps, lostBump, baseline, poll>>
    BY <1>5 DEF PeersRecovery
  <2>2. I \in [Nodes -> Entries]
    BY <1>1, ExportedOwned, InstalledTypes
  <2>3. \A n \in Nodes : I[n] # NoEntry => Owned(I[n]) /\ I[n].class = n
    BY <1>1, ExportedOwned, Picked
  <2> HIDE DEF I
  <2>4. node' \in AgentMap /\ node'.since = node.since /\ node'.peers = I
    BY <1>1, <2>1, <2>2 DEF AgentMap
  <2> QED
    BY <1>1, <2>1, <2>3, <2>4, AgentMoves
<1>6. CASE AgentRestart
  <2>1. /\ node # saved /\ node' = saved /\ poll' = NoPoll
        /\ UNCHANGED <<nodeRows, revision, bumps, lostBump, baseline, saved, clean>>
    BY <1>6 DEF AgentRestart
  <2>2. clean' = FALSE
    BY <1>1, <2>1
  <2> QED
    BY <1>1, <1>2, <1>3, <2>1, <2>2, AgentMoves DEF Held
<1> QED
  BY <1>4, <1>5, <1>6

LEMMA ReadKeeps ==
  ASSUME ControlIInv, ReadRevision
  PROVE  ControlIInv'
<1>1. /\ ControlTypes /\ poll \in PollState /\ revision \in Nat \ {0} /\ bumps \in {0, 1}
      /\ node.since \in Nat /\ node.since <= revision
  BY DEF ControlIInv, ControlTypes, AgentMap, PollIsAhead
<1>2. /\ poll' = [poll EXCEPT !.at = "read", !.revision = revision]
      /\ UNCHANGED <<nodeRows, revision, bumps, lostBump, baseline, node, saved, clean>>
  BY DEF ReadRevision
<1>3. poll' \in PollState /\ poll'.at = "read" /\ poll'.revision = revision /\ poll'.peers = poll.peers
  BY <1>1, <1>2 DEF PollState
<1>4. node.since < revision
  <2>1. CASE poll.at = "waiting"
    <3>1. node.since = 0 \/ revision > node.since
      BY <2>1 DEF ReadRevision, ControlIInv, PollIsAhead
    <3> QED
      BY <1>1, <3>1
  <2>2. CASE poll.at = "expired" /\ bumps = 0
    <3>1. node.since < revision + bumps
      BY <2>2 DEF ControlIInv, PollIsAhead
    <3> QED
      BY <1>1, <2>2, <3>1
  <2> QED
    BY <2>1, <2>2 DEF ReadRevision, Readable
<1>5. ControlTypes'
  BY <1>1, <1>2, <1>3 DEF ControlTypes, OverlapsApart, Overlaps
<1>6. EntriesOwned'
  BY <1>2, <1>3 DEF ControlIInv, EntriesOwned, Owned, Overlaps, Held
<1>7. PollIsAhead'
  BY <1>1, <1>2, <1>3, <1>4 DEF ControlIInv, PollIsAhead
<1>8. SavedIsHeld' /\ BaselineCovers' /\ HeldIsNews'
  BY <1>2 DEF ControlIInv, SavedIsHeld, BaselineCovers, HeldIsNews, Held, GoneSince
<1>9. AnswerIsSafe'
  BY <1>3 DEF AnswerIsSafe
<1> QED
  BY <1>5, <1>6, <1>7, <1>8, <1>9 DEF ControlIInv

(* An answer made from what is exported now.                               *)
LEMMA AnswerSent ==
  ASSUME ControlIInv, poll.at = "read", NEW ids,
         UNCHANGED <<nodeRows, revision, bumps, lostBump, node, saved, clean>>,
         baseline' \in [revision : Nat, ids : SUBSET (Nodes \cup OverlapIds)],
         baseline'.revision = poll.revision, baseline'.ids = ids,
         poll' \in PollState, poll'.at = "sent", poll'.kind \in {"snapshot", "delta"},
         poll'.revision = poll.revision, IsFiniteSet(poll'.peers),
         \A e \in poll'.peers : Owned(e) /\ nodeRows[e.class].live /\ e.id \in ids,
         \A n \in Nodes : Held(n) /\ node.peers[n].id \in ids => nodeRows[n].live,
         poll'.kind = "delta" /\ clean =>
           \A n \in Nodes : Held(n) => node.peers[n].id \in ids \cup poll'.removed
  PROVE  ControlIInv'
<1>1. ControlTypes'
  BY DEF ControlIInv, ControlTypes, OverlapsApart, Overlaps
<1>2. \A e : Owned(e)' <=> Owned(e)
  BY DEF Owned, Overlaps
<1>3. EntriesOwned'
  BY <1>2 DEF ControlIInv, EntriesOwned, Held
<1>4. PollIsAhead'
  BY DEF ControlIInv, PollIsAhead
<1>5. node.since # poll.revision
  BY DEF ControlIInv, PollIsAhead, ControlTypes, AgentMap, PollState
<1>6. SavedIsHeld' /\ BaselineCovers' /\ HeldIsNews'
  BY <1>5 DEF ControlIInv, SavedIsHeld, BaselineCovers, HeldIsNews, Held, GoneSince
<1>7. AnswerIsSafe'
  <2>1. \A e \in poll'.peers : GoneSince(e.class, poll.revision)'
    BY DEF GoneSince
  <2>2. IdsOf(poll'.peers) \subseteq ids
    BY DEF IdsOf
  <2>3. ASSUME poll'.kind = "delta", clean, NEW n \in Nodes, Stays(n)'
        PROVE  GoneSince(n, poll.revision)' /\ node'.peers[n].id \in ids
    BY <2>3 DEF Stays, Held, GoneSince
  <2> QED
    BY <2>1, <2>2, <2>3 DEF AnswerIsSafe, IdsOf
<1> QED
  BY <1>1, <1>3, <1>4, <1>6, <1>7 DEF ControlIInv

LEMMA AnswerKeeps ==
  ASSUME ControlIInv, AnswerPoll
  PROVE  ControlIInv'
<1> DEFINE ids == IdsOf(Exported)
           added == {e \in Exported : e.id \notin baseline.ids}
           gone == baseline.ids \ ids
           delta == BaselineFits /\ (added # {} \/ gone # {})
<1>1. /\ ControlTypes /\ poll \in PollState /\ poll.at = "read" /\ revision \in Nat /\ poll.revision \in Nat
      /\ node.since \in Nat /\ node.since < poll.revision /\ poll.revision <= revision
      /\ baseline.ids \subseteq Nodes \cup OverlapIds
  BY DEF AnswerPoll, ControlIInv, ControlTypes, AgentMap, PollIsAhead, PollState
<1>2. /\ Exported \subseteq Entries /\ IsFiniteSet(Exported)
      /\ \A e \in Exported : Owned(e) /\ nodeRows[e.class].live
  BY <1>1, ExportedOwned
<1>3. ids \subseteq Nodes \cup OverlapIds
  BY <1>2 DEF IdsOf, Owned
<1>4. added \subseteq Exported /\ IsFiniteSet(added) /\ gone \subseteq Nodes \cup OverlapIds
  BY <1>1, <1>2, FS_Subset
<1>5. /\ baseline' = [revision |-> poll.revision, ids |-> ids]
      /\ UNCHANGED <<nodeRows, revision, bumps, lostBump, node, saved, clean>>
      /\ poll' = IF delta
                 THEN [poll EXCEPT !.at = "sent", !.kind = "delta", !.peers = added, !.removed = gone]
                 ELSE [poll EXCEPT !.at = "sent", !.kind = "snapshot", !.peers = Exported]
  BY DEF AnswerPoll
<1>6. \A e \in Exported : e.id \in ids
  BY DEF IdsOf
<1>7. \A n \in Nodes : Held(n) /\ node.peers[n].id \in ids => nodeRows[n].live
  <2> SUFFICES ASSUME NEW n \in Nodes, Held(n), node.peers[n].id \in ids PROVE nodeRows[n].live
    OBVIOUS
  <2>1. PICK e \in Exported : e.id = node.peers[n].id
    BY DEF IdsOf
  <2>2. Owned(node.peers[n]) /\ node.peers[n].class = n
    BY DEF ControlIInv, EntriesOwned
  <2>3. e.class = n
    <3>1. CASE e.id \in Nodes
      BY <1>2, <2>1, <2>2, <3>1 DEF Owned
    <3>2. CASE e.id \notin Nodes
      <4>1. PICK m \in Nodes : nodeRows[m].live /\ Overlaps(m) /\ e = Entry(nodeRows[m].overlap.id, m, nodeRows[m].overlap.key)
        BY <3>2 DEF Exported, Overlaps, Entry
      <4>2. e.class = m /\ e.id = nodeRows[m].overlap.id
        BY <4>1 DEF Entry
      <4> QED
        BY <2>1, <2>2, <4>1, <4>2 DEF Owned
    <3> QED
      BY <3>1, <3>2
  <2> QED
    BY <1>2, <2>3
<1>8. baseline'.revision = poll.revision /\ baseline'.ids = ids
      /\ baseline' \in [revision : Nat, ids : SUBSET (Nodes \cup OverlapIds)]
  BY <1>1, <1>3, <1>5
<1>9. CASE delta
  <2>1. clean => \A n \in Nodes : Held(n) => node.peers[n].id \in baseline.ids
    BY <1>9 DEF BaselineFits, ControlIInv, BaselineCovers
  <2>2. gone = baseline.ids \ ids
    OBVIOUS
  <2>3. added \subseteq Entries /\ \A e \in added : Owned(e) /\ nodeRows[e.class].live /\ e.id \in ids
    BY <1>2, <1>4, <1>6
  <2>4. poll' = [poll EXCEPT !.at = "sent", !.kind = "delta", !.peers = added, !.removed = gone]
    BY <1>5, <1>9
  <2> HIDE DEF added, gone, delta, ids
  <2>5. /\ poll' \in PollState /\ poll'.at = "sent" /\ poll'.kind = "delta" /\ poll'.peers = added
        /\ poll'.removed = gone /\ poll'.revision = poll.revision
    BY <1>1, <1>4, <2>3, <2>4 DEF PollState
  <2> QED
    BY <1>1, <1>4, <1>5, <1>7, <1>8, <2>1, <2>2, <2>3, <2>5, AnswerSent
<1>10. CASE ~delta
  <2>1. poll' = [poll EXCEPT !.at = "sent", !.kind = "snapshot", !.peers = Exported]
    BY <1>5, <1>10
  <2>2. /\ poll' \in PollState /\ poll'.at = "sent" /\ poll'.kind = "snapshot" /\ poll'.peers = Exported
        /\ poll'.revision = poll.revision
    BY <1>1, <1>2, <2>1 DEF PollState
  <2> HIDE DEF added, gone, delta, ids
  <2> QED
    BY <1>1, <1>2, <1>5, <1>6, <1>7, <1>8, <2>2, AnswerSent
<1> QED
  BY <1>9, <1>10

LEMMA ControlStepIInv == ControlIInv /\ [ControlNext]_controlVars => ControlIInv'
BY PeerWriters, RotateKeeps, OtherSteps, ApplyKeeps, FaultsKeep, ReadKeeps, AnswerKeeps
   DEF ControlNext, ControlStep

LEMMA ControlIInvImplies == ControlIInv => ControlInv
<1> SUFFICES ASSUME ControlIInv PROVE ControlInv
  OBVIOUS
<1> USE ControlAssumption
<1>1. ControlTypes /\ node \in AgentMap /\ saved \in AgentMap
  BY DEF ControlIInv, ControlTypes
<1>2. /\ \A n \in Nodes : /\ nodeRows[n].live \in BOOLEAN /\ nodeRows[n].key \in 1 .. Rotations
                          /\ nodeRows[n].policy \in {0, 1}
  BY <1>1 DEF ControlTypes, PeerRow
<1>3. revision \in 1 .. MaxRevision /\ bumps \in 0 .. 1
  BY <1>1 DEF ControlTypes
<1>4. node.since \in 0 .. revision /\ saved.since \in 0 .. revision
  BY <1>1, <1>3 DEF ControlIInv, PollIsAhead, AgentMap
<1>5. \A n \in Nodes : node.peers[n] \in Entries
  BY <1>1 DEF AgentMap
<1>6. baseline.ids \subseteq Nodes \cup OverlapIds /\ poll.peers \subseteq Entries
  BY <1>1 DEF ControlTypes, PollState
<1>7. ControlTypeOK
  BY <1>2, <1>3, <1>4, <1>5, <1>6 DEF ControlTypeOK
<1>8. NoGhostPeers
  <2> SUFFICES ASSUME clean, node.since = revision, bumps = 0, ~lostBump, NEW n \in Nodes, Held(n)
               PROVE  nodeRows[n].live
    BY DEF NoGhostPeers, Held
  <2>1. ~nodeRows[n].live => node.since < revision + bumps
    BY DEF ControlIInv, HeldIsNews, GoneSince
  <2> QED
    BY <1>3, <2>1
<1> QED
  BY <1>7, <1>8 DEF ControlInv

(* An agent that has acknowledged the current revision and has applied     *)
(* every answer since its last snapshot holds no revoked peer, through     *)
(* lost answers, restarts of either side, forgotten views and key overlaps *)
(* (control_update_from_snapshot(), apply_control_peers()); and it is      *)
(* never ahead of the coordinator.  For any finite set of peers.           *)
THEOREM ControlAlwaysHolds == ControlSpec => []ControlInv
BY ControlInitIInv, ControlStepIInv, ControlIInvImplies, PTL DEF ControlSpec

-----------------------------------------------------------------------------
(* The outbox.                                                             *)

WaitBound == 2 ^ AtMost(MAX_ATTEMPTS, 7) + DAY + MaxAge
RowState == [st : {"pending", "delivered", "dead"}, attempts : 0 .. MAX_ATTEMPTS,
             wait : 0 .. WaitBound, age : 0 .. MaxAge]
DestState == [made : BOOLEAN, enabled : BOOLEAN, chat : BOOLEAN,
              sched : Schedules \cup {NoSchedule}, subs : SUBSET Events]
PlanEntry == [held : BOOLEAN, left : 0 .. WaitBound, attempts : 0 .. MAX_ATTEMPTS - 1,
              digest : BOOLEAN]
Plans == UNION {[D -> PlanEntry] : D \in SUBSET RowIds}
Counts == UNION {[D -> 0 .. MAX_ATTEMPTS - 1] : D \in SUBSET RowIds}
Handlings == [step : {"handling"}, late : Nat, plan : Plans, known : SUBSET RowIds]
Recordings == [step : {"recording"}, late : Nat, ok : BOOLEAN, batch : Counts, plan : Plans,
               known : SUBSET RowIds]
LoopState == {Resting} \cup Handlings \cup Recordings

OutboxTypes ==
  /\ dest \in [Dests -> DestState \cup {[made |-> FALSE, enabled |-> FALSE]}]
  /\ outbox \in [RowIds -> RowState \cup {Absent}]
  /\ loop \in [Loops -> LoopState]
  /\ minute \in 0 .. DAY - 1

(* What a loop carries from its reading of the database to its writes: only *)
(* rows that are there, no critical row to postpone, and as delivered only *)
(* what was received.                                                      *)
Present == {r \in RowIds : outbox[r] # Absent}
LoopSafe(l, there, got) ==
  /\ l.step # "idle" =>
       /\ DOMAIN l.plan \subseteq there /\ l.known \subseteq there
       /\ \A r \in DOMAIN l.plan : l.plan[r].held => r[2] \notin Critical
  /\ l.step = "recording" =>
       DOMAIN l.batch \subseteq there /\ (l.ok => DOMAIN l.batch \subseteq got)
LoopsSafe == \A w \in Loops : LoopSafe(loop[w], Present, received)

(* A row that is still tried has an attempt left.                          *)
RowSafe(r, o, got) ==
  /\ o.st = "pending" => o.attempts < MAX_ATTEMPTS
  /\ o.st = "delivered" => r \in got
  /\ o.st = "pending" /\ r[2] \in Critical /\ o.wait > 0 => o.attempts > 0
RowsSafe == \A r \in RowIds : RowSafe(r, outbox[r], received)

OutboxIInv == OutboxTypes /\ LoopsSafe /\ RowsSafe

LEMMA MaxAgeBounds == MaxAge \in Nat /\ \A s \in Schedules : s.digest <= MaxAge
<1> USE OutboxAssumption
<1> DEFINE f == [s \in Schedules |-> s.digest]
<1>1. f \in [Schedules -> Nat]
  OBVIOUS
<1>2. \E m \in Schedules : \A k \in Schedules : f[k] <= f[m]
  BY <1>1, GreatestValue
<1>3. \E d \in {s.digest : s \in Schedules} : \A s \in Schedules : s.digest <= d
  BY <1>2
<1>4. MaxAge \in {s.digest : s \in Schedules} /\ \A s \in Schedules : s.digest <= MaxAge
  BY <1>3 DEF MaxAge
<1> QED
  BY <1>4

Powers == <<1, 2, 4, 8, 16, 32, 64, 128>>

LEMMA PowersOfTwo == \A i \in 0 .. 7 : 2 ^ i = Powers[i + 1]
<1>1. 2^0 = 1 /\ 2^1 = 2 /\ 2^2 = 4 /\ 2^3 = 8 /\ 2^4 = 16 /\ 2^5 = 32 /\ 2^6 = 64 /\ 2^7 = 128
  OBVIOUS
<1> SUFFICES ASSUME NEW i \in 0 .. 7 PROVE 2 ^ i = Powers[i + 1]
  OBVIOUS
<1>2. CASE i = 0
  <2>1. 2 ^ i = 2 ^ 0
    BY <1>2, Zenon
  <2> QED
    BY <1>1, <1>2, <2>1 DEF Powers
<1>3. CASE i = 1
  <2>1. 2 ^ i = 2 ^ 1
    BY <1>3, Zenon
  <2> QED
    BY <1>1, <1>3, <2>1 DEF Powers
<1>4. CASE i = 2
  <2>1. 2 ^ i = 2 ^ 2
    BY <1>4, Zenon
  <2> QED
    BY <1>1, <1>4, <2>1 DEF Powers
<1>5. CASE i = 3
  <2>1. 2 ^ i = 2 ^ 3
    BY <1>5, Zenon
  <2> QED
    BY <1>1, <1>5, <2>1 DEF Powers
<1>6. CASE i = 4
  <2>1. 2 ^ i = 2 ^ 4
    BY <1>6, Zenon
  <2> QED
    BY <1>1, <1>6, <2>1 DEF Powers
<1>7. CASE i = 5
  <2>1. 2 ^ i = 2 ^ 5
    BY <1>7, Zenon
  <2> QED
    BY <1>1, <1>7, <2>1 DEF Powers
<1>8. CASE i = 6
  <2>1. 2 ^ i = 2 ^ 6
    BY <1>8, Zenon
  <2> QED
    BY <1>1, <1>8, <2>1 DEF Powers
<1>9. CASE i = 7
  <2>1. 2 ^ i = 2 ^ 7
    BY <1>9, Zenon
  <2> QED
    BY <1>1, <1>9, <2>1 DEF Powers
<1> QED
  BY <1>2, <1>3, <1>4, <1>5, <1>6, <1>7, <1>8, <1>9

LEMMA PowersGrow ==
  ASSUME NEW i \in 0 .. 7, NEW j \in 0 .. 7, i <= j
  PROVE  2 ^ i \in Nat \ {0} /\ 2 ^ j \in Nat \ {0} /\ 2 ^ i <= 2 ^ j
<1>1. Powers[i + 1] \in Nat \ {0} /\ Powers[j + 1] \in Nat \ {0} /\ Powers[i + 1] <= Powers[j + 1]
  BY DEF Powers
<1>2. 2 ^ i = Powers[i + 1] /\ 2 ^ j = Powers[j + 1]
  BY PowersOfTwo, Zenon
<1> HIDE DEF Powers
<1> QED
  BY <1>1, <1>2

(* The back-off of a failed attempt lies within the bound.                 *)
LEMMA BackOffBounded ==
  ASSUME NEW n \in 0 .. MAX_ATTEMPTS - 1
  PROVE  2 ^ AtMost(n, 7) \in 0 .. WaitBound /\ 2 ^ AtMost(n, 7) > 0 /\ WaitBound \in Nat
<1> USE OutboxAssumption
<1>1. AtMost(n, 7) \in 0 .. 7 /\ AtMost(MAX_ATTEMPTS, 7) \in 0 .. 7
      /\ AtMost(n, 7) <= AtMost(MAX_ATTEMPTS, 7)
  BY DEF AtMost
<1> DEFINE a == 2 ^ AtMost(n, 7)
           b == 2 ^ AtMost(MAX_ATTEMPTS, 7)
<1>2. a \in Nat \ {0} /\ b \in Nat \ {0} /\ a <= b
  BY <1>1, PowersGrow, Zenon
<1>3. WaitBound = b + DAY + MaxAge
  BY DEF WaitBound
<1> HIDE DEF a, b
<1>4. a \in 0 .. WaitBound /\ a > 0 /\ WaitBound \in Nat
  BY <1>2, <1>3, MaxAgeBounds
<1> QED
  BY <1>4 DEF a

LEMMA WaitBoundIs == WaitBound \in Nat /\ DAY <= WaitBound /\ MaxAge <= WaitBound
<1> USE OutboxAssumption
<1>1. AtMost(MAX_ATTEMPTS, 7) \in 0 .. 7
  BY DEF AtMost
<1> DEFINE b == 2 ^ AtMost(MAX_ATTEMPTS, 7)
<1>2. b \in Nat \ {0}
  <2>1. AtMost(MAX_ATTEMPTS, 7) <= AtMost(MAX_ATTEMPTS, 7)
    BY <1>1
  <2> QED
    BY <1>1, <2>1, PowersGrow, Zenon
<1>3. WaitBound = b + DAY + MaxAge
  BY DEF WaitBound
<1> HIDE DEF b
<1> QED
  BY <1>2, <1>3, MaxAgeBounds

LEMMA DayArithmetic ==
  ASSUME NEW x \in Nat, x < 2 * DAY
  PROVE  x % DAY = (IF x < DAY THEN x ELSE x - DAY) /\ x % DAY \in 0 .. DAY - 1
BY OutboxAssumption

(* The end of quiet hours is the first minute that is not quiet.           *)
LEMMA QuietEnd ==
  ASSUME NEW q \in [start : 0 .. DAY - 1, end : 0 .. DAY - 1], NEW m \in 0 .. DAY - 1
  PROVE  LET n == NextEnd(q, m)
         IN /\ n \in 0 .. DAY
            /\ ~ContainsMinute(q, (m + n) % DAY)
            /\ \A k \in 0 .. DAY : k < n => ContainsMinute(q, (m + k) % DAY)
<1> USE OutboxAssumption
<1> DEFINE n == NextEnd(q, m)
<1>1. q.start \in 0 .. DAY - 1 /\ q.end \in 0 .. DAY - 1
  OBVIOUS
<1>2. n \in 0 .. DAY
  BY <1>1 DEF NextEnd, ContainsMinute
<1>3. ~ContainsMinute(q, (m + n) % DAY)
  <2>1. (m + n) % DAY = (IF m + n < DAY THEN m + n ELSE m + n - DAY)
    BY <1>2, DayArithmetic
  <2> QED
    BY <1>1, <2>1 DEF NextEnd, ContainsMinute
<1>4. ASSUME NEW k \in 0 .. DAY, k < n
      PROVE  ContainsMinute(q, (m + k) % DAY)
  <2>1. m + k < 2 * DAY
    BY <1>2, <1>4
  <2>2. (m + k) % DAY = (IF m + k < DAY THEN m + k ELSE m + k - DAY)
    BY <2>1, DayArithmetic
  <2> QED
    BY <1>1, <1>4, <2>2 DEF NextEnd, ContainsMinute
<1> QED
  BY <1>2, <1>3, <1>4

LEMMA OutboxInitIInv == OutboxInit => OutboxIInv
<1> SUFFICES ASSUME OutboxInit PROVE OutboxIInv
  OBVIOUS
<1> USE OutboxAssumption DEF OutboxInit
<1>1. OutboxTypes
  BY DEF OutboxTypes, LoopState
<1>2. LoopsSafe
  BY DEF LoopsSafe, LoopSafe, Resting
<1>3. RowsSafe
  BY DEF RowsSafe, RowSafe, Absent
<1> QED
  BY <1>1, <1>2, <1>3 DEF OutboxIInv

LEMMA SafeGrows ==
  ASSUME NEW l, NEW R, NEW S, NEW G, NEW H, LoopSafe(l, R, G), R \subseteq S, G \subseteq H
  PROVE  LoopSafe(l, S, H)
BY DEF LoopSafe

(* Rows are changed safely, none is taken away.                            *)
LEMMA RowStep ==
  ASSUME OutboxIInv, received \subseteq received',
         \A r \in RowIds : \/ outbox'[r] = outbox[r]
                           \/ outbox'[r] # Absent /\ RowSafe(r, outbox'[r], received')
  PROVE  RowsSafe' /\ Present \subseteq Present'
<1>1. Present \subseteq Present'
  BY DEF Present
<1>2. ASSUME NEW r \in RowIds PROVE RowSafe(r, outbox'[r], received')
  <2>1. CASE outbox'[r] = outbox[r]
    <3>1. RowSafe(r, outbox[r], received)
      BY DEF OutboxIInv, RowsSafe
    <3> QED
      BY <2>1, <3>1 DEF RowSafe
  <2> QED
    BY <2>1
<1> QED
  BY <1>1, <1>2 DEF RowsSafe

LEMMA LoopMove ==
  ASSUME OutboxIInv, NEW w \in Loops, NEW l \in LoopState, loop' = [loop EXCEPT ![w] = l],
         LoopSafe(l, Present', received'), Present \subseteq Present', received \subseteq received'
  PROVE  LoopsSafe' /\ loop' \in [Loops -> LoopState]
<1>1. loop \in [Loops -> LoopState] /\ LoopsSafe
  BY DEF OutboxIInv, OutboxTypes
<1>2. loop' \in [Loops -> LoopState]
  BY <1>1
<1>3. ASSUME NEW v \in Loops PROVE LoopSafe(loop'[v], Present', received')
  <2>1. CASE v = w
    BY <1>1, <2>1
  <2>2. CASE v # w
    <3>1. loop'[v] = loop[v] /\ LoopSafe(loop[v], Present, received)
      BY <1>1, <2>2 DEF LoopsSafe
    <3> QED
      BY <3>1, SafeGrows
  <2> QED
    BY <2>1, <2>2
<1> QED
  BY <1>2, <1>3 DEF LoopsSafe

LEMMA LoopsStay ==
  ASSUME OutboxIInv, UNCHANGED loop, Present \subseteq Present', received \subseteq received'
  PROVE  LoopsSafe'
<1>1. \A v \in Loops : LoopSafe(loop[v], Present, received)
  BY DEF OutboxIInv, LoopsSafe
<1>2. \A v \in Loops : LoopSafe(loop[v], Present', received')
  BY <1>1, SafeGrows
<1> QED
  BY <1>2 DEF LoopsSafe

LEMMA LoopKinds ==
  ASSUME NEW l \in LoopState
  PROVE  /\ l.step = "idle" => l = Resting
         /\ l.step = "handling" => l \in Handlings
         /\ l.step = "recording" => l \in Recordings
         /\ l.step # "idle" => l \in Handlings \cup Recordings
         /\ l.step # "idle" => l.plan \in Plans /\ l.late \in Nat /\ l.known \in SUBSET RowIds
<1>1. CASE l = Resting
  BY <1>1 DEF Resting
<1>2. CASE l \in Handlings
  BY <1>2 DEF Handlings
<1>3. CASE l \in Recordings
  BY <1>3 DEF Recordings
<1> QED
  BY <1>1, <1>2, <1>3 DEF LoopState

LEMMA PlanIs ==
  ASSUME NEW p \in Plans
  PROVE  DOMAIN p \subseteq RowIds /\ p \in [DOMAIN p -> PlanEntry]
BY DEF Plans

LEMMA CountsAre ==
  ASSUME NEW c \in Counts
  PROVE  DOMAIN c \subseteq RowIds /\ c \in [DOMAIN c -> 0 .. MAX_ATTEMPTS - 1]
BY DEF Counts

LEMMA WithoutPlan ==
  ASSUME NEW p \in Plans, NEW gone
  PROVE  /\ Without(p, gone) \in Plans /\ DOMAIN Without(p, gone) = DOMAIN p \ gone
         /\ \A r \in DOMAIN p \ gone : Without(p, gone)[r] = p[r]
<1>1. DOMAIN p \subseteq RowIds /\ p \in [DOMAIN p -> PlanEntry]
  BY PlanIs
<1>2. Without(p, gone) \in [DOMAIN p \ gone -> PlanEntry] /\ DOMAIN p \ gone \in SUBSET RowIds
  BY <1>1 DEF Without
<1> QED
  BY <1>2 DEF Plans, Without

LEMMA WithoutCounts ==
  ASSUME NEW c \in Counts, NEW gone
  PROVE  /\ Without(c, gone) \in Counts /\ DOMAIN Without(c, gone) = DOMAIN c \ gone
<1>1. DOMAIN c \subseteq RowIds /\ c \in [DOMAIN c -> 0 .. MAX_ATTEMPTS - 1]
  BY CountsAre
<1>2. Without(c, gone) \in [DOMAIN c \ gone -> 0 .. MAX_ATTEMPTS - 1]
      /\ DOMAIN c \ gone \in SUBSET RowIds
  BY <1>1 DEF Without
<1> QED
  BY <1>2 DEF Counts, Without

(* The console's edits of destinations.                                    *)
LEMMA DestinationsKeep ==
  ASSUME OutboxIInv, NEW d \in Dests,
         InsertDestination(d) \/ CreateChannel(d) \/ DisableDestination(d)
           \/ SetSubscriptions(d) \/ SetSchedule(d)
  PROVE  OutboxIInv'
<1> DEFINE Blank == [made |-> FALSE, enabled |-> FALSE]
<1>1. dest[d] \in DestState \cup {Blank} /\ OutboxTypes /\ LoopsSafe /\ RowsSafe
  BY DEF OutboxIInv, OutboxTypes
<1>2. dest[d].enabled => dest[d] \in DestState
  BY <1>1
<1>3. ASSUME NEW e \in DestState, dest' = [dest EXCEPT ![d] = e],
             UNCHANGED <<outbox, received, loop, minute>>
      PROVE  OutboxIInv'
  <2>1. OutboxTypes'
    BY <1>1, <1>3 DEF OutboxTypes
  <2>2. LoopsSafe' /\ RowsSafe'
    BY <1>1, <1>3 DEF LoopsSafe, RowsSafe, Present
  <2> QED
    BY <2>1, <2>2 DEF OutboxIInv
<1>4. ASSUME NEW chat \in BOOLEAN, NEW s \in Schedules \cup {NoSchedule}, Insert(d, chat, s)
      PROVE  OutboxIInv'
  <2> DEFINE e == [made |-> TRUE, enabled |-> TRUE, chat |-> chat, sched |-> s, subs |-> Events]
  <2>1. e \in DestState
    BY DEF DestState
  <2>2. dest' = [dest EXCEPT ![d] = e] /\ UNCHANGED <<outbox, received, loop, minute>>
    BY <1>4 DEF Insert
  <2> HIDE DEF e
  <2> QED
    BY <1>3, <2>1, <2>2
<1>5. ASSUME NEW e, Edit(d, e), dest[d] \in DestState => e \in DestState
      PROVE  OutboxIInv'
  BY <1>2, <1>3, <1>5 DEF Edit
<1>6. CASE InsertDestination(d)
  BY <1>4, <1>6 DEF InsertDestination
<1>7. CASE CreateChannel(d)
  BY <1>4, <1>7 DEF CreateChannel
<1>8. CASE DisableDestination(d)
  <2>1. dest[d] \in DestState => [dest[d] EXCEPT !.enabled = FALSE] \in DestState
    BY DEF DestState
  <2> QED
    BY <1>5, <1>8, <2>1 DEF DisableDestination
<1>9. CASE SetSubscriptions(d)
  <2>1. ASSUME NEW subs \in SUBSET Events
        PROVE  dest[d] \in DestState => [dest[d] EXCEPT !.subs = subs] \in DestState
    BY DEF DestState
  <2> QED
    BY <1>5, <1>9, <2>1 DEF SetSubscriptions
<1>10. CASE SetSchedule(d)
  <2>1. ASSUME NEW s \in Schedules \cup {NoSchedule}
        PROVE  dest[d] \in DestState => [dest[d] EXCEPT !.sched = s] \in DestState
    BY DEF DestState
  <2> QED
    BY <1>5, <1>10, <2>1 DEF SetSchedule
<1> QED
  BY <1>6, <1>7, <1>8, <1>9, <1>10

(* A step that changes rows and no loop.                                   *)
LEMMA RowsOnly ==
  ASSUME OutboxIInv, outbox' \in [RowIds -> RowState \cup {Absent}],
         \A r \in RowIds : \/ outbox'[r] = outbox[r]
                           \/ outbox'[r] # Absent /\ RowSafe(r, outbox'[r], received),
         UNCHANGED <<dest, received, loop, minute>>
  PROVE  OutboxIInv'
<1>1. OutboxTypes'
  BY DEF OutboxIInv, OutboxTypes
<1>2. RowsSafe' /\ Present \subseteq Present'
  BY RowStep
<1>3. LoopsSafe'
  BY <1>2, LoopsStay
<1> QED
  BY <1>1, <1>2, <1>3 DEF OutboxIInv

LEMMA NewRowIs ==
  /\ NewRow \in RowState /\ NewRow # Absent
  /\ \A r, got : RowSafe(r, NewRow, got)
<1> USE OutboxAssumption, WaitBoundIs, MaxAgeBounds
<1>1. NewRow \in RowState
  BY DEF NewRow, RowState
<1>2. NewRow # Absent
  <2>1. NewRow.st = "pending" /\ Absent.st = "absent"
    BY DEF NewRow, Absent
  <2> QED
    BY <2>1
<1>3. \A r, got : RowSafe(r, NewRow, got)
  BY DEF NewRow, RowSafe
<1> QED
  BY <1>1, <1>2, <1>3

LEMMA OutboxRowExists ==
  ASSUME NEW o \in RowState
  PROVE  o # Absent
<1>1. o.st \in {"pending", "delivered", "dead"} /\ Absent.st = "absent"
  BY DEF RowState, Absent
<1> QED
  BY <1>1

(* What raises events, test sends and replays.                             *)
LEMMA QueueingKeeps ==
  ASSUME OutboxIInv,
         \/ \E e \in Events : Enqueue(e) \/ \E d \in Dests : TestSend(d, e)
         \/ \E r \in RowIds : ResetDelivery(r)
  PROVE  OutboxIInv'
<1> USE OutboxAssumption
<1>1. outbox \in [RowIds -> RowState \cup {Absent}]
  BY DEF OutboxIInv, OutboxTypes
<1>2. ASSUME NEW e \in Events, Enqueue(e) PROVE OutboxIInv'
  <2>1. \A r \in RowIds : outbox'[r] \in {NewRow, outbox[r]}
    BY <1>2 DEF Enqueue
  <2>2. outbox' = [r \in RowIds |-> outbox'[r]] /\ UNCHANGED <<dest, received, loop, minute>>
    BY <1>2 DEF Enqueue
  <2>3. outbox' \in [RowIds -> RowState \cup {Absent}]
    BY <1>1, <2>1, <2>2, NewRowIs
  <2> QED
    BY <2>1, <2>2, <2>3, NewRowIs, RowsOnly
<1>3. ASSUME NEW e \in Events, NEW d \in Dests, TestSend(d, e) PROVE OutboxIInv'
  <2>1. outbox' = [outbox EXCEPT ![<<d, e>>] = NewRow] /\ UNCHANGED <<dest, received, loop, minute>>
    BY <1>3 DEF TestSend
  <2>2. outbox' \in [RowIds -> RowState \cup {Absent}]
        /\ \A r \in RowIds : outbox'[r] \in {NewRow, outbox[r]}
    BY <1>1, <2>1, NewRowIs DEF RowIds
  <2> QED
    BY <2>1, <2>2, NewRowIs, RowsOnly
<1>4. ASSUME NEW r \in RowIds, ResetDelivery(r) PROVE OutboxIInv'
  <2> DEFINE a == [outbox[r] EXCEPT !.st = "pending"]
             b == [a EXCEPT !.attempts = 0]
             o == [b EXCEPT !.wait = 0]
  <2>1. outbox' = [outbox EXCEPT ![r] = o] /\ UNCHANGED <<dest, received, loop, minute>>
    BY <1>1, <1>4 DEF ResetDelivery
  <2>2. outbox[r] \in RowState
    <3>1. outbox[r].st \in {"pending", "dead"} /\ outbox[r] \in RowState \cup {Absent}
      BY <1>1, <1>4 DEF ResetDelivery
    <3>2. Absent.st = "absent"
      BY DEF Absent
    <3> QED
      BY <3>1, <3>2
  <2>3. a \in RowState /\ a.st = "pending"
    BY <2>2 DEF RowState
  <2> HIDE DEF a
  <2>4. b \in RowState /\ b.st = "pending" /\ b.attempts = 0
    BY <2>3 DEF RowState
  <2> HIDE DEF b
  <2>5. o \in RowState /\ o.st = "pending" /\ o.attempts = 0 /\ o.wait = 0
    BY <2>4, WaitBoundIs DEF RowState
  <2> HIDE DEF o
  <2>6. RowSafe(r, o, received)
    BY <2>5 DEF RowSafe
  <2>7. outbox' \in [RowIds -> RowState \cup {Absent}]
        /\ \A x \in RowIds : outbox'[x] = outbox[x] \/ (x = r /\ outbox'[x] = o)
    BY <1>1, <2>1, <2>5
  <2> QED
    BY <2>1, <2>5, <2>6, <2>7, OutboxRowExists, RowsOnly
<1> QED
  BY <1>2, <1>3, <1>4

(* How long a due row is held: at most a day or a digest, and a critical   *)
(* one not at all.                                                         *)
LEMMA HoldBounded ==
  ASSUME OutboxIInv, NEW r \in RowIds, Due(r)
  PROVE  Hold(r) \in 0 .. WaitBound /\ (r[2] \in Critical => Hold(r) = 0)
<1> USE OutboxAssumption
<1>1. r[1] \in Dests /\ dest[r[1]] \in DestState \cup {[made |-> FALSE, enabled |-> FALSE]}
      /\ minute \in 0 .. DAY - 1 /\ outbox[r] \in RowState \cup {Absent}
  BY DEF OutboxIInv, OutboxTypes, RowIds
<1> DEFINE s == dest[r[1]].sched
<1>2. s \in Schedules \cup {NoSchedule}
  BY <1>1 DEF Due, DestState
<1>3. s.digest \in Nat /\ s.digest <= MaxAge /\ s.quiet \in [start : 0..DAY-1, end : 0..DAY-1]
  <2>1. CASE s \in Schedules
    BY <2>1, MaxAgeBounds
  <2>2. CASE s = NoSchedule
    <3>1. NoSchedule.digest = 0 /\ NoSchedule.quiet \in [start : 0..DAY-1, end : 0..DAY-1]
      BY DEF NoSchedule
    <3> QED
      BY <2>2, <3>1, MaxAgeBounds
  <2> QED
    BY <1>2, <2>1, <2>2
<1>4. outbox[r].age \in Nat
  <2>1. outbox[r].st = "pending" /\ Absent.st = "absent"
    BY DEF Due, Absent
  <2>2. outbox[r] \in RowState
    BY <1>1, <2>1
  <2> QED
    BY <2>2, MaxAgeBounds DEF RowState
<1>5. NextEnd(s.quiet, minute) \in 0 .. WaitBound
  <2>1. NextEnd(s.quiet, minute) \in 0 .. DAY
    BY <1>1, <1>3, QuietEnd
  <2> QED
    BY <2>1, WaitBoundIs
<1>6. s.digest - AtMost(outbox[r].age, s.digest) \in 0 .. WaitBound
  BY <1>3, <1>4, WaitBoundIs, MaxAgeBounds DEF AtMost
<1>7. Hold(r) = IF ~dest[r[1]].chat \/ r[2] \in Critical THEN 0
                ELSE IF ContainsMinute(s.quiet, minute) THEN NextEnd(s.quiet, minute)
                ELSE s.digest - AtMost(outbox[r].age, s.digest)
  BY DEF Hold
<1> HIDE DEF s
<1> QED
  BY <1>5, <1>6, <1>7, WaitBoundIs

LEMMA PollKeeps ==
  ASSUME OutboxIInv, NEW w \in Loops, Poll(w)
  PROVE  OutboxIInv'
<1> USE OutboxAssumption
<1> DEFINE due == {r \in RowIds : Due(r)}
           Planned(r) == [held |-> Hold(r) > 0, left |-> Hold(r), attempts |-> outbox[r].attempts,
                        digest |-> /\ dest[r[1]].chat /\ r[2] \notin Critical
                                   /\ dest[r[1]].sched.digest > 0]
           plan == [r \in due |-> Planned(r)]
           l == [step |-> "handling", late |-> 0, plan |-> plan, known |-> Present]
<1>1. loop' = [loop EXCEPT ![w] = l] /\ UNCHANGED <<dest, outbox, received, minute>>
  BY DEF Poll, Present
<1>2. ASSUME NEW r \in due
      PROVE  /\ Planned(r) \in PlanEntry /\ (Planned(r).held => r[2] \notin Critical)
             /\ r \in Present
  <2>1. Hold(r) \in 0 .. WaitBound /\ (r[2] \in Critical => Hold(r) = 0)
    BY HoldBounded
  <2>2. outbox[r] \in RowState \cup {Absent} /\ outbox[r].st = "pending" /\ Absent.st = "absent"
        /\ RowSafe(r, outbox[r], received)
    BY DEF OutboxIInv, OutboxTypes, RowsSafe, Due, Absent
  <2>3. outbox[r] \in RowState /\ outbox[r] # Absent
    BY <2>2
  <2>4. outbox[r].attempts \in 0 .. MAX_ATTEMPTS - 1
    BY <2>2, <2>3 DEF RowState, RowSafe
  <2>5. Planned(r) \in PlanEntry
    BY <2>1, <2>4 DEF PlanEntry
  <2>6. Planned(r).held <=> Hold(r) > 0
    OBVIOUS
  <2>7. Planned(r).held => r[2] \notin Critical
    BY <2>1, <2>6
  <2> HIDE DEF Planned
  <2> QED
    BY <2>3, <2>5, <2>7 DEF Present
<1> HIDE DEF Planned
<1>3. plan \in Plans /\ DOMAIN plan = due /\ \A r \in due : plan[r] = Planned(r)
  <2>1. due \in SUBSET RowIds
    OBVIOUS
  <2> HIDE DEF due
  <2>2. plan \in [due -> PlanEntry]
    BY <1>2
  <2> QED
    BY <2>1, <2>2 DEF Plans
<1> HIDE DEF plan, due
<1>4. l \in LoopState /\ l.step = "handling" /\ l.plan = plan /\ l.known = Present
  BY <1>3 DEF LoopState, Handlings, Present
<1> HIDE DEF l
<1>5. Present' = Present
  BY <1>1 DEF Present
<1>6. LoopSafe(l, Present, received)
  BY <1>2, <1>3, <1>4 DEF LoopSafe
<1>7. LoopsSafe' /\ loop' \in [Loops -> LoopState]
  BY <1>1, <1>4, <1>5, <1>6, LoopMove
<1> QED
  BY <1>1, <1>7 DEF OutboxIInv, OutboxTypes, RowsSafe

(* A loop that has handled what it was at.                                 *)
LEMMA HandlingIs ==
  ASSUME NEW l, l.late \in Nat, l.known \in SUBSET RowIds, NEW p \in Plans, NEW R, NEW G,
         DOMAIN p \subseteq R, l.known \subseteq R,
         \A r \in DOMAIN p : p[r].held => r[2] \notin Critical
  PROVE  Handling(l, p) \in LoopState /\ LoopSafe(Handling(l, p), R, G)
<1> DEFINE h == [step |-> "handling", late |-> l.late, plan |-> p, known |-> l.known]
<1>1. h \in LoopState /\ h.step = "handling" /\ h.plan = p /\ h.known = l.known
  BY DEF LoopState, Handlings
<1>2. Handling(l, p) \in {Resting, h}
  BY DEF Handling
<1> HIDE DEF h
<1>3. LoopSafe(h, R, G)
  BY <1>1 DEF LoopSafe
<1>4. Resting \in LoopState /\ LoopSafe(Resting, R, G)
  BY DEF LoopState, LoopSafe, Resting
<1> QED
  BY <1>1, <1>2, <1>3, <1>4

LEMMA PostponeKeeps ==
  ASSUME OutboxIInv, NEW w \in Loops, NEW r \in RowIds, Postpone(w, r)
  PROVE  OutboxIInv'
<1> DEFINE l == loop[w]
           p == Without(l.plan, {r})
           o == [outbox[r] EXCEPT !.wait = l.plan[r].left]
<1>1. l \in LoopState /\ l.step = "handling" /\ r \in DOMAIN l.plan /\ l.plan[r].held
      /\ LoopSafe(l, Present, received) /\ outbox \in [RowIds -> RowState \cup {Absent}]
      /\ RowSafe(r, outbox[r], received)
  BY DEF OutboxIInv, OutboxTypes, LoopsSafe, RowsSafe, Postpone
<1>2. outbox' = [outbox EXCEPT ![r] = o] /\ loop' = [loop EXCEPT ![w] = Handling(l, p)]
      /\ UNCHANGED <<dest, received, minute>>
  BY <1>1 DEF Postpone, OutboxIInv, OutboxTypes
<1>3. l.plan \in Plans /\ l.late \in Nat /\ l.known \in SUBSET RowIds
  BY <1>1, LoopKinds
<1>4. DOMAIN l.plan \subseteq Present /\ l.known \subseteq Present
      /\ \A x \in DOMAIN l.plan : l.plan[x].held => x[2] \notin Critical
  BY <1>1 DEF LoopSafe
<1>5. p \in Plans /\ DOMAIN p \subseteq DOMAIN l.plan /\ \A x \in DOMAIN p : p[x] = l.plan[x]
  <2>1. p \in Plans /\ DOMAIN p = DOMAIN l.plan \ {r}
        /\ \A x \in DOMAIN l.plan \ {r} : p[x] = l.plan[x]
    BY <1>3, WithoutPlan, Zenon
  <2> HIDE DEF l, p
  <2> QED
    BY <2>1
<1>6. outbox[r] \in RowState /\ r[2] \notin Critical
  BY <1>1, <1>4 DEF Present
<1>7. l.plan[r].left \in 0 .. WaitBound
  BY <1>1, <1>3, PlanIs DEF PlanEntry
<1> HIDE DEF l, p
<1>8. o \in RowState /\ o.st = outbox[r].st /\ o.attempts = outbox[r].attempts
  BY <1>6, <1>7 DEF RowState
<1> HIDE DEF o
<1>9. RowSafe(r, o, received) /\ o # Absent
  BY <1>1, <1>6, <1>8, OutboxRowExists DEF RowSafe
<1>10. outbox' \in [RowIds -> RowState \cup {Absent}]
       /\ \A x \in RowIds : outbox'[x] = outbox[x] \/ (x = r /\ outbox'[x] = o)
  BY <1>1, <1>2, <1>8
<1>11. RowsSafe' /\ Present \subseteq Present'
  BY <1>2, <1>9, <1>10, RowStep
<1>12. Handling(l, p) \in LoopState /\ LoopSafe(Handling(l, p), Present', received')
  BY <1>3, <1>4, <1>5, <1>11, HandlingIs
<1>13. LoopsSafe' /\ loop' \in [Loops -> LoopState]
  BY <1>2, <1>11, <1>12, LoopMove
<1> QED
  BY <1>2, <1>10, <1>11, <1>13 DEF OutboxIInv, OutboxTypes

LEMMA SendKeeps ==
  ASSUME OutboxIInv, NEW w \in Loops, NEW r \in RowIds, SendNow(w, r)
  PROVE  OutboxIInv'
<1> USE OutboxAssumption
<1> DEFINE l == loop[w]
           batch == Batch(w, r)
           p == Without(l.plan, DOMAIN batch)
<1>1. l \in LoopState /\ l.step = "handling" /\ r \in DOMAIN l.plan
      /\ LoopSafe(l, Present, received) /\ outbox \in [RowIds -> RowState \cup {Absent}]
      /\ RowsSafe
  BY DEF OutboxIInv, OutboxTypes, LoopsSafe, SendNow
<1>2. l.plan \in Plans /\ l.late \in Nat /\ l.known \in SUBSET RowIds
  BY <1>1, LoopKinds
<1>3. DOMAIN l.plan \subseteq Present /\ l.known \subseteq Present
      /\ \A x \in DOMAIN l.plan : l.plan[x].held => x[2] \notin Critical
  BY <1>1 DEF LoopSafe
<1>4. l.plan[r].attempts \in 0 .. MAX_ATTEMPTS - 1
  BY <1>1, <1>2, PlanIs DEF PlanEntry
<1>5. batch \in Counts /\ DOMAIN batch \subseteq Present
  <2> DEFINE pending == {x \in l.known : /\ x[1] = r[1] /\ outbox[x].st = "pending"
                                         /\ x[2] \notin Critical}
             few == [x \in {r} |-> l.plan[r].attempts]
             many == [x \in pending \cup {r} |->
                        IF x \in pending THEN outbox[x].attempts ELSE l.plan[r].attempts]
  <2>1. batch = IF ~l.plan[r].digest THEN few ELSE many
    BY DEF Batch
  <2>2. \A x \in pending : outbox[x].attempts \in 0 .. MAX_ATTEMPTS - 1
    <3> SUFFICES ASSUME NEW x \in pending PROVE outbox[x].attempts \in 0 .. MAX_ATTEMPTS - 1
      OBVIOUS
    <3>1. x \in RowIds /\ outbox[x] # Absent /\ outbox[x].st = "pending"
      BY <1>2, <1>3 DEF Present
    <3>2. outbox[x] \in RowState /\ RowSafe(x, outbox[x], received)
      BY <1>1, <3>1 DEF RowsSafe
    <3> QED
      BY <3>1, <3>2 DEF RowState, RowSafe
  <2>3. pending \subseteq Present /\ pending \subseteq RowIds /\ r \in Present
    BY <1>1, <1>2, <1>3
  <2> HIDE DEF l, batch, pending
  <2>4. few \in [{r} -> 0 .. MAX_ATTEMPTS - 1] /\ {r} \in SUBSET RowIds
    BY <1>4
  <2>5. many \in [pending \cup {r} -> 0 .. MAX_ATTEMPTS - 1] /\ pending \cup {r} \in SUBSET RowIds
    BY <1>4, <2>2, <2>3
  <2>6. DOMAIN few = {r} /\ DOMAIN many = pending \cup {r}
    OBVIOUS
  <2> HIDE DEF few, many
  <2>7. few \in Counts /\ many \in Counts
    BY <2>4, <2>5 DEF Counts
  <2> QED
    BY <2>1, <2>3, <2>6, <2>7
<1>6. p \in Plans /\ DOMAIN p \subseteq DOMAIN l.plan /\ \A x \in DOMAIN p : p[x] = l.plan[x]
  <2>1. p \in Plans /\ DOMAIN p = DOMAIN l.plan \ DOMAIN batch
        /\ \A x \in DOMAIN l.plan \ DOMAIN batch : p[x] = l.plan[x]
    BY <1>2, WithoutPlan, Zenon
  <2> HIDE DEF l, p, batch
  <2> QED
    BY <2>1
<1>7. PICK ok \in BOOLEAN :
        /\ received' = IF ok THEN received \cup DOMAIN batch ELSE received
        /\ loop' = [loop EXCEPT ![w] =
             [step |-> "recording", late |-> l.late, ok |-> ok, batch |-> batch,
              plan |-> p, known |-> l.known]]
  BY <1>1 DEF SendNow, OutboxIInv, OutboxTypes
<1>8. UNCHANGED <<dest, outbox, minute>>
  BY DEF SendNow
<1> DEFINE h == [step |-> "recording", late |-> l.late, ok |-> ok, batch |-> batch,
                 plan |-> p, known |-> l.known]
<1> HIDE DEF l, p, batch
<1>9. h \in LoopState /\ h.step = "recording" /\ h.plan = p /\ h.known = l.known
      /\ h.batch = batch /\ (h.ok <=> ok)
  BY <1>2, <1>5, <1>6 DEF LoopState, Recordings
<1>10. loop' = [loop EXCEPT ![w] = h]
  BY <1>7
<1> HIDE DEF h
<1>11. received \subseteq received' /\ (ok => DOMAIN batch \subseteq received')
  BY <1>7
<1>12. Present' = Present
  BY <1>8 DEF Present
<1>13. LoopSafe(h, Present', received')
  BY <1>3, <1>5, <1>6, <1>9, <1>11, <1>12 DEF LoopSafe
<1>14. LoopsSafe' /\ loop' \in [Loops -> LoopState]
  BY <1>9, <1>10, <1>11, <1>12, <1>13, LoopMove
<1>15. RowsSafe'
  BY <1>8, <1>11, RowStep
<1> QED
  BY <1>8, <1>14, <1>15 DEF OutboxIInv, OutboxTypes

LEMMA RecordKeeps ==
  ASSUME OutboxIInv, NEW w \in Loops, NEW r \in RowIds, Record(w, r)
  PROVE  OutboxIInv'
<1> USE OutboxAssumption
<1> DEFINE l == loop[w]
           attempts == l.batch[r] + 1
           back == 2 ^ AtMost(attempts - 1, 7)
           st == IF outbox[r].st = "delivered" THEN "delivered"
                 ELSE IF attempts >= MAX_ATTEMPTS THEN "dead" ELSE "pending"
           a == [outbox[r] EXCEPT !.attempts = attempts]
           b == [a EXCEPT !.wait = back]
           failed == [b EXCEPT !.st = st]
           sent == [outbox[r] EXCEPT !.st = "delivered"]
           o == IF l.ok THEN sent ELSE failed
           rest == [l EXCEPT !.batch = Without(l.batch, {r})]
           n == IF DOMAIN l.batch = {r} THEN Handling(l, l.plan) ELSE rest
<1>1. l \in LoopState /\ l.step = "recording" /\ r \in DOMAIN l.batch
      /\ LoopSafe(l, Present, received) /\ outbox \in [RowIds -> RowState \cup {Absent}]
      /\ RowSafe(r, outbox[r], received)
  BY DEF OutboxIInv, OutboxTypes, LoopsSafe, RowsSafe, Record
<1>2. l \in Recordings /\ l.plan \in Plans /\ l.late \in Nat /\ l.known \in SUBSET RowIds
  BY <1>1, LoopKinds
<1>3. l.batch \in Counts /\ l.ok \in BOOLEAN
  BY <1>2 DEF Recordings
<1>4. /\ DOMAIN l.plan \subseteq Present /\ l.known \subseteq Present
      /\ \A x \in DOMAIN l.plan : l.plan[x].held => x[2] \notin Critical
      /\ DOMAIN l.batch \subseteq Present /\ (l.ok => DOMAIN l.batch \subseteq received)
  BY <1>1 DEF LoopSafe
<1>5. l.batch[r] \in 0 .. MAX_ATTEMPTS - 1
  BY <1>1, <1>3, CountsAre
<1>6. outbox[r] \in RowState
  BY <1>1, <1>4 DEF Present
<1>7. outbox' = [outbox EXCEPT ![r] = o]
  BY <1>1 DEF Record, RecordOutcome
<1>8. loop' = [loop EXCEPT ![w] = n]
  BY <1>1 DEF Record, OutboxIInv, OutboxTypes
<1>9. UNCHANGED <<dest, received, minute>>
  BY DEF Record
<1>10. attempts \in 1 .. MAX_ATTEMPTS /\ attempts - 1 \in 0 .. MAX_ATTEMPTS - 1
  BY <1>5
<1>11. back \in 0 .. WaitBound
  BY <1>10, BackOffBounded
<1>12. o \in RowState /\ RowSafe(r, o, received)
  <2> HIDE DEF l, attempts, back
  <2>1. sent \in RowState /\ sent.st = "delivered"
    BY <1>6 DEF RowState
  <2>2. st \in {"pending", "delivered", "dead"} /\ (st = "pending" => attempts < MAX_ATTEMPTS)
        /\ (st = "delivered" => outbox[r].st = "delivered")
    BY <1>10
  <2>3. a \in RowState /\ a.attempts = attempts
    BY <1>6, <1>10 DEF RowState
  <2> HIDE DEF a, st, sent
  <2>4. b \in RowState /\ b.attempts = attempts
    BY <1>11, <2>3 DEF RowState
  <2> HIDE DEF b
  <2>5. failed \in RowState /\ failed.attempts = attempts /\ failed.st = st
    BY <2>2, <2>4 DEF RowState
  <2> HIDE DEF failed
  <2>6. RowSafe(r, failed, received)
    BY <1>1, <1>10, <2>2, <2>5 DEF RowSafe
  <2>7. l.ok => RowSafe(r, sent, received)
    BY <1>1, <1>4, <2>1 DEF RowSafe
  <2> QED
    BY <2>1, <2>5, <2>6, <2>7
<1>13. n \in LoopState /\ LoopSafe(n, Present, received)
  <2>1. Handling(l, l.plan) \in LoopState /\ LoopSafe(Handling(l, l.plan), Present, received)
    BY <1>2, <1>4, HandlingIs
  <2>2. Without(l.batch, {r}) \in Counts /\ DOMAIN Without(l.batch, {r}) = DOMAIN l.batch \ {r}
    BY <1>3, WithoutCounts, Zenon
  <2> HIDE DEF l
  <2>3. rest \in Recordings /\ rest.step = "recording" /\ rest.plan = l.plan
        /\ rest.known = l.known /\ (rest.ok <=> l.ok) /\ rest.batch = Without(l.batch, {r})
    BY <1>2, <2>2 DEF Recordings
  <2> HIDE DEF rest
  <2>4. rest \in LoopState
    BY <2>3 DEF LoopState
  <2>5. LoopSafe(rest, Present, received)
    BY <1>4, <2>2, <2>3 DEF LoopSafe
  <2> QED
    BY <2>1, <2>4, <2>5
<1> HIDE DEF o, n, l
<1>14. outbox' \in [RowIds -> RowState \cup {Absent}]
       /\ \A x \in RowIds : outbox'[x] = outbox[x] \/ (x = r /\ outbox'[x] = o)
  BY <1>1, <1>7, <1>12
<1>15. RowsSafe' /\ Present \subseteq Present'
  BY <1>9, <1>12, <1>14, OutboxRowExists, RowStep
<1>16. LoopSafe(n, Present', received')
  BY <1>9, <1>13, <1>15, SafeGrows
<1>17. LoopsSafe' /\ loop' \in [Loops -> LoopState]
  BY <1>8, <1>9, <1>13, <1>15, <1>16, LoopMove
<1> QED
  BY <1>9, <1>14, <1>15, <1>17 DEF OutboxIInv, OutboxTypes

LEMMA FailKeeps ==
  ASSUME OutboxIInv, NEW w \in Loops, LoopFails(w)
  PROVE  OutboxIInv'
<1>1. loop' = [loop EXCEPT ![w] = Resting] /\ UNCHANGED <<dest, outbox, received, minute>>
  BY DEF LoopFails
<1>2. Resting \in LoopState /\ LoopSafe(Resting, Present', received')
  BY DEF LoopState, LoopSafe, Resting
<1>3. Present' = Present /\ RowsSafe'
  BY <1>1 DEF Present, OutboxIInv, RowsSafe
<1>4. LoopsSafe' /\ loop' \in [Loops -> LoopState]
  BY <1>1, <1>2, <1>3, LoopMove
<1> QED
  BY <1>1, <1>3, <1>4 DEF OutboxIInv, OutboxTypes

LEMMA SoonerPlan ==
  ASSUME NEW p \in Plans
  PROVE  /\ Sooner(p) \in Plans /\ DOMAIN Sooner(p) = DOMAIN p
         /\ \A r \in DOMAIN p : Sooner(p)[r].held <=> p[r].held
<1> DEFINE F(r) == [p[r] EXCEPT !.left = Lower(p[r].left)]
<1>1. DOMAIN p \in SUBSET RowIds /\ p \in [DOMAIN p -> PlanEntry]
  BY PlanIs
<1>2. ASSUME NEW r \in DOMAIN p PROVE F(r) \in PlanEntry /\ (F(r).held <=> p[r].held)
  <2>1. p[r] \in PlanEntry
    BY <1>1
  <2>2. p[r].left \in 0 .. WaitBound
    BY <2>1 DEF PlanEntry
  <2>3. Lower(p[r].left) \in 0 .. WaitBound
    BY <2>2, WaitBoundIs DEF Lower
  <2> QED
    BY <2>1, <2>3 DEF PlanEntry
<1>3. Sooner(p) = [r \in DOMAIN p |-> F(r)]
  BY DEF Sooner
<1> HIDE DEF F
<1>4. Sooner(p) \in [DOMAIN p -> PlanEntry]
  BY <1>2, <1>3
<1>5. DOMAIN Sooner(p) = DOMAIN p /\ \A r \in DOMAIN p : Sooner(p)[r] = F(r)
  BY <1>3
<1>6. Sooner(p) \in Plans
  BY <1>1, <1>4 DEF Plans
<1> QED
  BY <1>2, <1>5, <1>6

LEMMA TickKeeps ==
  ASSUME OutboxIInv, OutboxTick
  PROVE  OutboxIInv'
<1> USE OutboxAssumption
<1>1. /\ outbox \in [RowIds -> RowState \cup {Absent}] /\ loop \in [Loops -> LoopState]
      /\ minute \in 0 .. DAY - 1 /\ LoopsSafe /\ RowsSafe
  BY DEF OutboxIInv, OutboxTypes
<1>2. minute' \in 0 .. DAY - 1
  <2>1. minute + 1 \in Nat /\ minute + 1 < 2 * DAY
    BY <1>1
  <2>2. (minute + 1) % DAY \in 0 .. DAY - 1
    BY <2>1, DayArithmetic
  <2> QED
    BY <2>2 DEF OutboxTick
<1>3. UNCHANGED <<dest, received>>
  BY DEF OutboxTick
<1>4. ASSUME NEW r \in RowIds
      PROVE  /\ outbox'[r] \in RowState \cup {Absent}
             /\ outbox'[r] = outbox[r] \/ (outbox'[r] # Absent /\ RowSafe(r, outbox'[r], received))
  <2>1. outbox'[r] = IF outbox[r] = Absent THEN Absent
                     ELSE [outbox[r] EXCEPT !.wait = Lower(@), !.age = AtMost(@ + 1, MaxAge)]
    BY DEF OutboxTick
  <2>2. CASE outbox[r] = Absent
    BY <2>1, <2>2
  <2>3. CASE outbox[r] # Absent
    <3>1. outbox[r] \in RowState /\ RowSafe(r, outbox[r], received)
      BY <1>1, <2>3 DEF RowsSafe
    <3> DEFINE o == outbox[r]
               a == [o EXCEPT !.wait = Lower(o.wait)]
               b == [a EXCEPT !.age = AtMost(o.age + 1, MaxAge)]
    <3>2. o.wait \in 0 .. WaitBound /\ o.age \in 0 .. MaxAge
      BY <3>1 DEF RowState
    <3>3. Lower(o.wait) \in 0 .. WaitBound /\ (Lower(o.wait) > 0 => o.wait > 0)
          /\ AtMost(o.age + 1, MaxAge) \in 0 .. MaxAge
      BY <3>2, WaitBoundIs, MaxAgeBounds DEF Lower, AtMost
    <3>4. outbox'[r] = b
      BY <2>1, <2>3, <3>1 DEF RowState
    <3>5. a \in RowState /\ a.st = o.st /\ a.attempts = o.attempts /\ a.wait = Lower(o.wait)
      BY <3>1, <3>3 DEF RowState
    <3> HIDE DEF a
    <3>6. b \in RowState /\ b.st = o.st /\ b.attempts = o.attempts /\ b.wait = Lower(o.wait)
      BY <3>3, <3>5 DEF RowState
    <3> HIDE DEF b
    <3>7. RowSafe(r, b, received)
      BY <3>1, <3>3, <3>6 DEF RowSafe
    <3> QED
      BY <3>4, <3>6, <3>7, OutboxRowExists
  <2> QED
    BY <2>2, <2>3
<1>5. outbox' \in [RowIds -> RowState \cup {Absent}]
  <2>1. outbox' = [r \in RowIds |-> outbox'[r]]
    BY DEF OutboxTick
  <2> QED
    BY <1>4, <2>1
<1>6. RowsSafe' /\ Present \subseteq Present'
  BY <1>3, <1>4, RowStep
<1>7. ASSUME NEW w \in Loops
      PROVE  loop'[w] \in LoopState /\ LoopSafe(loop'[w], Present', received')
  <2> DEFINE l == loop[w]
             a == [l EXCEPT !.late = l.late + 1]
             b == [a EXCEPT !.plan = Sooner(l.plan)]
  <2>1. l \in LoopState /\ LoopSafe(l, Present, received)
    BY <1>1 DEF LoopsSafe
  <2>2. loop'[w] = IF l.step = "idle" THEN l
                   ELSE [l EXCEPT !.late = @ + 1, !.plan = Sooner(@)]
    BY DEF OutboxTick
  <2>3. CASE l.step = "idle"
    BY <1>3, <1>6, <2>1, <2>2, <2>3, SafeGrows
  <2>4. CASE l.step # "idle"
    <3>1. l \in Handlings \cup Recordings /\ l.plan \in Plans /\ l.late \in Nat
          /\ l.known \in SUBSET RowIds
      BY <2>1, <2>4, LoopKinds
    <3> DEFINE p == Sooner(l.plan)
    <3>2. p \in Plans /\ DOMAIN p = DOMAIN l.plan /\ \A r \in DOMAIN l.plan : p[r].held <=> l.plan[r].held
      BY <3>1, SoonerPlan
    <3>3. loop'[w] = [a EXCEPT !.plan = p]
      BY <2>2, <2>4, <3>1 DEF Handlings, Recordings
    <3> HIDE DEF l, p
    <3>4. CASE l \in Handlings
      <4>1. a \in Handlings /\ a.known = l.known
        BY <3>1, <3>4 DEF Handlings
      <4> HIDE DEF a
      <4> DEFINE n == [a EXCEPT !.plan = p]
      <4>2. n \in Handlings /\ n.step = "handling" /\ n.plan = p /\ n.known = l.known
        BY <3>2, <4>1 DEF Handlings
      <4>3. loop'[w] = n
        BY <3>3
      <4> HIDE DEF n
      <4>4. LoopSafe(n, Present, received)
        BY <2>1, <2>4, <3>2, <4>2 DEF LoopSafe
      <4>5. LoopSafe(n, Present', received')
        BY <1>3, <1>6, <4>4, SafeGrows
      <4> QED
        BY <4>2, <4>3, <4>5 DEF LoopState
    <3>5. CASE l \in Recordings
      <4>1. a \in Recordings /\ a.known = l.known /\ a.batch = l.batch /\ (a.ok <=> l.ok)
            /\ l.step = "recording"
        BY <3>1, <3>5 DEF Recordings
      <4> HIDE DEF a
      <4> DEFINE n == [a EXCEPT !.plan = p]
      <4>2. n \in Recordings /\ n.step = "recording" /\ n.plan = p /\ n.known = l.known
            /\ n.batch = l.batch /\ (n.ok <=> l.ok)
        BY <3>2, <4>1 DEF Recordings
      <4>3. loop'[w] = n
        BY <3>3
      <4> HIDE DEF n
      <4>4. LoopSafe(n, Present, received)
        BY <2>1, <2>4, <3>2, <4>1, <4>2 DEF LoopSafe
      <4>5. LoopSafe(n, Present', received')
        BY <1>3, <1>6, <4>4, SafeGrows
      <4> QED
        BY <4>2, <4>3, <4>5 DEF LoopState
    <3> QED
      BY <3>1, <3>4, <3>5
  <2> QED
    BY <2>3, <2>4
<1>8. loop' = [w \in Loops |-> loop'[w]]
  BY DEF OutboxTick
<1>9. loop' \in [Loops -> LoopState] /\ LoopsSafe'
  BY <1>7, <1>8 DEF LoopsSafe
<1> QED
  BY <1>1, <1>2, <1>3, <1>5, <1>6, <1>9 DEF OutboxIInv, OutboxTypes

LEMMA OutboxIInvHolds == OutboxIInv => OutboxInv
<1> SUFFICES ASSUME OutboxIInv PROVE OutboxInv
  OBVIOUS
<1>1. /\ outbox \in [RowIds -> RowState \cup {Absent}] /\ minute \in 0 .. DAY - 1
      /\ \A r \in RowIds : RowSafe(r, outbox[r], received)
  BY DEF OutboxIInv, OutboxTypes, RowsSafe
<1>2. OutboxTypeOK
  BY <1>1 DEF OutboxTypeOK, RowState, WaitBound
<1>3. DeliveredWasReceived /\ CriticalNeverHeld
  BY <1>1 DEF DeliveredWasReceived, CriticalNeverHeld, RowSafe
<1>4. QuietEndsExactly
  BY <1>1, OutboxAssumption, QuietEnd DEF QuietEndsExactly
<1> QED
  BY <1>2, <1>3, <1>4 DEF OutboxInv

(* Whatever the loops of any number of replicas read, send and write in    *)
(* between one another, crash or repeat: what deliver_due() marks as       *)
(* delivered was received, only a failed attempt makes a critical row      *)
(* wait, and next_end() is the first minute after quiet hours.             *)
THEOREM OutboxAlwaysHolds == OutboxSpec => []OutboxInv
<1>1. OutboxInit => OutboxIInv
  BY OutboxInitIInv
<1>2. OutboxIInv /\ [OutboxNext]_outboxVars => OutboxIInv'
  <2> SUFFICES ASSUME OutboxIInv, [OutboxNext]_outboxVars
               PROVE  OutboxIInv'
    OBVIOUS
  <2>1. CASE UNCHANGED outboxVars
    BY <2>1 DEF outboxVars, OutboxIInv, OutboxTypes, LoopsSafe, RowsSafe, Present
  <2>2. ASSUME NEW w \in Loops, LoopStep(w) PROVE OutboxIInv'
    BY <2>2, PollKeeps, PostponeKeeps, SendKeeps, RecordKeeps DEF LoopStep
  <2>3. CASE OutboxNext
    BY <2>2, <2>3, DestinationsKeep, QueueingKeeps, FailKeeps, TickKeeps
       DEF OutboxNext, EnqueueForAudit, EnqueueExpiring
  <2> QED
    BY <2>1, <2>3
<1>3. OutboxIInv => OutboxInv
  BY OutboxIInvHolds
<1> QED
  BY <1>1, <1>2, <1>3, PTL DEF OutboxSpec

-----------------------------------------------------------------------------
(* Posture integrations.                                                   *)

IntegRow == [id : 0 .. MaxEdits, config : Configs, enabled : BOOLEAN, outage : BOOLEAN,
             lease : 0 .. LEASE_SECS + 1, dueIn : 0 .. INTERVAL]
HealthRecord == [state : {"good", "bad"}, age : Ages, config : Configs]
Claimed == [step : {"claimed"}, id : 0 .. MaxEdits]
Asking == [step : {"asking"}, id : 0 .. MaxEdits, config : Configs, wasOutage : BOOLEAN]
Answered == [step : {"answered"}, ok : {TRUE}, id : 0 .. MaxEdits, got : Signals,
             config : Configs, wasOutage : BOOLEAN, changed : BOOLEAN]
Failed == [step : {"answered"}, ok : {FALSE}, id : 0 .. MaxEdits, wasOutage : BOOLEAN]
WorkState == {Rest} \cup Claimed \cup Asking \cup Answered \cup Failed
MapState == [step : {"compiled"}, grant : SUBSET Devices, deadline : 0 .. NoEval]

PostureTypes ==
  /\ integ \in IntegRow \cup {NoInteg}
  /\ records \in [Devices -> HealthRecord \cup {NoRecord}]
  /\ \A d \in Devices : records[d] # NoRecord => integ # NoInteg
  /\ check \in CheckDefs \cup {NoCheck}
  /\ credAge \in [Devices -> Ages] /\ evalIn \in 0 .. NoEval
  /\ work \in [Replicas \cup Manuals -> WorkState]
  /\ behind \in BOOLEAN /\ compiled \in MapState \cup {NoMap} /\ granted \subseteq Devices
  /\ edits \in 0 .. MaxEdits

(* No device of an agent that is not behind passes a check that needs an   *)
(* integration that is off, in the map it has or in the one on its way.    *)
Off == check.integration # "none" /\ (integ = NoInteg \/ ~integ.enabled)
OffDenies ==
  ~behind /\ Off => IF compiled = NoMap THEN granted = {} ELSE compiled.grant = {}

PostureIInv == PostureTypes /\ OffDenies

LEMMA PostureInitIInv == PostureInit => PostureIInv
<1> SUFFICES ASSUME PostureInit PROVE PostureIInv
  OBVIOUS
<1> USE PostureAssumption DEF PostureInit
<1>1. Rest \in WorkState
  BY DEF WorkState
<1>2. PostureTypes
  BY <1>1 DEF PostureTypes, NoEval, Ages
<1> QED
  BY <1>2 DEF PostureIInv, OffDenies

LEMMA WorkFields ==
  ASSUME NEW x \in WorkState
  PROVE  /\ x.step = "claimed" => x.id \in 0 .. MaxEdits
         /\ x.step = "asking" => x \in Asking
         /\ x.step = "answered" /\ x.ok => x \in Answered
<1>1. CASE x = Rest
  BY <1>1 DEF Rest
<1>2. CASE x \in Claimed
  BY <1>2 DEF Claimed
<1>3. CASE x \in Asking
  BY <1>3 DEF Asking
<1>4. CASE x \in Answered
  BY <1>4 DEF Answered
<1>5. CASE x \in Failed
  <2>1. x.step = "answered" /\ x.ok = FALSE
    BY <1>5 DEF Failed
  <2> QED
    BY <2>1
<1> QED
  BY <1>1, <1>2, <1>3, <1>4, <1>5 DEF WorkState

LEMMA RowIsIntegration ==
  ASSUME NEW x \in IntegRow
  PROVE  x # NoInteg
<1>1. "id" \in DOMAIN x
  BY DEF IntegRow
<1>2. "id" \notin DOMAIN NoInteg
  BY DEF NoInteg
<1> QED
  BY <1>1, <1>2

LEMMA Untouched ==
  ASSUME PostureIInv, behind' \in BOOLEAN, behind => behind', UNCHANGED granted,
         ~behind' /\ Off' => Off,
         \/ UNCHANGED compiled
         \/ compiled # NoMap /\ compiled' # NoMap /\ compiled'.grant = compiled.grant
  PROVE  OffDenies'
BY DEF PostureIInv, OffDenies

(* A step that moves only a reconcile, and the lease and times of its row. *)
LEMMA WorkStep ==
  ASSUME PostureIInv, NEW r \in Replicas \cup Manuals, NEW w \in WorkState,
         work' = [work EXCEPT ![r] = w], edits' \in 0 .. MaxEdits,
         \/ UNCHANGED integ
         \/ integ # NoInteg /\ integ' \in IntegRow /\ (integ'.enabled <=> integ.enabled),
         records' \in [Devices -> HealthRecord \cup {NoRecord}],
         \A d \in Devices : records'[d] # NoRecord => integ # NoInteg,
         behind' \in BOOLEAN, behind => behind',
         UNCHANGED <<check, credAge, evalIn, compiled, granted>>
  PROVE  PostureIInv'
<1>1. integ \in IntegRow \cup {NoInteg} /\ PostureTypes
  BY DEF PostureIInv, PostureTypes
<1>2. integ' \in IntegRow \cup {NoInteg} /\ (integ # NoInteg => integ' # NoInteg)
  BY <1>1, RowIsIntegration
<1>3. work' \in [Replicas \cup Manuals -> WorkState]
  BY <1>1 DEF PostureTypes
<1>4. PostureTypes'
  BY <1>1, <1>2, <1>3 DEF PostureTypes
<1>5. Off' => Off
  BY <1>2, RowIsIntegration DEF Off
<1>6. OffDenies'
  BY <1>5, Untouched
<1> QED
  BY <1>4, <1>6 DEF PostureIInv

(* A reconcile of one replica or administrator.                            *)
LEMMA ReconcileKeeps ==
  ASSUME PostureIInv, NEW r \in Replicas \cup Manuals,
         Claim(r) \/ SyncNow(r) \/ Reconcile(r) \/ SyncCrash(r)
  PROVE  PostureIInv'
<1> USE PostureAssumption
<1>1. /\ work[r] \in WorkState /\ integ \in IntegRow \cup {NoInteg} /\ behind \in BOOLEAN
      /\ records \in [Devices -> HealthRecord \cup {NoRecord}]
      /\ \A d \in Devices : records[d] # NoRecord => integ # NoInteg
      /\ edits \in 0 .. MaxEdits
  BY DEF PostureIInv, PostureTypes
<1>2. Rest \in WorkState
  BY DEF WorkState
<1>3. ASSUME integ # NoInteg
      PROVE  /\ integ.id \in 0 .. MaxEdits /\ integ.config \in Configs
             /\ integ.enabled \in BOOLEAN /\ integ.outage \in BOOLEAN
             /\ [step |-> "claimed", id |-> integ.id] \in WorkState
  <2>1. integ.id \in 0 .. MaxEdits /\ integ.config \in Configs
        /\ integ.enabled \in BOOLEAN /\ integ.outage \in BOOLEAN
    BY <1>1, <1>3 DEF IntegRow
  <2> QED
    BY <2>1 DEF WorkState, Claimed
<1>4. CASE Claim(r)
  <2> DEFINE i == [integ EXCEPT !.lease = LEASE_SECS]
             w == [step |-> "claimed", id |-> integ.id]
  <2>1. integ \in IntegRow /\ integ # NoInteg
    BY <1>1, <1>4 DEF Claim
  <2>2. i \in IntegRow /\ (i.enabled <=> integ.enabled)
    BY <2>1 DEF IntegRow
  <2>3. integ' = i /\ work' = [work EXCEPT ![r] = w]
        /\ UNCHANGED <<records, check, credAge, evalIn, reachVars, edits>>
    BY <1>4 DEF Claim
  <2>4. w \in WorkState
    BY <1>3, <2>1
  <2> HIDE DEF i, w
  <2> QED
    BY <1>1, <2>1, <2>2, <2>3, <2>4, WorkStep DEF reachVars
<1>5. CASE SyncNow(r)
  <2> DEFINE w == [step |-> "claimed", id |-> integ.id]
  <2>1. /\ integ # NoInteg /\ work' = [work EXCEPT ![r] = w] /\ edits' = edits + 1
        /\ edits < MaxEdits
        /\ UNCHANGED <<integ, records, check, credAge, evalIn, reachVars>>
    BY <1>5 DEF SyncNow
  <2>2. w \in WorkState /\ edits' \in 0 .. MaxEdits
    BY <1>1, <1>3, <2>1
  <2> HIDE DEF w
  <2> QED
    BY <1>1, <2>1, <2>2, WorkStep DEF reachVars
<1>6. CASE SyncCrash(r)
  BY <1>1, <1>2, <1>6, WorkStep DEF SyncCrash, reachVars
<1>7. CASE SyncRead(r)
  <2> DEFINE w == IF ~Stored(work[r].id) THEN Rest
                  ELSE [step |-> "asking", id |-> work[r].id, config |-> integ.config,
                        wasOutage |-> integ.outage]
  <2>1. /\ work[r].step = "claimed" /\ work' = [work EXCEPT ![r] = w]
        /\ UNCHANGED <<integ, records, check, credAge, evalIn, reachVars, edits>>
    BY <1>1, <1>7 DEF SyncRead, PostureIInv, PostureTypes
  <2>2. work[r].id \in 0 .. MaxEdits
    BY <1>1, <2>1, WorkFields
  <2>3. ASSUME Stored(work[r].id)
        PROVE  w \in WorkState
    <3>1. w = [step |-> "asking", id |-> work[r].id, config |-> integ.config,
               wasOutage |-> integ.outage]
      BY <2>3
    <3>2. integ.config \in Configs /\ integ.outage \in BOOLEAN
      BY <1>3, <2>3 DEF Stored
    <3> QED
      BY <2>2, <3>1, <3>2 DEF WorkState, Asking
  <2>4. w \in WorkState
    BY <1>2, <2>3
  <2> HIDE DEF w
  <2> QED
    BY <1>1, <2>1, <2>4, WorkStep DEF reachVars
<1>8. CASE SyncAnswer(r)
  <2> DEFINE Good(got) == [step |-> "answered", ok |-> TRUE, id |-> work[r].id, got |-> got,
                           config |-> work[r].config, wasOutage |-> work[r].wasOutage,
                           changed |-> \E d \in Devices :
                             got[d] # IF Stored(work[r].id) THEN records[d].state ELSE "none"]
             bad == [step |-> "answered", ok |-> FALSE, id |-> work[r].id,
                     wasOutage |-> work[r].wasOutage]
  <2>1. /\ work[r].step = "asking"
        /\ (\E got \in Signals : work' = [work EXCEPT ![r] = Good(got)])
           \/ work' = [work EXCEPT ![r] = bad]
        /\ UNCHANGED <<integ, records, check, credAge, evalIn, reachVars, edits>>
    BY <1>1, <1>8 DEF SyncAnswer, PostureIInv, PostureTypes
  <2>2. work[r].id \in 0 .. MaxEdits /\ work[r].config \in Configs /\ work[r].wasOutage \in BOOLEAN
    BY <1>1, <2>1, WorkFields DEF Asking
  <2>3. bad \in WorkState
    BY <2>2 DEF WorkState, Failed
  <2>4. \A got \in Signals : Good(got) \in WorkState
    BY <2>2 DEF WorkState, Answered
  <2>5. PICK w \in WorkState : work' = [work EXCEPT ![r] = w]
    BY <2>1, <2>3, <2>4
  <2> QED
    BY <1>1, <2>1, <2>5, WorkStep DEF reachVars
<1>9. CASE SyncSucceed(r)
  <2>1. /\ work' = [work EXCEPT ![r] = Rest] /\ behind' \in BOOLEAN /\ (behind => behind')
        /\ work[r].step = "answered" /\ work[r].ok
        /\ UNCHANGED <<check, credAge, evalIn, compiled, granted, edits>>
    BY <1>1, <1>9 DEF SyncSucceed
  <2>2. CASE Stored(work[r].id)
    <3> DEFINE a == [integ EXCEPT !.outage = FALSE]
               b == [a EXCEPT !.lease = LEASE_SECS + 1]
               i == [b EXCEPT !.dueIn = INTERVAL]
               rs == [d \in Devices |-> RecordOf(work[r].got[d], work[r].config)]
    <3>1. integ' = i /\ records' = rs
      BY <1>9, <2>2 DEF SyncSucceed
    <3>2. integ \in IntegRow /\ integ # NoInteg
      BY <1>1, <2>2 DEF Stored
    <3>3. a \in IntegRow /\ (a.enabled <=> integ.enabled)
      BY <3>2 DEF IntegRow
    <3> HIDE DEF a
    <3>4. b \in IntegRow /\ (b.enabled <=> a.enabled)
      BY <3>3 DEF IntegRow
    <3> HIDE DEF b
    <3>5. i \in IntegRow /\ (i.enabled <=> b.enabled)
      BY <3>4 DEF IntegRow
    <3>6. work[r].got \in Signals /\ work[r].config \in Configs
      BY <1>1, <2>1, WorkFields DEF Answered
    <3>7. rs \in [Devices -> HealthRecord \cup {NoRecord}]
      BY <3>6 DEF Signals, RecordOf, HealthRecord, Ages
    <3> HIDE DEF i, rs
    <3> QED
      BY <1>1, <1>2, <2>1, <3>1, <3>2, <3>3, <3>4, <3>5, <3>7, WorkStep
  <2>3. CASE ~Stored(work[r].id)
    <3>1. UNCHANGED <<integ, records>>
      BY <1>9, <2>3 DEF SyncSucceed
    <3> QED
      BY <1>1, <1>2, <2>1, <3>1, WorkStep
  <2> QED
    BY <2>2, <2>3
<1>10. CASE SyncFail(r)
  <2>1. /\ work' = [work EXCEPT ![r] = Rest]
        /\ UNCHANGED <<records, check, credAge, evalIn, compiled, granted, edits>>
    BY <1>10 DEF SyncFail
  <2>2. behind' \in BOOLEAN /\ (behind => behind')
    BY <1>1, <1>10 DEF SyncFail
  <2>3. PICK wait \in 1 .. INTERVAL :
          integ' = IF Stored(work[r].id)
                   THEN [integ EXCEPT !.outage = TRUE, !.lease = LEASE_SECS + 1, !.dueIn = wait]
                   ELSE integ
    BY <1>10 DEF SyncFail
  <2>4. CASE Stored(work[r].id)
    <3> DEFINE a == [integ EXCEPT !.outage = TRUE]
               b == [a EXCEPT !.lease = LEASE_SECS + 1]
               i == [b EXCEPT !.dueIn = wait]
    <3>1. integ' = i
      BY <2>3, <2>4
    <3>2. integ \in IntegRow /\ integ # NoInteg
      BY <1>1, <2>4 DEF Stored
    <3>3. a \in IntegRow /\ (a.enabled <=> integ.enabled)
      BY <3>2 DEF IntegRow
    <3> HIDE DEF a
    <3>4. b \in IntegRow /\ (b.enabled <=> a.enabled)
      BY <3>3 DEF IntegRow
    <3> HIDE DEF b
    <3>5. i \in IntegRow /\ (i.enabled <=> b.enabled)
      BY <3>4 DEF IntegRow
    <3> HIDE DEF i
    <3> QED
      BY <1>1, <1>2, <2>1, <2>2, <3>1, <3>2, <3>3, <3>4, <3>5, WorkStep
  <2>5. CASE ~Stored(work[r].id)
    BY <1>1, <1>2, <2>1, <2>2, <2>3, <2>5, WorkStep
  <2> QED
    BY <2>4, <2>5
<1> QED
  BY <1>4, <1>5, <1>6, <1>7, <1>8, <1>9, <1>10 DEF Reconcile

(* The console's edits; each that could grant less makes the agent behind. *)
LEMMA ConsoleKeeps ==
  ASSUME PostureIInv,
         \/ \E c \in Configs : CreateIntegration(c) \/ \E e \in BOOLEAN : UpdateIntegration(c, e)
         \/ DeleteIntegration
         \/ \E def \in CheckDefs \cup {NoCheck} : EditCheck(def)
         \/ \E d \in Devices : Renew(d)
  PROVE  PostureIInv'
<1> USE PostureAssumption
<1>1. PostureTypes /\ edits \in 0 .. MaxEdits /\ integ \in IntegRow \cup {NoInteg}
  BY DEF PostureIInv, PostureTypes
<1>2. PostureEdit => edits' \in 0 .. MaxEdits
  BY <1>1 DEF PostureEdit
<1>3. ASSUME NEW c \in Configs, CreateIntegration(c)
      PROVE  PostureIInv'
  <2> DEFINE i == [id |-> edits, config |-> c, enabled |-> TRUE, outage |-> FALSE,
                   lease |-> LEASE_SECS + 1, dueIn |-> 0]
  <2>1. integ' = i /\ PostureEdit /\ UNCHANGED <<records, check, credAge, evalIn, work, reachVars>>
    BY <1>3 DEF CreateIntegration
  <2>2. i \in IntegRow /\ i.enabled
    BY <1>1 DEF IntegRow
  <2>3. integ = NoInteg
    BY <1>3 DEF CreateIntegration
  <2> HIDE DEF i
  <2>4. PostureTypes'
    BY <1>1, <1>2, <2>1, <2>2, RowIsIntegration DEF PostureTypes, reachVars
  <2>5. ~Off'
    BY <2>1, <2>2, RowIsIntegration DEF Off
  <2> QED
    BY <2>4, <2>5 DEF PostureIInv, OffDenies
<1>4. ASSUME NEW c \in Configs, NEW e \in BOOLEAN, UpdateIntegration(c, e)
      PROVE  PostureIInv'
  <2> DEFINE due == IF c # integ.config THEN 0 ELSE integ.dueIn
             a == [integ EXCEPT !.config = c]
             b == [a EXCEPT !.enabled = e]
             i == [b EXCEPT !.dueIn = due]
             rs == IF c # integ.config THEN [d \in Devices |-> NoRecord] ELSE records
  <2>1. integ # NoInteg /\ integ \in IntegRow
    BY <1>1, <1>4 DEF UpdateIntegration
  <2>2. integ' = i
    BY <1>4, <2>1 DEF UpdateIntegration, IntegRow
  <2>3. records' = rs /\ PostureEdit /\ behind' = TRUE
        /\ UNCHANGED <<check, credAge, evalIn, work, compiled, granted>>
    BY <1>4 DEF UpdateIntegration
  <2>4. due \in 0 .. INTERVAL
    BY <2>1 DEF IntegRow
  <2>5. a \in IntegRow
    BY <2>1 DEF IntegRow
  <2> HIDE DEF due, a
  <2>6. b \in IntegRow
    BY <2>5 DEF IntegRow
  <2> HIDE DEF b
  <2>7. i \in IntegRow
    BY <2>4, <2>6 DEF IntegRow
  <2>8. rs \in [Devices -> HealthRecord \cup {NoRecord}]
    BY <1>1 DEF PostureTypes
  <2> HIDE DEF i, rs
  <2>9. PostureTypes'
    BY <1>1, <1>2, <2>2, <2>3, <2>7, <2>8, RowIsIntegration DEF PostureTypes
  <2> QED
    BY <2>3, <2>9 DEF PostureIInv, OffDenies
<1>5. CASE DeleteIntegration
  <2>1. /\ integ' = NoInteg /\ records' = [d \in Devices |-> NoRecord] /\ behind' = TRUE
        /\ PostureEdit /\ UNCHANGED <<check, credAge, evalIn, work, compiled, granted>>
    BY <1>5 DEF DeleteIntegration
  <2>2. PostureTypes'
    BY <1>1, <1>2, <2>1 DEF PostureTypes
  <2> QED
    BY <2>1, <2>2 DEF PostureIInv, OffDenies
<1>6. ASSUME NEW def \in CheckDefs \cup {NoCheck}, EditCheck(def)
      PROVE  PostureIInv'
  <2>1. /\ check' = def /\ behind' = TRUE /\ PostureEdit
        /\ UNCHANGED <<integ, records, credAge, evalIn, work, compiled, granted>>
    BY <1>6 DEF EditCheck
  <2>2. PostureTypes'
    BY <1>1, <1>2, <2>1 DEF PostureTypes
  <2> QED
    BY <2>1, <2>2 DEF PostureIInv, OffDenies
<1>7. ASSUME NEW d \in Devices, Renew(d)
      PROVE  PostureIInv'
  <2>1. /\ credAge' = [credAge EXCEPT ![d] = 0] /\ behind' = TRUE /\ PostureEdit
        /\ UNCHANGED <<integ, records, check, evalIn, work, compiled, granted>>
    BY <1>7 DEF Renew
  <2>2. PostureTypes'
    BY <1>1, <1>2, <2>1 DEF PostureTypes, Ages
  <2> QED
    BY <2>1, <2>2 DEF PostureIInv, OffDenies
<1> QED
  BY <1>3, <1>4, <1>5, <1>6, <1>7

(* The deadline of a map lies within the age a check allows.               *)
LEMMA DeadlineBounded ==
  ASSUME PostureTypes
  PROVE  NextDeadline \in 0 .. NoEval
<1> USE PostureAssumption
<1> DEFINE times == UNION {Lapses(d) : d \in {e \in Devices : Passes(e)}} \ {0}
<1>1. \A d \in Devices : Passes(d) => Lapses(d) \subseteq 0 .. MAX_AGE
  <2> SUFFICES ASSUME NEW d \in Devices, Passes(d), NEW t \in Lapses(d)
               PROVE  t \in 0 .. MAX_AGE
    OBVIOUS
  <2>1. credAge[d] \in Ages /\ records[d] \in HealthRecord \cup {NoRecord}
    BY DEF PostureTypes
  <2>2. CASE t = MAX_AGE - credAge[d] /\ check.credential
    BY <2>1, <2>2 DEF Passes, Ages
  <2>3. CASE t = MAX_AGE - records[d].age /\ check.integration # "none" /\ records[d].age <= MAX_AGE
    <3>1. records[d].state = "good"
      BY <2>3 DEF Passes, AssessIntegration
    <3>2. records[d] \in HealthRecord
      BY <2>1, <3>1 DEF NoRecord
    <3> QED
      BY <2>3, <3>2 DEF HealthRecord, Ages
  <2> QED
    BY <2>2, <2>3 DEF Lapses
<1>2. times \subseteq 0 .. MAX_AGE
  BY <1>1
<1> HIDE DEF times
<1>3. CASE times = {}
  BY <1>3 DEF NextDeadline, NoEval, times
<1>4. CASE times # {}
  <2>1. times \in SUBSET Nat /\ times # {}
    BY <1>2, <1>4
  <2>2. \E t \in times : \A u \in times : t <= u
    BY <2>1, LeastNumber
  <2>3. NextDeadline = CHOOSE t \in times : \A u \in times : t <= u
    BY <1>4 DEF NextDeadline, times
  <2>4. NextDeadline \in times
    BY <2>2, <2>3
  <2> QED
    BY <1>2, <2>4 DEF NoEval
<1> QED
  BY <1>3, <1>4

(* The agent's map, and the clock.                                         *)
LEMMA MapKeeps ==
  ASSUME PostureIInv, Compile \/ Answer \/ SyncDue \/ PostureTick
  PROVE  PostureIInv'
<1> USE PostureAssumption
<1>1. /\ PostureTypes /\ behind \in BOOLEAN /\ compiled \in MapState \cup {NoMap}
      /\ integ \in IntegRow \cup {NoInteg} /\ evalIn \in 0 .. NoEval /\ OffDenies
  BY DEF PostureIInv, PostureTypes
<1>2. \A m \in MapState : m # NoMap
  BY DEF MapState, NoMap
<1>3. CASE Compile
  <2> DEFINE g == {d \in Devices : Passes(d)}
             m == [step |-> "compiled", grant |-> g, deadline |-> NextDeadline]
  <2>1. /\ compiled' = m /\ behind' = FALSE
        /\ UNCHANGED <<integ, records, check, credAge, evalIn, work, granted, edits>>
    BY <1>3 DEF Compile
  <2>2. NextDeadline \in 0 .. NoEval
    BY <1>1, DeadlineBounded
  <2>3. Off => g = {}
    BY DEF Off, Passes, AssessIntegration
  <2>4. g \subseteq Devices
    OBVIOUS
  <2> HIDE DEF g
  <2>5. m \in MapState /\ m.grant = g
    BY <2>2, <2>4 DEF MapState
  <2> HIDE DEF m
  <2>6. PostureTypes'
    BY <1>1, <2>1, <2>5 DEF PostureTypes
  <2>7. Off' => Off
    BY <2>1 DEF Off
  <2> QED
    BY <1>2, <2>1, <2>3, <2>5, <2>6, <2>7 DEF PostureIInv, OffDenies
<1>4. CASE Answer
  <2>1. /\ compiled # NoMap /\ compiled \in MapState
        /\ evalIn' = (IF compiled.deadline < evalIn THEN compiled.deadline ELSE evalIn)
        /\ granted' = compiled.grant /\ compiled' = NoMap
        /\ UNCHANGED <<integ, records, check, credAge, work, behind, edits>>
    BY <1>1, <1>4 DEF Answer
  <2>2. compiled.deadline \in 0 .. NoEval /\ compiled.grant \subseteq Devices
    BY <2>1 DEF MapState
  <2>3. PostureTypes'
    BY <1>1, <2>1, <2>2 DEF PostureTypes
  <2>4. Off' => Off
    BY <2>1 DEF Off
  <2> QED
    BY <1>1, <2>1, <2>3, <2>4 DEF PostureIInv, OffDenies
<1>5. CASE SyncDue
  <2>1. /\ evalIn' = NoEval /\ behind' = TRUE
        /\ UNCHANGED <<integ, records, check, credAge, work, compiled, granted, edits>>
    BY <1>5 DEF SyncDue
  <2>2. PostureTypes'
    BY <1>1, <2>1 DEF PostureTypes, NoEval
  <2> QED
    BY <2>1, <2>2 DEF PostureIInv, OffDenies
<1>6. CASE PostureTick
  <2> DEFINE lease == IF integ.lease = LEASE_SECS + 1 THEN integ.lease ELSE Down(integ.lease)
             a == [integ EXCEPT !.dueIn = Down(integ.dueIn)]
             i == [a EXCEPT !.lease = lease]
             c == [compiled EXCEPT !.deadline = Down(compiled.deadline)]
             rs == [d \in Devices |->
                      IF records[d] = NoRecord \/ records[d].age = MAX_AGE + 1 THEN records[d]
                      ELSE [records[d] EXCEPT !.age = @ + 1]]
  <2>1. integ' \in IntegRow \cup {NoInteg} /\ (integ # NoInteg => integ' # NoInteg)
        /\ (integ # NoInteg => (integ'.enabled <=> integ.enabled))
        /\ (integ = NoInteg => integ' = NoInteg)
    <3>1. CASE integ = NoInteg
      BY <1>6, <3>1 DEF PostureTick
    <3>2. CASE integ # NoInteg
      <4>1. integ \in IntegRow
        BY <1>1, <3>2
      <4>2. Down(integ.dueIn) \in 0 .. INTERVAL /\ lease \in 0 .. LEASE_SECS + 1
        BY <4>1 DEF IntegRow, Down
      <4>3. integ' = i
        BY <1>6, <3>2, <4>1 DEF PostureTick, IntegRow
      <4> HIDE DEF lease
      <4>4. a \in IntegRow /\ (a.enabled <=> integ.enabled)
        BY <4>1, <4>2 DEF IntegRow
      <4> HIDE DEF a
      <4>5. i \in IntegRow /\ (i.enabled <=> a.enabled)
        BY <4>2, <4>4 DEF IntegRow
      <4> HIDE DEF i
      <4> QED
        BY <3>2, <4>3, <4>4, <4>5, RowIsIntegration
    <3> QED
      BY <3>1, <3>2
  <2>2. records' = rs
    BY <1>6 DEF PostureTick
  <2>3. ASSUME NEW d \in Devices
        PROVE  /\ rs[d] \in HealthRecord \cup {NoRecord}
               /\ records[d] = NoRecord => rs[d] = NoRecord
    <3>1. records[d] \in HealthRecord \cup {NoRecord}
      BY <1>1 DEF PostureTypes
    <3> QED
      BY <3>1 DEF HealthRecord, Ages
  <2>4. rs \in [Devices -> HealthRecord \cup {NoRecord}]
    BY <2>3
  <2> HIDE DEF rs
  <2>5. credAge' \in [Devices -> Ages]
    BY <1>1, <1>6 DEF PostureTick, PostureTypes, Ages
  <2>6. evalIn' \in 0 .. NoEval
    BY <1>1, <1>6 DEF PostureTick, NoEval
  <2>7. compiled' \in MapState \cup {NoMap}
        /\ (compiled' = compiled
              \/ (compiled # NoMap /\ compiled' # NoMap /\ compiled'.grant = compiled.grant))
    <3>1. CASE compiled = NoMap \/ compiled.deadline = NoEval
      BY <1>1, <1>6, <3>1 DEF PostureTick
    <3>2. CASE compiled # NoMap /\ compiled.deadline # NoEval
      <4>1. compiled \in MapState /\ compiled' = c
        BY <1>1, <1>6, <3>2 DEF PostureTick
      <4>2. compiled.deadline \in 0 .. NoEval
        BY <4>1 DEF MapState
      <4>3. Down(compiled.deadline) \in 0 .. NoEval
        BY <4>2 DEF Down, NoEval
      <4>4. c \in MapState /\ c.grant = compiled.grant
        BY <4>1, <4>3 DEF MapState
      <4> HIDE DEF c
      <4> QED
        BY <1>2, <3>2, <4>1, <4>4
    <3> QED
      BY <3>1, <3>2
  <2>8. UNCHANGED <<check, work, behind, granted, edits>>
    BY <1>6 DEF PostureTick
  <2>9. PostureTypes'
    BY <1>1, <2>1, <2>2, <2>3, <2>4, <2>5, <2>6, <2>7, <2>8 DEF PostureTypes
  <2>10. Off' => Off
    BY <2>1, <2>8 DEF Off
  <2>11. OffDenies'
    BY <1>1, <2>7, <2>8, <2>10, Untouched
  <2> QED
    BY <2>9, <2>11 DEF PostureIInv
<1> QED
  BY <1>3, <1>4, <1>5, <1>6

LEMMA PostureIInvHolds == PostureIInv => PostureInv
BY DEF PostureIInv, PostureTypes, OffDenies, Off, PostureInv, PostureTypeOK, DisabledDenies,
       IntegRow, HealthRecord

(* An agent that is in step grants no device through an integration that   *)
(* is disabled or gone, whatever reconcile, edit or compile was under way  *)
(* when it was disabled: update_integration(), sync_integration() and the  *)
(* compile of the map, for any number of devices, replicas and edits.      *)
THEOREM PostureAlwaysHolds == PostureSpec => []PostureInv
<1>1. PostureInit => PostureIInv
  BY PostureInitIInv
<1>2. PostureIInv /\ [PostureNext]_postureVars => PostureIInv'
  <2> SUFFICES ASSUME PostureIInv, [PostureNext]_postureVars
               PROVE  PostureIInv'
    OBVIOUS
  <2>1. CASE UNCHANGED postureVars
    BY <2>1 DEF postureVars, PostureIInv, PostureTypes, OffDenies, Off
  <2>2. CASE PostureNext
    BY <2>2, ReconcileKeeps, ConsoleKeeps, MapKeeps DEF PostureNext
  <2> QED
    BY <2>1, <2>2
<1>3. PostureIInv => PostureInv
  BY PostureIInvHolds
<1> QED
  BY <1>1, <1>2, <1>3, PTL DEF PostureSpec
=============================================================================
