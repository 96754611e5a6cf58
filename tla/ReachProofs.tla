---------------------------- MODULE ReachProofs ----------------------------
(***************************************************************************)
(* What lets devices reach each other, and lets others reach them: the key *)
(* a pair shares, what carries a resource, public ingress, private         *)
(* services and shared folders.  For any number of devices, routes,        *)
(* connectors and policies, any losses, delays and restarts: what is       *)
(* handed out is what was decided, and what was withdrawn is not served.   *)
(***************************************************************************)
EXTENDS PqExchange, Ingress, Distribution, Services, Shares,
        SequenceTheorems, FiniteSetTheorems, TLAPS

-----------------------------------------------------------------------------
(* The key a pair shares.                                                  *)

(* What each message and each phase of an exchange vouches for.            *)
Vouched ==
  \A c \in Conns :
    /\ toR[c] = "Confirm" => c \in derived
    /\ rsp[c] \in {"confirmed", "installing"} => c \in derived
    /\ toI[c] = "Ack" => c \in everHeld
    /\ ini[c] = "acked" => c \in everHeld

(* Only exchanges that were started have keys, so Start never renumbers    *)
(* the epoch of a key somebody holds.                                      *)
KeysAreOld ==
  /\ derived \subseteq 1..started
  /\ everHeld \subseteq derived
  /\ \A c \in Conns : c > started =>
       ini[c] = "idle" /\ rsp[c] = "idle" /\ toR[c] = "none" /\ toI[c] = "none"

(* The inductive strengthening of KeysAreShared and EpochCoversKey.        *)
PqIInv == TypeOK /\ Vouched /\ KeysAreOld /\ KeysAreShared /\ EpochCoversKey

LEMMA NewestIsMax ==
  ASSUME NEW m \in Nat, NEW n \in Nat
  PROVE  Newest(m, n) \in Nat /\ m <= Newest(m, n) /\ n <= Newest(m, n)
BY DEF Newest

LEMMA PqStarts == Init => PqIInv
BY BoundAssumption
   DEF Init, PqIInv, TypeOK, Vouched, KeysAreOld, KeysAreShared, EpochCoversKey,
       InitiatorStates, ResponderStates, ToResponder, ToInitiator, Conns, Keys, NoKey, Agents, PeerMaps

LEMMA PqTypeStep == TypeOK /\ [Next]_vars => TypeOK'
<1> SUFFICES ASSUME TypeOK, [Next]_vars PROVE TypeOK'
  OBVIOUS
<1> USE BoundAssumption, ScopeAssumption
    DEF TypeOK, Conns, Keys, NoKey, Agents, PeerMaps,
        connVars, runtimeVars, diskVars, trackVars, history
<1>1. ASSUME NEW a \in Agents, NEW m \in Maps, Sync(a, m) PROVE TypeOK'
  BY <1>1 DEF Sync
<1>2. ASSUME NEW a \in Agents, Manage(a) PROVE TypeOK'
  <2>1. /\ plan' \in [Agents -> PeerMaps]
        /\ known' \subseteq Agents
        /\ lastEpoch' \in [Agents -> Nat]
        /\ attempt' \in {"due", "recent"}
    BY <1>2 DEF Manage, AdoptPlan
  <2>2. installed' \in [Agents -> Keys] /\ device' \in [Agents -> Keys]
    BY <1>2 DEF Manage
  <2>3. diskEpoch' \in [Agents -> Nat] /\ diskKey' \in [Agents -> Keys]
    BY <1>2, <2>1, <2>2 DEF Manage, Persist
  <2>4. UNCHANGED <<connVars, started, peer, history>>
    BY <1>2 DEF Manage, AdoptPlan
  <2> QED
    BY <2>1, <2>2, <2>3, <2>4
<1>3. ASSUME NEW a \in Agents, Restart(a) PROVE TypeOK'
  <2>1. /\ ini' \in [Conns -> InitiatorStates]
        /\ rsp' \in [Conns -> ResponderStates]
    BY <1>3 DEF Restart, InitiatorStates, ResponderStates
  <2>2. /\ peer' \in [Agents -> PeerMaps]
        /\ plan' \in [Agents -> PeerMaps]
        /\ known' \subseteq Agents
        /\ lastEpoch' \in [Agents -> Nat]
        /\ attempt' \in {"due", "recent"}
    BY <1>3 DEF Restart, InitiatorStates, ResponderStates
  <2>3. PICK key \in {diskKey[a], NoKey} :
          /\ installed' = [installed EXCEPT ![a] = key]
          /\ diskKey' = [diskKey EXCEPT ![a] = key]
    BY <1>3 DEF Restart
  <2>4. key \in Keys
    OBVIOUS
  <2>5. installed' \in [Agents -> Keys] /\ diskKey' \in [Agents -> Keys]
    BY <2>3, <2>4
  <2>6. device' \in [Agents -> Keys]
    BY <1>3 DEF Restart
  <2>7. UNCHANGED <<epoch, ctx, toR, toI, started, diskEpoch, history>>
    BY <1>3 DEF Restart
  <2> QED
    BY <2>1, <2>2, <2>5, <2>6, <2>7
<1>4. ASSUME NEW a \in Agents, StaleRevert(a) PROVE TypeOK'
  <2>1. installed' \in [Agents -> Keys]
    BY <1>4 DEF StaleRevert
  <2>2. device' \in [Agents -> Keys]
    BY <1>4 DEF StaleRevert
  <2>3. UNCHANGED <<connVars, runtimeVars, lastEpoch, history>>
    BY <1>4 DEF StaleRevert
  <2>4. diskEpoch' \in [Agents -> Nat] /\ diskKey' \in [Agents -> Keys]
    BY <1>4, <2>1, <2>3 DEF StaleRevert, Persist
  <2> QED
    BY <2>1, <2>2, <2>3, <2>4
<1>5. CASE Start
  BY <1>5 DEF Start, InitiatorStates, ToResponder
<1>6. CASE RetryElapsed
  BY <1>6 DEF RetryElapsed
<1>7. ASSUME NEW c \in Conns, Accept(c) PROVE TypeOK'
  BY <1>7 DEF Accept, ResponderStates
<1>8. ASSUME NEW c \in Conns, RecvInit(c) PROVE TypeOK'
  <2>1. toR' \in [Conns -> ToResponder]
    BY <1>8 DEF RecvInit, ToResponder
  <2>2. rsp' \in [Conns -> ResponderStates]
    <3>1. PICK s \in {"responded", "done"} : rsp' = [rsp EXCEPT ![c] = s]
      BY <1>8 DEF RecvInit
    <3> QED
      BY <3>1 DEF ResponderStates
  <2>3. toI' \in [Conns -> ToInitiator]
    BY <1>8 DEF RecvInit, ToInitiator
  <2>4. UNCHANGED <<epoch, ctx, ini, runtimeVars, trackVars, history>>
    BY <1>8 DEF RecvInit
  <2> QED
    BY <2>1, <2>2, <2>3, <2>4
<1>9. ASSUME NEW c \in Conns, RecvResp(c) PROVE TypeOK'
  <2>1. /\ ini' \in [Conns -> InitiatorStates]
        /\ toR' \in [Conns -> ToResponder]
        /\ toI' \in [Conns -> ToInitiator]
        /\ derived' \subseteq Conns
    BY <1>9 DEF RecvResp, InitiatorStates, ToResponder, ToInitiator
  <2>2. UNCHANGED <<epoch, ctx, rsp, runtimeVars, trackVars, everHeld>>
    BY <1>9 DEF RecvResp, InitiatorStates, ToResponder, ToInitiator
  <2> QED
    BY <2>1, <2>2
<1>10. ASSUME NEW c \in Conns, RecvConfirm(c) PROVE TypeOK'
  BY <1>10 DEF RecvConfirm, ResponderStates, ToResponder
<1>11. ASSUME NEW c \in Conns, InstallDevice(c) PROVE TypeOK'
  <2>1. device' \in [Agents -> Keys]
    BY <1>11 DEF InstallDevice, ResponderStates, ToInitiator
  <2>2. rsp' \in [Conns -> ResponderStates]
    BY <1>11 DEF InstallDevice, ResponderStates, ToInitiator
  <2>3. toI' \in [Conns -> ToInitiator]
    BY <1>11 DEF InstallDevice, ResponderStates, ToInitiator
  <2>4. UNCHANGED <<epoch, ctx, ini, toR, runtimeVars, lastEpoch, installed,
                    diskVars, history>>
    BY <1>11 DEF InstallDevice, ResponderStates, ToInitiator
  <2> QED
    BY <2>1, <2>2, <2>3, <2>4
<1>12. ASSUME NEW c \in Conns, InstallTrack(c) PROVE TypeOK'
  BY <1>12, NewestIsMax DEF InstallTrack, Record, Persist, ResponderStates,
     ToInitiator
<1>13. ASSUME NEW c \in Conns, RecvAck(c) PROVE TypeOK'
  BY <1>13 DEF RecvAck, InitiatorStates, ToInitiator
<1>14. ASSUME NEW c \in Conns, RecordOutcome(c) PROVE TypeOK'
  <2>1. ini' \in [Conns -> InitiatorStates]
    BY <1>14 DEF RecordOutcome, InitiatorStates
  <2>2. UNCHANGED <<epoch, ctx, rsp, toR, toI, runtimeVars, history>>
    BY <1>14 DEF RecordOutcome, InitiatorStates
  <2>3. CASE device' = [device EXCEPT !["I"] = c] /\ Record("I", c)
    <3>1. device' \in [Agents -> Keys] /\ installed' \in [Agents -> Keys]
      BY <2>3 DEF Record
    <3>2. lastEpoch' \in [Agents -> Nat]
      BY <2>3, NewestIsMax DEF Record
    <3>3. diskEpoch' \in [Agents -> Nat] /\ diskKey' \in [Agents -> Keys]
      BY <2>3, <3>1, <3>2 DEF Record, Persist
    <3> QED
      BY <2>1, <2>2, <3>1, <3>2, <3>3
  <2>4. CASE UNCHANGED trackVars
    BY <2>1, <2>2, <2>4
  <2> QED
    BY <1>14, <2>3, <2>4 DEF RecordOutcome, InitiatorStates
<1>15. ASSUME NEW c \in Conns, RecvReject(c) PROVE TypeOK'
  BY <1>15, NewestIsMax DEF RecvReject, InitiatorStates, ToInitiator
<1>16. ASSUME NEW c \in Conns, InitiatorFail(c) PROVE TypeOK'
  BY <1>16 DEF InitiatorFail, InitiatorStates
<1>17. ASSUME NEW c \in Conns, ResponderFail(c) PROVE TypeOK'
  BY <1>17 DEF ResponderFail, ResponderStates
<1>18. CASE UNCHANGED vars
  BY <1>18 DEF vars
<1> QED
  BY <1>1, <1>2, <1>3, <1>4, <1>5, <1>6, <1>7, <1>8, <1>9, <1>10, <1>11,
     <1>12, <1>13, <1>14, <1>15, <1>16, <1>17, <1>18 DEF Next, Exchange

(* Every reachable state of the exchange is well typed, for every MaxConns. *)
THEOREM PqTypeCorrect == Spec => []TypeOK
<1>1. Init => TypeOK
  BY PqStarts DEF PqIInv
<1> QED
  BY <1>1, PqTypeStep, PTL DEF Spec
-----------------------------------------------------------------------------
LEMMA VouchedStep == PqIInv /\ [Next]_vars => Vouched'
<1> SUFFICES ASSUME PqIInv, [Next]_vars PROVE Vouched'
  OBVIOUS
<1> USE DEF PqIInv, TypeOK, Vouched, connVars, runtimeVars, diskVars, trackVars,
            history
<1>1. ASSUME NEW a \in Agents, NEW m \in Maps, Sync(a, m) PROVE Vouched'
  BY <1>1 DEF Sync
<1>2. ASSUME NEW a \in Agents, Manage(a) PROVE Vouched'
  BY <1>2 DEF Manage, AdoptPlan
<1>3. ASSUME NEW a \in Agents, Restart(a) PROVE Vouched'
  BY <1>3 DEF Restart
<1>4. ASSUME NEW a \in Agents, StaleRevert(a) PROVE Vouched'
  BY <1>4 DEF StaleRevert
<1>5. CASE Start
  BY <1>5 DEF Start
<1>6. CASE RetryElapsed
  BY <1>6 DEF RetryElapsed
<1>7. ASSUME NEW c \in Conns, Accept(c) PROVE Vouched'
  BY <1>7 DEF Accept
<1>8. ASSUME NEW c \in Conns, RecvInit(c) PROVE Vouched'
  BY <1>8 DEF RecvInit
<1>9. ASSUME NEW c \in Conns, RecvResp(c) PROVE Vouched'
  BY <1>9 DEF RecvResp
<1>10. ASSUME NEW c \in Conns, RecvConfirm(c) PROVE Vouched'
  BY <1>10 DEF RecvConfirm
<1>11. ASSUME NEW c \in Conns, InstallDevice(c) PROVE Vouched'
  BY <1>11 DEF InstallDevice
<1>12. ASSUME NEW c \in Conns, InstallTrack(c) PROVE Vouched'
  BY <1>12 DEF InstallTrack
<1>13. ASSUME NEW c \in Conns, RecvAck(c) PROVE Vouched'
  BY <1>13 DEF RecvAck
<1>14. ASSUME NEW c \in Conns, RecordOutcome(c) PROVE Vouched'
  BY <1>14 DEF RecordOutcome
<1>15. ASSUME NEW c \in Conns, RecvReject(c) PROVE Vouched'
  BY <1>15 DEF RecvReject
<1>16. ASSUME NEW c \in Conns, InitiatorFail(c) PROVE Vouched'
  BY <1>16 DEF InitiatorFail
<1>17. ASSUME NEW c \in Conns, ResponderFail(c) PROVE Vouched'
  BY <1>17 DEF ResponderFail
<1>18. CASE UNCHANGED vars
  BY <1>18 DEF vars
<1> QED
  BY <1>1, <1>2, <1>3, <1>4, <1>5, <1>6, <1>7, <1>8, <1>9, <1>10, <1>11,
     <1>12, <1>13, <1>14, <1>15, <1>16, <1>17, <1>18 DEF Next, Exchange

LEMMA KeysAreOldStep == PqIInv /\ [Next]_vars => KeysAreOld'
<1> SUFFICES ASSUME PqIInv, [Next]_vars PROVE KeysAreOld'
  OBVIOUS
<1> USE DEF PqIInv, TypeOK, KeysAreOld, connVars, runtimeVars, diskVars,
            trackVars, history
<1>1. ASSUME NEW a \in Agents, NEW m \in Maps, Sync(a, m) PROVE KeysAreOld'
  BY <1>1 DEF Sync
<1>2. ASSUME NEW a \in Agents, Manage(a) PROVE KeysAreOld'
  BY <1>2 DEF Manage, AdoptPlan
<1>3. ASSUME NEW a \in Agents, Restart(a) PROVE KeysAreOld'
  BY <1>3 DEF Restart, InitiatorLive, InitiatorWaits
<1>4. ASSUME NEW a \in Agents, StaleRevert(a) PROVE KeysAreOld'
  BY <1>4 DEF StaleRevert
<1>5. CASE Start
  BY <1>5, BoundAssumption DEF Start, Conns
<1>6. CASE RetryElapsed
  BY <1>6 DEF RetryElapsed
<1>7. ASSUME NEW c \in Conns, Accept(c) PROVE KeysAreOld'
  BY <1>7 DEF Accept
<1>8. ASSUME NEW c \in Conns, RecvInit(c) PROVE KeysAreOld'
  BY <1>8 DEF RecvInit
<1>9. ASSUME NEW c \in Conns, RecvResp(c) PROVE KeysAreOld'
  BY <1>9, BoundAssumption DEF RecvResp, Conns
<1>10. ASSUME NEW c \in Conns, RecvConfirm(c) PROVE KeysAreOld'
  BY <1>10 DEF RecvConfirm
<1>11. ASSUME NEW c \in Conns, InstallDevice(c) PROVE KeysAreOld'
  BY <1>11 DEF InstallDevice
<1>12. ASSUME NEW c \in Conns, InstallTrack(c) PROVE KeysAreOld'
  BY <1>12 DEF InstallTrack, Vouched
<1>13. ASSUME NEW c \in Conns, RecvAck(c) PROVE KeysAreOld'
  BY <1>13 DEF RecvAck
<1>14. ASSUME NEW c \in Conns, RecordOutcome(c) PROVE KeysAreOld'
  BY <1>14 DEF RecordOutcome
<1>15. ASSUME NEW c \in Conns, RecvReject(c) PROVE KeysAreOld'
  BY <1>15 DEF RecvReject, InitiatorWaits
<1>16. ASSUME NEW c \in Conns, InitiatorFail(c) PROVE KeysAreOld'
  BY <1>16 DEF InitiatorFail, InitiatorWaits
<1>17. ASSUME NEW c \in Conns, ResponderFail(c) PROVE KeysAreOld'
  BY <1>17 DEF ResponderFail, ResponderWaits
<1>18. CASE UNCHANGED vars
  BY <1>18 DEF vars
<1> QED
  BY <1>1, <1>2, <1>3, <1>4, <1>5, <1>6, <1>7, <1>8, <1>9, <1>10, <1>11,
     <1>12, <1>13, <1>14, <1>15, <1>16, <1>17, <1>18 DEF Next, Exchange

LEMMA KeysAreSharedStep == PqIInv /\ [Next]_vars => KeysAreShared'
<1> SUFFICES ASSUME PqIInv, [Next]_vars PROVE KeysAreShared'
  OBVIOUS
<1> USE DEF PqIInv, TypeOK, KeysAreShared, connVars, runtimeVars, diskVars,
            trackVars, history
<1>1. ASSUME NEW a \in Agents, NEW m \in Maps, Sync(a, m) PROVE KeysAreShared'
  BY <1>1 DEF Sync, Agents
<1>2. ASSUME NEW a \in Agents, Manage(a) PROVE KeysAreShared'
  BY <1>2 DEF Manage, AdoptPlan, Persist, Agents
<1>3. ASSUME NEW a \in Agents, Restart(a) PROVE KeysAreShared'
  BY <1>3 DEF Restart, Agents
<1>4. ASSUME NEW a \in Agents, StaleRevert(a) PROVE KeysAreShared'
  BY <1>4 DEF StaleRevert, Persist, Agents
<1>5. CASE Start
  BY <1>5 DEF Start
<1>6. CASE RetryElapsed
  BY <1>6 DEF RetryElapsed
<1>7. ASSUME NEW c \in Conns, Accept(c) PROVE KeysAreShared'
  BY <1>7 DEF Accept
<1>8. ASSUME NEW c \in Conns, RecvInit(c) PROVE KeysAreShared'
  BY <1>8 DEF RecvInit
<1>9. ASSUME NEW c \in Conns, RecvResp(c) PROVE KeysAreShared'
  BY <1>9 DEF RecvResp
<1>10. ASSUME NEW c \in Conns, RecvConfirm(c) PROVE KeysAreShared'
  BY <1>10 DEF RecvConfirm
<1>11. ASSUME NEW c \in Conns, InstallDevice(c) PROVE KeysAreShared'
  BY <1>11 DEF InstallDevice, Vouched, Agents
<1>12. ASSUME NEW c \in Conns, InstallTrack(c) PROVE KeysAreShared'
  BY <1>12 DEF InstallTrack, Record, Persist, Vouched, Agents
<1>13. ASSUME NEW c \in Conns, RecvAck(c) PROVE KeysAreShared'
  BY <1>13 DEF RecvAck
<1>14. ASSUME NEW c \in Conns, RecordOutcome(c) PROVE KeysAreShared'
  BY <1>14 DEF RecordOutcome, Record, Persist, Vouched, Agents
<1>15. ASSUME NEW c \in Conns, RecvReject(c) PROVE KeysAreShared'
  BY <1>15 DEF RecvReject
<1>16. ASSUME NEW c \in Conns, InitiatorFail(c) PROVE KeysAreShared'
  BY <1>16 DEF InitiatorFail
<1>17. ASSUME NEW c \in Conns, ResponderFail(c) PROVE KeysAreShared'
  BY <1>17 DEF ResponderFail
<1>18. CASE UNCHANGED vars
  BY <1>18 DEF vars
<1> QED
  BY <1>1, <1>2, <1>3, <1>4, <1>5, <1>6, <1>7, <1>8, <1>9, <1>10, <1>11,
     <1>12, <1>13, <1>14, <1>15, <1>16, <1>17, <1>18 DEF Next, Exchange

LEMMA EpochCoversKeyStep == PqIInv /\ [Next]_vars => EpochCoversKey'
<1> SUFFICES ASSUME PqIInv, [Next]_vars PROVE EpochCoversKey'
  OBVIOUS
<1> USE DEF PqIInv, TypeOK, EpochCoversKey, connVars, runtimeVars, diskVars,
            trackVars, history
<1>1. ASSUME NEW a \in Agents, NEW m \in Maps, Sync(a, m) PROVE EpochCoversKey'
  BY <1>1 DEF Sync
<1>2. ASSUME NEW a \in Agents, Manage(a) PROVE EpochCoversKey'
  BY <1>2 DEF Manage, AdoptPlan, Persist
<1>3. ASSUME NEW a \in Agents, Restart(a) PROVE EpochCoversKey'
  BY <1>3 DEF Restart
<1>4. ASSUME NEW a \in Agents, StaleRevert(a) PROVE EpochCoversKey'
  BY <1>4 DEF StaleRevert, Persist
<1>5. CASE Start
  <2>1. \A a \in Agents : {installed[a], diskKey[a]} \subseteq
                             (1..started) \cup {NoKey}
    BY DEF KeysAreShared, KeysAreOld, Agents
  <2>2. started + 1 \notin 1..started /\ started + 1 # NoKey
    BY BoundAssumption DEF NoKey
  <2>3. \A k \in 1..started : epoch'[k] = epoch[k]
    BY <1>5, <2>2, BoundAssumption DEF Start, Conns
  <2> QED
    BY <1>5, <2>1, <2>3 DEF Start
<1>6. CASE RetryElapsed
  BY <1>6 DEF RetryElapsed
<1>7. ASSUME NEW c \in Conns, Accept(c) PROVE EpochCoversKey'
  BY <1>7 DEF Accept
<1>8. ASSUME NEW c \in Conns, RecvInit(c) PROVE EpochCoversKey'
  BY <1>8 DEF RecvInit
<1>9. ASSUME NEW c \in Conns, RecvResp(c) PROVE EpochCoversKey'
  BY <1>9 DEF RecvResp
<1>10. ASSUME NEW c \in Conns, RecvConfirm(c) PROVE EpochCoversKey'
  BY <1>10 DEF RecvConfirm
<1>11. ASSUME NEW c \in Conns, InstallDevice(c) PROVE EpochCoversKey'
  BY <1>11 DEF InstallDevice
<1>12. ASSUME NEW c \in Conns, InstallTrack(c) PROVE EpochCoversKey'
  BY <1>12, NewestIsMax DEF InstallTrack, Record, Persist
<1>13. ASSUME NEW c \in Conns, RecvAck(c) PROVE EpochCoversKey'
  BY <1>13 DEF RecvAck
<1>14. ASSUME NEW c \in Conns, RecordOutcome(c) PROVE EpochCoversKey'
  <2>1. CASE Record("I", c)
    <3>1. epoch' = epoch /\ lastEpoch' \in [Agents -> Nat]
      BY <1>14, PqTypeStep DEF RecordOutcome
    <3>2. lastEpoch'["I"] = Newest(lastEpoch["I"], epoch[c])
      BY <2>1 DEF Record, Agents
    <3>3. epoch[c] <= lastEpoch'["I"]
      BY <3>2, NewestIsMax DEF Agents
    <3> QED
      BY <2>1, <3>1, <3>3 DEF Record, Persist
  <2>2. CASE UNCHANGED trackVars
    BY <1>14, <2>2 DEF RecordOutcome
  <2> QED
    BY <1>14, <2>1, <2>2 DEF RecordOutcome
<1>15. ASSUME NEW c \in Conns, RecvReject(c) PROVE EpochCoversKey'
  <2>1. \A a \in Agents : /\ lastEpoch[a] \in Nat /\ lastEpoch'[a] \in Nat
                          /\ lastEpoch[a] <= lastEpoch'[a]
    <3>1. "I" \in Agents
      BY DEF Agents
    <3>2. /\ Newest(lastEpoch["I"], ctx[c]) \in Nat
          /\ lastEpoch["I"] <= Newest(lastEpoch["I"], ctx[c])
      BY <3>1, NewestIsMax
    <3> QED
      BY <1>15, <3>2 DEF RecvReject
  <2>2. UNCHANGED <<epoch, installed, diskVars>>
    BY <1>15 DEF RecvReject
  <2>3. \A a \in Agents : installed[a] # NoKey => epoch[installed[a]] \in Nat
    BY DEF Keys
  <2> QED
    BY <2>1, <2>2, <2>3
<1>16. ASSUME NEW c \in Conns, InitiatorFail(c) PROVE EpochCoversKey'
  BY <1>16 DEF InitiatorFail
<1>17. ASSUME NEW c \in Conns, ResponderFail(c) PROVE EpochCoversKey'
  BY <1>17 DEF ResponderFail
<1>18. CASE UNCHANGED vars
  BY <1>18 DEF vars
<1> QED
  BY <1>1, <1>2, <1>3, <1>4, <1>5, <1>6, <1>7, <1>8, <1>9, <1>10, <1>11,
     <1>12, <1>13, <1>14, <1>15, <1>16, <1>17, <1>18 DEF Next, Exchange

(* The strengthened invariant holds in every reachable state.              *)
LEMMA PqInductive == Spec => []PqIInv
<1>1. PqIInv /\ [Next]_vars => PqIInv'
  BY PqTypeStep, VouchedStep, KeysAreOldStep, KeysAreSharedStep,
     EpochCoversKeyStep DEF PqIInv
<1> QED
  BY <1>1, PqStarts, PTL DEF Spec

(* No device ever holds a PSK the other agent does not have: the order     *)
(* install-then-Ack of run_responder suffices whatever is lost, times out, *)
(* fails or restarts.                                                      *)
THEOREM KeysAlwaysShared == Spec => []KeysAreShared
<1>1. PqIInv => KeysAreShared
  BY DEF PqIInv
<1> QED
  BY <1>1, PqInductive, PTL

(* No agent, across restarts, forgets the epoch of a key it still holds.   *)
THEOREM EpochAlwaysCoversKey == Spec => []EpochCoversKey
<1>1. PqIInv => EpochCoversKey
  BY DEF PqIInv
<1> QED
  BY <1>1, PqInductive, PTL

(* Keys and epochs of both agents at once.                                 *)
THEOREM PqAlwaysHolds == Spec => []PqInv
<1>1. PqIInv => PqInv
  BY DEF PqIInv, PqInv
<1> QED
  BY <1>1, PqInductive, PTL

-----------------------------------------------------------------------------
(* What carries a resource.                                                *)

(* What a connector's pass has collected it was allowed to lease, and what *)
(* is live was; the client is never ahead of the revision.                 *)
LeaseKeys == DomainSet \X CarrierSet \X Hosts
LeaseType ==
  /\ lease \in [LeaseKeys -> {"none", "live", "lapsed"}]
  /\ covered \subseteq Hosts /\ up \subseteq CarrierSet
  /\ ctlRev \in Nat /\ clientRev \in 0 .. ctlRev
  /\ wanted \in [CarrierSet -> [left : SUBSET (DomainSet \cup {"net"}), got : SUBSET Hosts, on : BOOLEAN]]
  /\ forwards \in [CarrierSet -> SUBSET Hosts]
  /\ enabled \subseteq DomainSet \cup {"net"}
LeasesAllowed ==
  /\ \A x \in LeaseKeys : lease[x] # "none" => x[3] \notin Refused
  /\ \A n \in CarrierSet : wanted[n].got \cap Refused = {} /\ forwards[n] \cap Refused = {}
DistIInv == LeaseType /\ LeasesAllowed /\ PrefixKeepsItsAccess /\ BlockedHoldsNothing

(* What is left of the leases after lapsed ones went, and after those of   *)
(* one connector for one name were replaced.                               *)
LEMMA PurgeFacts ==
  ASSUME LeaseType
  PROVE  /\ Purge(lease) \in [LeaseKeys -> {"none", "live", "lapsed"}]
         /\ \A x \in LeaseKeys : Purge(lease)[x] # "none" => lease[x] = Purge(lease)[x]
<1>1. DOMAIN lease = LeaseKeys
  BY DEF LeaseType
<1> QED
  BY <1>1 DEF Purge, LeaseType

LEMMA ReplacedFacts ==
  ASSUME NEW l \in [LeaseKeys -> {"none", "live", "lapsed"}], NEW d, NEW n, NEW S
  PROVE  /\ Replaced(l, d, n, S) \in [LeaseKeys -> {"none", "live", "lapsed"}]
         /\ \A x \in LeaseKeys : Replaced(l, d, n, S)[x] =
              IF x[1] = d /\ x[2] = n THEN IF x[3] \in S THEN "live" ELSE "none" ELSE l[x]
<1>1. DOMAIN l = LeaseKeys
  OBVIOUS
<1> QED
  BY <1>1 DEF Replaced

LEMMA LeaseKey ==
  ASSUME NEW d \in DomainSet, NEW n \in CarrierSet, NEW h \in Hosts
  PROVE  /\ <<d, n, h>> \in LeaseKeys
         /\ <<d, n, h>>[1] = d /\ <<d, n, h>>[2] = n /\ <<d, n, h>>[3] = h
BY DEF LeaseKeys

(* A step that only takes leases away, whatever else it does.              *)
LEMMA FewerLeases ==
  ASSUME DistIInv, lease' \in [LeaseKeys -> {"none", "live", "lapsed"}],
         \A x \in LeaseKeys : /\ lease'[x] # "none" => lease[x] # "none"
                              /\ lease'[x] = "live" => lease[x] = "live",
         blocked' \subseteq blocked
  PROVE  /\ \A x \in LeaseKeys : lease'[x] # "none" => x[3] \notin Refused
         /\ BlockedHoldsNothing'
<1>1. \A x \in LeaseKeys : lease'[x] # "none" => x[3] \notin Refused
  BY DEF DistIInv, LeasesAllowed
<1>2. \A d \in DomainSet, n \in CarrierSet :
         <<d, n>> \in blocked' => {h \in Hosts : lease'[<<d, n, h>>] = "live"} = {}
  BY LeaseKey DEF DistIInv, BlockedHoldsNothing, Leased
<1> QED
  BY <1>1, <1>2 DEF BlockedHoldsNothing, Leased

(* Coverage grows only together with the revision.                         *)
LEMMA ClientStays ==
  ASSUME DistIInv, UNCHANGED <<carried, clientRev>>, ctlRev' \in Nat,
         \/ ctlRev' = ctlRev /\ covered' = covered
         \/ ctlRev' = ctlRev + 1
  PROVE  PrefixKeepsItsAccess' /\ clientRev' \in 0 .. ctlRev'
<1>1. clientRev \in 0 .. ctlRev /\ ctlRev \in Nat /\ PrefixKeepsItsAccess
  BY DEF DistIInv, LeaseType
<1>2. CASE ctlRev' = ctlRev /\ covered' = covered
  BY <1>1, <1>2 DEF PrefixKeepsItsAccess
<1>3. CASE ctlRev' = ctlRev + 1
  BY <1>1, <1>3 DEF PrefixKeepsItsAccess
<1> QED
  BY <1>2, <1>3

LEMMA DistStays ==
  ASSUME DistIInv, UNCHANGED <<lease, blocked, wanted, forwards>>
  PROVE  BlockedHoldsNothing' /\ LeasesAllowed'
BY DEF DistIInv, BlockedHoldsNothing, LeasesAllowed, Leased, LeaseKeys

(* A report of what a name resolved to, or that it did not.                *)
LEMMA ReportKeeps ==
  ASSUME DistIInv, NEW d \in DomainSet, NEW n \in CarrierSet, NEW S \in SUBSET Hosts,
         ReportResolution(d, n, S) \/ ReportError(d, n)
  PROVE  DistIInv'
<1> DEFINE purged == Purge(lease)
<1>1. /\ LeaseType /\ purged \in [LeaseKeys -> {"none", "live", "lapsed"}]
      /\ \A x \in LeaseKeys : purged[x] # "none" => lease[x] = purged[x]
  BY PurgeFacts DEF DistIInv
<1> HIDE DEF purged
<1>2. UNCHANGED <<up, enabled, covered, carried, clientRev, forwards>>
  BY DEF ReportResolution, ReportError
<1>3. ctlRev' \in {ctlRev, ctlRev + 1} /\ ctlRev \in Nat
  BY <1>1 DEF ReportResolution, ReportError, LeaseType
<1>4. PrefixKeepsItsAccess' /\ clientRev' \in 0 .. ctlRev'
  BY <1>2, <1>3, ClientStays
<1>5. PICK T \in SUBSET Hosts :
        /\ wanted' = [wanted EXCEPT ![n].left = @ \ {d}, ![n].got = @ \cup T]
        /\ T \cap Refused = {}
  <2>1. CASE ReportResolution(d, n, S)
    <3>1. CASE d \in enabled /\ ~Refuses(S)
      BY <2>1, <3>1 DEF ReportResolution, Refuses
    <3>2. CASE ~(d \in enabled /\ ~Refuses(S))
      <4>1. wanted' = [wanted EXCEPT ![n].left = @ \ {d}, ![n].got = @ \cup {}]
        BY <2>1, <3>2 DEF ReportResolution
      <4>2. {} \in SUBSET Hosts /\ {} \cap Refused = {}
        OBVIOUS
      <4> QED
        BY <4>1, <4>2
    <3> QED
      BY <3>1, <3>2
  <2>2. CASE ReportError(d, n)
    <3>1. CASE d \in enabled
      <4>1. Leased(d, n) \in SUBSET Hosts /\ Leased(d, n) \cap Refused = {}
        BY LeaseKey DEF Leased, DistIInv, LeasesAllowed
      <4>2. wanted' = [wanted EXCEPT ![n].left = @ \ {d}, ![n].got = @ \cup Leased(d, n)]
        BY <2>2, <3>1 DEF ReportError
      <4> QED
        BY <4>1, <4>2
    <3>2. CASE d \notin enabled
      <4>1. wanted' = [wanted EXCEPT ![n].left = @ \ {d}, ![n].got = @ \cup {}]
        BY <2>2, <3>2 DEF ReportError
      <4>2. {} \in SUBSET Hosts /\ {} \cap Refused = {}
        OBVIOUS
      <4> QED
        BY <4>1, <4>2
    <3> QED
      BY <3>1, <3>2
  <2> QED
    BY <2>1, <2>2
<1>6. /\ wanted' \in [CarrierSet -> [left : SUBSET (DomainSet \cup {"net"}), got : SUBSET Hosts, on : BOOLEAN]]
      /\ \A m \in CarrierSet : wanted'[m].got \cap Refused = {}
  <2> DEFINE pass == [wanted[n] EXCEPT !.left = @ \ {d}, !.got = @ \cup T]
  <2>1. wanted \in [CarrierSet -> [left : SUBSET (DomainSet \cup {"net"}), got : SUBSET Hosts, on : BOOLEAN]]
    BY <1>1 DEF LeaseType
  <2>2. wanted' = [wanted EXCEPT ![n] = pass]
    BY <1>5, <2>1
  <2>3. pass \in [left : SUBSET (DomainSet \cup {"net"}), got : SUBSET Hosts, on : BOOLEAN]
        /\ pass.got = wanted[n].got \cup T
    BY <2>1
  <2> HIDE DEF pass
  <2>4. \A m \in CarrierSet : wanted'[m].got \cap Refused = {}
    BY <1>5, <2>1, <2>2, <2>3 DEF DistIInv, LeasesAllowed
  <2> QED
    BY <2>1, <2>2, <2>3, <2>4
<1>7. /\ lease' \in [LeaseKeys -> {"none", "live", "lapsed"}]
      /\ \A x \in LeaseKeys : lease'[x] # "none" => x[3] \notin Refused
      /\ BlockedHoldsNothing'
  <2>1. CASE ReportResolution(d, n, S) /\ d \in enabled /\ ~Refuses(S)
    <3>1. lease' = Replaced(purged, d, n, S) /\ blocked' = blocked \ {<<d, n>>} /\ S \cap Refused = {}
      BY <2>1 DEF ReportResolution, purged, Refuses
    <3>2. /\ lease' \in [LeaseKeys -> {"none", "live", "lapsed"}]
          /\ \A x \in LeaseKeys : lease'[x] =
               IF x[1] = d /\ x[2] = n THEN IF x[3] \in S THEN "live" ELSE "none" ELSE purged[x]
      BY <1>1, <3>1, ReplacedFacts
    <3>3. \A x \in LeaseKeys : lease'[x] # "none" => x[3] \notin Refused
      BY <1>1, <3>1, <3>2 DEF DistIInv, LeasesAllowed
    <3>4. ASSUME NEW e \in DomainSet, NEW m \in CarrierSet, <<e, m>> \in blocked', NEW h \in Hosts
          PROVE  lease'[<<e, m, h>>] # "live"
      <4>1. <<e, m>> # <<d, n>> /\ <<e, m>> \in blocked
        BY <3>1, <3>4
      <4>2. ~(e = d /\ m = n)
        BY <4>1
      <4>3. lease'[<<e, m, h>>] = purged[<<e, m, h>>]
        BY <3>2, <4>2, LeaseKey
      <4>4. lease[<<e, m, h>>] # "live"
        BY <4>1 DEF DistIInv, BlockedHoldsNothing, Leased
      <4> QED
        BY <1>1, <4>3, <4>4, LeaseKey
    <3>5. BlockedHoldsNothing'
      BY <3>4 DEF BlockedHoldsNothing, Leased
    <3> QED
      BY <3>2, <3>3, <3>5
  <2>2. CASE ReportError(d, n) /\ d \in enabled
    <3>1. lease' = purged /\ blocked' \subseteq blocked
      BY <2>2 DEF ReportError, purged
    <3> QED
      BY <1>1, <3>1, FewerLeases
  <2>3. CASE d \notin enabled \/ (ReportResolution(d, n, S) /\ Refuses(S))
    <3>1. lease' = Replaced(purged, d, n, {}) /\ blocked' \subseteq blocked \cup {<<d, n>>}
      BY <2>3 DEF ReportResolution, ReportError, BlockedLeases, purged
    <3>2. /\ lease' \in [LeaseKeys -> {"none", "live", "lapsed"}]
          /\ \A x \in LeaseKeys : lease'[x] = IF x[1] = d /\ x[2] = n THEN "none" ELSE purged[x]
      BY <1>1, <3>1, ReplacedFacts
    <3>3. \A x \in LeaseKeys : lease'[x] # "none" => x[3] \notin Refused
      BY <1>1, <3>2 DEF DistIInv, LeasesAllowed
    <3>4. ASSUME NEW e \in DomainSet, NEW m \in CarrierSet, <<e, m>> \in blocked', NEW h \in Hosts
          PROVE  lease'[<<e, m, h>>] # "live"
      <4>1. CASE e = d /\ m = n
        BY <3>2, <4>1, LeaseKey
      <4>2. CASE ~(e = d /\ m = n)
        <5>1. <<e, m>> \in blocked
          BY <3>1, <3>4, <4>2
        <5>2. lease[<<e, m, h>>] # "live"
          BY <5>1 DEF DistIInv, BlockedHoldsNothing, Leased
        <5>3. lease'[<<e, m, h>>] = purged[<<e, m, h>>]
          BY <3>2, <4>2, LeaseKey
        <5> QED
          BY <1>1, <5>2, <5>3, LeaseKey
      <4> QED
        BY <4>1, <4>2
    <3>5. BlockedHoldsNothing'
      BY <3>4 DEF BlockedHoldsNothing, Leased
    <3> QED
      BY <3>2, <3>3, <3>5
  <2> QED
    BY <2>1, <2>2, <2>3
<1>8. LeaseType'
  BY <1>1, <1>2, <1>3, <1>4, <1>6, <1>7 DEF LeaseType
<1>9. LeasesAllowed'
  BY <1>2, <1>6, <1>7 DEF LeasesAllowed, LeaseKeys, DistIInv
<1> QED
  BY <1>4, <1>7, <1>8, <1>9 DEF DistIInv

(* For any number of routers, names, hosts, replicas and clients: a        *)
(* connector leases and forwards no refused host, holds nothing after a    *)
(* refused report, and no client that is up to date reaches a host of a    *)
(* network resource through one (report_resolution(), load_distribution()). *)
THEOREM DistributionAlwaysHolds == DistributionSpec => []DistributionInv
<1>1. DistributionInit => DistIInv
  <2> SUFFICES ASSUME DistributionInit PROVE DistIInv
    OBVIOUS
  <2>1. LeaseType
    BY DEF DistributionInit, LeaseType, LeaseKeys, NoPass
  <2>2. LeasesAllowed
    BY DEF DistributionInit, LeasesAllowed, LeaseKeys, NoPass
  <2>3. PrefixKeepsItsAccess /\ BlockedHoldsNothing
    BY DEF DistributionInit, PrefixKeepsItsAccess, BlockedHoldsNothing
  <2> QED
    BY <2>1, <2>2, <2>3 DEF DistIInv
<1>2. DistIInv /\ [DistributionNext]_distVars => DistIInv'
  <2> SUFFICES ASSUME DistIInv, [DistributionNext]_distVars
               PROVE  DistIInv'
    OBVIOUS
  <2>0. LeaseType
    BY DEF DistIInv
  <2>1. CASE UNCHANGED distVars
    <3>1. UNCHANGED <<up, enabled, covered, lease, blocked, ctlRev, carried, clientRev, wanted, forwards>>
      BY <2>1 DEF distVars
    <3>2. LeaseType' /\ PrefixKeepsItsAccess'
      BY <3>1 DEF DistIInv, LeaseType, PrefixKeepsItsAccess, LeaseKeys
    <3> QED
      BY <3>1, <3>2, DistStays DEF DistIInv
  <2>2. ASSUME NEW w \in Watchers, LivenessCheck(w) \/ WatcherRestarts(w) PROVE DistIInv'
    <3>1. /\ UNCHANGED <<up, enabled, covered, lease, blocked, carried, clientRev, wanted, forwards>>
          /\ ctlRev' \in {ctlRev, ctlRev + 1}
      BY <2>2 DEF LivenessCheck, WatcherRestarts
    <3>2. PrefixKeepsItsAccess' /\ clientRev' \in 0 .. ctlRev' /\ ctlRev' \in Nat
      BY <2>0, <3>1, ClientStays DEF LeaseType
    <3>3. LeaseType'
      BY <2>0, <3>1, <3>2 DEF LeaseType, LeaseKeys
    <3> QED
      BY <3>1, <3>2, <3>3, DistStays DEF DistIInv
  <2>3. CASE ClientPoll
    <3>1. /\ UNCHANGED <<up, enabled, covered, lease, blocked, ctlRev, wanted, forwards>>
          /\ carried' = Snapshot /\ clientRev' = ctlRev
      BY <2>3 DEF ClientPoll
    <3>2. LeaseType'
      BY <2>0, <3>1 DEF LeaseType, LeaseKeys
    <3>3. \A r \in Snapshot : r[1] \notin covered
      BY <2>0, DistributionAssumption DEF Snapshot, HostRoutes, LeaseType
    <3> QED
      BY <3>1, <3>2, <3>3, DistStays DEF DistIInv, PrefixKeepsItsAccess
  <2>4. CASE ExpireLeases
    <3>1. /\ lease' = Purge(lease) /\ ctlRev' = ctlRev + 1
          /\ UNCHANGED <<up, enabled, covered, blocked, carried, clientRev, wanted, forwards>>
      BY <2>4 DEF ExpireLeases, Quiet
    <3>2. /\ lease' \in [LeaseKeys -> {"none", "live", "lapsed"}]
          /\ \A x \in LeaseKeys : lease'[x] # "none" => lease[x] = lease'[x]
      BY <2>0, <3>1, PurgeFacts
    <3>3. PrefixKeepsItsAccess' /\ clientRev' \in 0 .. ctlRev' /\ ctlRev' \in Nat
      BY <2>0, <3>1, ClientStays DEF LeaseType
    <3>4. BlockedHoldsNothing' /\ \A x \in LeaseKeys : lease'[x] # "none" => x[3] \notin Refused
      BY <3>1, <3>2, FewerLeases
    <3>5. LeaseType'
      BY <2>0, <3>1, <3>2, <3>3 DEF LeaseType, LeaseKeys
    <3>6. LeasesAllowed'
      BY <3>1, <3>4 DEF LeasesAllowed, LeaseKeys, DistIInv
    <3> QED
      BY <3>3, <3>4, <3>5, <3>6 DEF DistIInv
  <2>5. ASSUME NEW r \in DomainSet \cup {"net"}, ResourceTurns(r) PROVE DistIInv'
    <3>1. /\ UNCHANGED <<up, covered, lease, blocked, carried, clientRev, wanted, forwards>>
          /\ ctlRev' = ctlRev + 1 /\ enabled' \subseteq DomainSet \cup {"net"}
      BY <2>0, <2>5 DEF ResourceTurns, Quiet, LeaseType
    <3>2. PrefixKeepsItsAccess' /\ clientRev' \in 0 .. ctlRev' /\ ctlRev' \in Nat
      BY <2>0, <3>1, ClientStays DEF LeaseType
    <3>3. LeaseType'
      BY <2>0, <3>1, <3>2 DEF LeaseType, LeaseKeys
    <3> QED
      BY <3>1, <3>2, <3>3, DistStays DEF DistIInv
  <2>6. ASSUME NEW h \in Hosts, PrefixCovers(h) PROVE DistIInv'
    <3>1. /\ UNCHANGED <<up, enabled, lease, blocked, carried, clientRev, wanted, forwards>>
          /\ ctlRev' = ctlRev + 1 /\ covered' = covered \cup {h}
      BY <2>6 DEF PrefixCovers, Quiet
    <3>2. PrefixKeepsItsAccess' /\ clientRev' \in 0 .. ctlRev' /\ ctlRev' \in Nat
      BY <2>0, <3>1, ClientStays DEF LeaseType
    <3>3. LeaseType'
      BY <2>0, <3>1, <3>2 DEF LeaseType, LeaseKeys
    <3> QED
      BY <3>1, <3>2, <3>3, DistStays DEF DistIInv
  <2>7. ASSUME NEW n \in CarrierSet, RouterTurns(n) \/ PassStarts(n) \/ Reconcile(n)
        PROVE  DistIInv'
    <3>1. /\ UNCHANGED <<enabled, covered, lease, blocked, ctlRev, carried, clientRev>>
          /\ up' \subseteq CarrierSet
      BY <2>0, <2>7 DEF RouterTurns, PassStarts, Reconcile, Quiet, LeaseType
    <3>2. PrefixKeepsItsAccess' /\ clientRev' \in 0 .. ctlRev' /\ ctlRev' \in Nat
      BY <2>0, <3>1, ClientStays DEF LeaseType
    <3>3. /\ wanted' \in [CarrierSet -> [left : SUBSET (DomainSet \cup {"net"}), got : SUBSET Hosts, on : BOOLEAN]]
          /\ forwards' \in [CarrierSet -> SUBSET Hosts]
      <4>1. /\ NoPass \in [left : SUBSET (DomainSet \cup {"net"}), got : SUBSET Hosts, on : BOOLEAN]
            /\ [left |-> enabled \ {"net"}, got |-> {}, on |-> TRUE]
                 \in [left : SUBSET (DomainSet \cup {"net"}), got : SUBSET Hosts, on : BOOLEAN]
            /\ wanted[n].got \in SUBSET Hosts
        BY <2>0 DEF NoPass, LeaseType
      <4>2. CASE RouterTurns(n)
        BY <2>0, <4>2 DEF RouterTurns, Quiet, LeaseType
      <4>3. CASE PassStarts(n)
        BY <2>0, <4>1, <4>3 DEF PassStarts, LeaseType
      <4>4. CASE Reconcile(n)
        BY <2>0, <4>1, <4>4 DEF Reconcile, LeaseType
      <4> QED
        BY <2>7, <4>2, <4>3, <4>4
    <3>4. \A m \in CarrierSet : wanted'[m].got \cap Refused = {} /\ forwards'[m] \cap Refused = {}
      BY <2>0, <2>7 DEF RouterTurns, PassStarts, Reconcile, Quiet, LeaseType, NoPass, DistIInv,
         LeasesAllowed
    <3>5. LeaseType'
      BY <2>0, <3>1, <3>2, <3>3 DEF LeaseType, LeaseKeys
    <3>6. LeasesAllowed'
      BY <3>1, <3>4 DEF LeasesAllowed, LeaseKeys, DistIInv
    <3>7. BlockedHoldsNothing'
      BY <3>1 DEF BlockedHoldsNothing, Leased, DistIInv
    <3> QED
      BY <3>2, <3>5, <3>6, <3>7 DEF DistIInv
  <2>8. ASSUME NEW n \in CarrierSet, NEW d \in DomainSet,
               ReportError(d, n) \/ \E S \in SUBSET Hosts : ReportResolution(d, n, S)
        PROVE  DistIInv'
    <3>1. {} \in SUBSET Hosts
      OBVIOUS
    <3> QED
      BY <2>8, <3>1, ReportKeeps
  <2>9. ASSUME NEW n \in CarrierSet, NEW d \in DomainSet, NEW h \in Hosts, LeaseLapses(d, n, h)
        PROVE  DistIInv'
    <3>1. /\ lease[<<d, n, h>>] = "live" /\ lease' = [lease EXCEPT ![<<d, n, h>>] = "lapsed"]
          /\ UNCHANGED <<up, enabled, covered, blocked, ctlRev, carried, clientRev, wanted, forwards>>
      BY <2>9 DEF LeaseLapses, Quiet
    <3>2. /\ lease' \in [LeaseKeys -> {"none", "live", "lapsed"}]
          /\ \A x \in LeaseKeys : /\ lease'[x] # "none" => lease[x] # "none"
                                  /\ lease'[x] = "live" => lease[x] = "live"
      BY <2>0, <3>1, LeaseKey DEF LeaseType
    <3>3. PrefixKeepsItsAccess' /\ clientRev' \in 0 .. ctlRev' /\ ctlRev' \in Nat
      BY <2>0, <3>1, ClientStays DEF LeaseType
    <3>4. BlockedHoldsNothing' /\ \A x \in LeaseKeys : lease'[x] # "none" => x[3] \notin Refused
      BY <3>1, <3>2, FewerLeases
    <3>5. LeaseType'
      BY <2>0, <3>1, <3>2, <3>3 DEF LeaseType, LeaseKeys
    <3>6. LeasesAllowed'
      BY <3>1, <3>4 DEF LeasesAllowed, LeaseKeys, DistIInv
    <3> QED
      BY <3>3, <3>4, <3>5, <3>6 DEF DistIInv
  <2> QED
    BY <2>1, <2>2, <2>3, <2>4, <2>5, <2>6, <2>7, <2>8, <2>9 DEF DistributionNext
<1>3. DistIInv => DistributionInv
  <2> SUFFICES ASSUME DistIInv PROVE DistributionInv
    OBVIOUS
  <2>1. DOMAIN lease = LeaseKeys
    BY DEF DistIInv, LeaseType
  <2>2. DistributionTypeOK
    BY <2>1 DEF DistIInv, LeaseType, LeasesAllowed, DistributionTypeOK
  <2> QED
    BY <2>2 DEF DistIInv, DistributionInv
<1> QED
  BY <1>1, <1>2, <1>3, PTL DEF DistributionSpec

-----------------------------------------------------------------------------
(* Public ingress.                                                         *)

PubOrgs == [enabled : BOOLEAN, policy : BOOLEAN, accepted : BOOLEAN, rev : Nat \ {0}]
RouteRows == [rev : Nat, enabled : BOOLEAN, emergency : BOOLEAN]
Tables == [PubRoutes -> Nat]
PatchReads == [step : {"read"}, route : PubRoutes, row : RouteRows, enabled : BOOLEAN, pulled : BOOLEAN]
HeldFetches == [step : {"forward", "stream", "tunnel"}, route : PubRoutes, revoked : BOOLEAN]
PollCalls == [step : {"sent", "waiting"}, waited : Nat]
PollViews == [step : {"view"}, waited : Nat, rev : Nat]
PollRows == [step : {"rows"}, waited : Nat, rev : Nat, view : [enabled : BOOLEAN, policy : BOOLEAN]]
PollAnswers == [step : {"answered"}, waited : Nat, kind : {"refused", "unchanged"}]
PollChanges == [step : {"answered"}, waited : Nat, kind : {"changed"}, rev : Nat, served : Tables]
IngressType ==
  /\ pubOrg \in PubOrgs /\ pubRows \in [PubRoutes -> RouteRows]
  /\ patch = NoPatch \/ patch \in PatchReads
  /\ cfgPoll = NoPoll \/ cfgPoll \in PollCalls \/ cfgPoll \in PollViews \/ cfgPoll \in PollRows
     \/ cfgPoll \in PollAnswers \/ cfgPoll \in PollChanges
  /\ since \in Nat /\ liveTable \in Tables /\ fresh \in 0 .. STALE_AFTER_SECS
  /\ withdrawn \in [PubRoutes -> Nat]
  /\ fetches \in [Fetches -> HeldFetches \cup {NoFetch}]

(* Every change of what is published moves the revision, which is never    *)
(* behind a row's, a poll's or the table's.                                *)
RevsBelow ==
  /\ \A r \in PubRoutes : pubRows[r].rev <= pubOrg.rev /\ (pubRows[r].rev = 0 <=> pubRows[r] = NoRoute)
  /\ since <= pubOrg.rev
  /\ cfgPoll.step \in {"view", "rows"} => cfgPoll.rev <= pubOrg.rev
  /\ cfgPoll.step = "answered" /\ cfgPoll.kind = "changed" => cfgPoll.rev <= pubOrg.rev

(* The row an update read is gone, or has moved on since the kill switch.  *)
PatchIsOld ==
  patch.step = "read" =>
    /\ patch.row.rev # 0 /\ patch.row.rev <= pubOrg.rev
    /\ pubRows[patch.route].rev # 0 => patch.row.rev <= pubRows[patch.route].rev
    /\ patch.pulled => pubRows[patch.route].rev # patch.row.rev

(* What was read at a revision that still stands still stands.             *)
TableIsCurrent ==
  /\ since = pubOrg.rev =>
       \A r \in PubRoutes : liveTable[r] # 0 => Deliverable(pubOrg, pubRows[r])
  /\ cfgPoll.step = "rows" /\ cfgPoll.rev = pubOrg.rev => (Exposing(cfgPoll.view) => Exposing(pubOrg))
  /\ cfgPoll.step = "answered" /\ cfgPoll.kind = "changed" /\ cfgPoll.rev = pubOrg.rev =>
       \A r \in PubRoutes : cfgPoll.served[r] # 0 => Deliverable(pubOrg, pubRows[r])

(* How long ago a route that is served, or is about to be, was withdrawn.  *)
AgesBounded ==
  /\ cfgPoll.step # "idle" => cfgPoll.waited <= MAX_CONFIG_WAIT_SECS + ANSWER_SLACK_SECS
  /\ \A r \in PubRoutes :
       /\ Deliverable(pubOrg, pubRows[r]) => withdrawn[r] = 0
       /\ cfgPoll.step = "rows" /\ Exposing(cfgPoll.view) /\ Live(pubRows[r]) =>
            withdrawn[r] <= cfgPoll.waited
       /\ cfgPoll.step = "answered" /\ cfgPoll.kind = "changed" /\ cfgPoll.served[r] # 0 =>
            withdrawn[r] <= cfgPoll.waited
       /\ cfgPoll.step = "answered" /\ cfgPoll.kind = "unchanged" /\ liveTable[r] # 0 =>
            withdrawn[r] <= cfgPoll.waited
       /\ fresh > 0 /\ liveTable[r] # 0 => withdrawn[r] + fresh <= ServeBound

HoldersBounded ==
  \A r \in PubRoutes : IsFiniteSet(Holders(r)) /\ Cardinality(Holders(r)) <= MAX_CONNECTIONS
IngressIInv ==
  IngressType /\ RevsBelow /\ PatchIsOld /\ TableIsCurrent /\ AgesBounded /\ HoldersBounded

(* What a poll in flight is, by its step.                                  *)
LEMMA PollShape ==
  ASSUME IngressType
  PROVE  /\ cfgPoll.step = "idle" <=> cfgPoll = NoPoll
         /\ cfgPoll.step \in {"sent", "waiting"} => cfgPoll \in PollCalls
         /\ cfgPoll.step = "view" => cfgPoll \in PollViews
         /\ cfgPoll.step = "rows" => cfgPoll \in PollRows
         /\ cfgPoll.step = "answered" /\ cfgPoll.kind = "changed" => cfgPoll \in PollChanges
         /\ cfgPoll.step = "answered" /\ cfgPoll.kind # "changed" => cfgPoll \in PollAnswers
         /\ cfgPoll.step # "idle" => cfgPoll.waited \in Nat
<1>1. CASE cfgPoll = NoPoll
  BY <1>1 DEF NoPoll
<1>2. CASE cfgPoll \in PollCalls
  BY <1>2 DEF PollCalls, NoPoll
<1>3. CASE cfgPoll \in PollViews
  BY <1>3 DEF PollViews, NoPoll
<1>4. CASE cfgPoll \in PollRows
  BY <1>4 DEF PollRows, NoPoll
<1>5. CASE cfgPoll \in PollAnswers
  BY <1>5 DEF PollAnswers, NoPoll
<1>6. CASE cfgPoll \in PollChanges
  BY <1>6 DEF PollChanges, NoPoll
<1> QED
  BY <1>1, <1>2, <1>3, <1>4, <1>5, <1>6 DEF IngressType

(* What every step of the coordinator's routes does.                       *)
RowsMove ==
  /\ pubOrg' \in PubOrgs /\ pubRows' \in [PubRoutes -> RouteRows]
  /\ UNCHANGED <<pubOrg, pubRows>> \/ pubOrg'.rev = pubOrg.rev + 1
  /\ \A r \in PubRoutes : /\ pubRows'[r].rev <= pubOrg'.rev
                          /\ pubRows'[r].rev = 0 <=> pubRows'[r] = NoRoute
CoordMoves ==
  /\ UNCHANGED <<cfgPoll, since, liveTable, fresh, fetches>>
  /\ RowsMove /\ withdrawn' \in [PubRoutes -> Nat]
  /\ \A r \in PubRoutes :
       \/ withdrawn'[r] = 0
       \/ /\ withdrawn'[r] = withdrawn[r] /\ ~Deliverable(pubOrg', pubRows'[r])
          /\ Live(pubRows'[r]) => Live(pubRows[r])
Unrevived ==
  \A r \in PubRoutes :
    (patch.step = "read" /\ patch.route = r /\ patch.pulled /\ pubRows[r] # NoRoute) =>
      ~(Live(pubRows'[r]) /\ ~Live(pubRows[r]))

LEMMA NotedMoves ==
  ASSUME IngressType, Noted, RowsMove, UNCHANGED <<cfgPoll, nodeSide>>
  PROVE  CoordMoves
<1>1. \A r \in PubRoutes : withdrawn[r] \in Nat
  BY DEF IngressType
<1>2. withdrawn' \in [PubRoutes -> Nat]
  BY <1>1 DEF Noted
<1>3. \A r \in PubRoutes :
        \/ withdrawn'[r] = 0
        \/ /\ withdrawn'[r] = withdrawn[r] /\ ~Deliverable(pubOrg', pubRows'[r])
           /\ Live(pubRows'[r]) => Live(pubRows[r])
  <2> TAKE r \in PubRoutes
  <2> HIDE DEF Deliverable, Live, Exposing
  <2>1. withdrawn'[r] = IF \/ Deliverable(pubOrg', pubRows'[r])
                           \/ Exposing(pubOrg') /\ ~Exposing(pubOrg)
                           \/ Live(pubRows'[r]) /\ ~Live(pubRows[r])
                        THEN 0 ELSE withdrawn[r]
    BY DEF Noted
  <2> QED
    BY <2>1
<1> QED
  BY <1>2, <1>3 DEF CoordMoves, nodeSide

(* One row is replaced by another, with the revision moved on.             *)
LEMMA RowReplaced ==
  ASSUME IngressIInv, NEW r \in PubRoutes, NEW new \in RouteRows,
         pubRows' = [pubRows EXCEPT ![r] = new], pubOrg' = Bumped(pubOrg),
         new.rev <= pubOrg.rev + 1, new.rev = 0 <=> new = NoRoute
  PROVE  /\ RowsMove /\ pubRows'[r] = new /\ pubOrg'.rev = pubOrg.rev + 1
         /\ \A s \in PubRoutes \ {r} : pubRows'[s] = pubRows[s]
<1>1. pubOrg \in PubOrgs /\ pubRows \in [PubRoutes -> RouteRows] /\ RevsBelow
  BY DEF IngressIInv, IngressType
<1>2. pubOrg' \in PubOrgs /\ pubOrg'.rev = pubOrg.rev + 1
  BY <1>1 DEF Bumped, PubOrgs
<1>3. /\ pubRows' \in [PubRoutes -> RouteRows] /\ pubRows'[r] = new
      /\ \A s \in PubRoutes \ {r} : pubRows'[s] = pubRows[s]
  BY <1>1
<1>4. \A s \in PubRoutes : /\ pubRows'[s].rev <= pubOrg'.rev
                           /\ pubRows'[s].rev = 0 <=> pubRows'[s] = NoRoute
  <2> TAKE s \in PubRoutes
  <2>1. pubRows[s].rev \in Nat /\ pubOrg.rev \in Nat /\ pubRows[s].rev <= pubOrg.rev
        /\ (pubRows[s].rev = 0 <=> pubRows[s] = NoRoute)
    BY <1>1 DEF RevsBelow, RouteRows, PubOrgs
  <2>2. CASE s = r
    BY <1>2, <1>3, <2>2
  <2>3. CASE s # r
    BY <1>2, <1>3, <2>1, <2>3
  <2> QED
    BY <2>2, <2>3
<1> QED
  BY <1>2, <1>3, <1>4 DEF RowsMove

LEMMA PatchShape ==
  ASSUME IngressType
  PROVE  patch.step = "read" <=> patch \in PatchReads
BY DEF IngressType, PatchReads, NoPatch

(* An edit of the organisation leaves the rows alone.                      *)
LEMMA OrgEdited ==
  ASSUME IngressIInv, PutSettings \/ PolicyChange \/ DesignateNode
  PROVE  CoordMoves /\ UNCHANGED <<patch, pubRows>> /\ pubOrg'.rev = pubOrg.rev + 1
<1>1. pubOrg \in PubOrgs /\ pubRows \in [PubRoutes -> RouteRows] /\ RevsBelow /\ IngressType
  BY DEF IngressIInv, IngressType
<1>2. /\ UNCHANGED <<pubRows, patch>> /\ Noted /\ UNCHANGED <<cfgPoll, nodeSide>>
  BY DEF PutSettings, PolicyChange, DesignateNode, PubEdit
<1>3. pubOrg' \in PubOrgs /\ pubOrg'.rev = pubOrg.rev + 1
  <2>1. PICK org \in PubOrgs : org.rev = pubOrg.rev /\ pubOrg' = Bumped(org)
    <3>1. CASE PutSettings
      BY <1>1, <3>1 DEF PutSettings, PubOrgs
    <3>2. CASE PolicyChange
      BY <1>1, <3>2 DEF PolicyChange, PubOrgs
    <3>3. CASE DesignateNode
      BY <1>1, <3>3 DEF DesignateNode, PubOrgs
    <3> QED
      BY <3>1, <3>2, <3>3
  <2> QED
    BY <2>1 DEF Bumped, PubOrgs
<1>4. RowsMove
  <2>1. \A r \in PubRoutes : pubRows[r].rev \in Nat /\ pubRows[r].rev <= pubOrg.rev /\ pubOrg.rev \in Nat
                             /\ (pubRows[r].rev = 0 <=> pubRows[r] = NoRoute)
    BY <1>1 DEF RevsBelow, RouteRows, PubOrgs
  <2>2. \A r \in PubRoutes : pubRows'[r].rev <= pubOrg'.rev
                             /\ (pubRows'[r].rev = 0 <=> pubRows'[r] = NoRoute)
    BY <1>2, <1>3, <2>1
  <2> QED
    BY <1>1, <1>2, <1>3, <2>2 DEF RowsMove
<1> QED
  BY <1>1, <1>2, <1>3, <1>4, NotedMoves

(* The coordinator's steps: what they do to the rows, and that none brings *)
(* a route back that was killed since the update that is under way read it. *)
LEMMA CoordFacts ==
  ASSUME IngressIInv, PutSettings \/ PolicyChange \/ DesignateNode \/ PatchWrite
                      \/ \E r \in PubRoutes :
                           \/ CreateRoute(r) \/ EmergencyDisable(r) \/ DeleteRoute(r)
                           \/ \E on \in BOOLEAN : PatchRead(r, on)
  PROVE  CoordMoves /\ Unrevived /\ PatchIsOld' /\ (patch' = NoPatch \/ patch' \in PatchReads)
<1>1. /\ IngressType /\ pubOrg \in PubOrgs /\ pubRows \in [PubRoutes -> RouteRows] /\ RevsBelow
      /\ (patch = NoPatch \/ patch \in PatchReads) /\ PatchIsOld
  BY DEF IngressIInv, IngressType
<1>2. \A r \in PubRoutes : /\ pubRows[r] \in RouteRows /\ pubRows[r].rev \in Nat /\ pubOrg.rev \in Nat
                           /\ pubRows[r].rev <= pubOrg.rev
                           /\ pubRows[r].rev = 0 <=> pubRows[r] = NoRoute
  BY <1>1 DEF RevsBelow, RouteRows, PubOrgs
<1>3. patch.step = "read" =>
        /\ patch \in PatchReads /\ patch.route \in PubRoutes /\ patch.row.rev \in Nat
        /\ patch.row.rev # 0 /\ patch.row.rev <= pubOrg.rev
        /\ pubRows[patch.route].rev # 0 => patch.row.rev <= pubRows[patch.route].rev
        /\ patch.pulled => pubRows[patch.route].rev # patch.row.rev
  BY <1>1, PatchShape DEF PatchIsOld, PatchReads, RouteRows
<1>4. CASE PutSettings \/ PolicyChange \/ DesignateNode
  <2>1. CoordMoves /\ UNCHANGED <<patch, pubRows>> /\ pubOrg'.rev = pubOrg.rev + 1
    BY <1>4, OrgEdited
  <2>2. PatchIsOld'
    BY <1>2, <1>3, <2>1 DEF PatchIsOld
  <2> QED
    BY <1>1, <2>1, <2>2 DEF Unrevived
<1>5. ASSUME NEW r \in PubRoutes, NEW on \in BOOLEAN, PatchRead(r, on)
      PROVE  CoordMoves /\ Unrevived /\ PatchIsOld' /\ (patch' = NoPatch \/ patch' \in PatchReads)
  <2>1. /\ pubRows[r].rev # 0 /\ UNCHANGED <<pubOrg, pubRows, withdrawn, cfgPoll, nodeSide>>
        /\ patch' = [step |-> "read", route |-> r, row |-> pubRows[r], enabled |-> on, pulled |-> FALSE]
    BY <1>5 DEF PatchRead, PubEdit
  <2>2. /\ patch' \in PatchReads /\ patch'.route = r /\ patch'.row = pubRows[r] /\ ~patch'.pulled
    BY <1>2, <2>1 DEF PatchReads
  <2>3. PatchIsOld'
    BY <1>2, <2>1, <2>2 DEF PatchIsOld
  <2>4. RowsMove
    BY <1>1, <1>2, <2>1 DEF RowsMove
  <2>5. \A s \in PubRoutes : withdrawn'[s] = 0
          \/ /\ withdrawn'[s] = withdrawn[s] /\ ~Deliverable(pubOrg', pubRows'[s])
             /\ Live(pubRows'[s]) => Live(pubRows[s])
    <3> HIDE DEF Deliverable, Live
    <3>1. \A s \in PubRoutes : Deliverable(pubOrg, pubRows[s]) => withdrawn[s] = 0
      BY DEF IngressIInv, AgesBounded
    <3> QED
      BY <2>1, <3>1
  <2>6. CoordMoves
    BY <1>1, <2>1, <2>4, <2>5 DEF CoordMoves, nodeSide, IngressType
  <2> QED
    BY <2>1, <2>2, <2>3, <2>6 DEF Unrevived
<1>6. ASSUME NEW r \in PubRoutes, CreateRoute(r)
      PROVE  CoordMoves /\ Unrevived /\ PatchIsOld' /\ (patch' = NoPatch \/ patch' \in PatchReads)
  <2> DEFINE new == [rev |-> pubOrg.rev + 1, enabled |-> TRUE, emergency |-> FALSE]
  <2>1. /\ pubRows' = [pubRows EXCEPT ![r] = new] /\ pubOrg' = Bumped(pubOrg) /\ pubRows[r] = NoRoute
        /\ UNCHANGED patch /\ Noted /\ UNCHANGED <<cfgPoll, nodeSide>>
    BY <1>6 DEF CreateRoute, PubEdit
  <2>2. new \in RouteRows /\ new.rev = pubOrg.rev + 1
    BY <1>2 DEF RouteRows
  <2>3. new.rev # 0 /\ new # NoRoute /\ new.rev <= pubOrg.rev + 1
    BY <1>2, <2>2 DEF NoRoute
  <2> HIDE DEF new
  <2>4. /\ RowsMove /\ pubRows'[r] = new /\ pubOrg'.rev = pubOrg.rev + 1
        /\ \A s \in PubRoutes \ {r} : pubRows'[s] = pubRows[s]
    BY <1>2, <2>1, <2>2, <2>3, RowReplaced
  <2>5. CoordMoves
    BY <1>1, <2>1, <2>4, NotedMoves
  <2>6. Unrevived
    BY <2>1, <2>4 DEF Unrevived
  <2>7. PatchIsOld'
    BY <1>2, <1>3, <2>1, <2>2, <2>4 DEF PatchIsOld
  <2> QED
    BY <1>1, <2>1, <2>5, <2>6, <2>7
<1>7. ASSUME NEW r \in PubRoutes, DeleteRoute(r)
      PROVE  CoordMoves /\ Unrevived /\ PatchIsOld' /\ (patch' = NoPatch \/ patch' \in PatchReads)
  <2>1. /\ pubRows' = [pubRows EXCEPT ![r] = NoRoute] /\ pubOrg' = Bumped(pubOrg)
        /\ UNCHANGED patch /\ Noted /\ UNCHANGED <<cfgPoll, nodeSide>>
    BY <1>7 DEF DeleteRoute, PubEdit
  <2>2. NoRoute \in RouteRows /\ NoRoute.rev = 0 /\ ~Live(NoRoute)
    BY DEF RouteRows, NoRoute, Live
  <2>3. /\ RowsMove /\ pubRows'[r] = NoRoute /\ pubOrg'.rev = pubOrg.rev + 1
        /\ \A s \in PubRoutes \ {r} : pubRows'[s] = pubRows[s]
    <3>1. NoRoute.rev <= pubOrg.rev + 1
      BY <1>2, <2>2
    <3> QED
      BY <2>1, <2>2, <3>1, RowReplaced
  <2>4. CoordMoves
    BY <1>1, <2>1, <2>3, NotedMoves
  <2>5. Unrevived
    BY <2>2, <2>3 DEF Unrevived
  <2>6. PatchIsOld'
    BY <1>2, <1>3, <2>1, <2>2, <2>3 DEF PatchIsOld
  <2> QED
    BY <1>1, <2>1, <2>4, <2>5, <2>6
<1>8. ASSUME NEW r \in PubRoutes, EmergencyDisable(r)
      PROVE  CoordMoves /\ Unrevived /\ PatchIsOld' /\ (patch' = NoPatch \/ patch' \in PatchReads)
  <2> DEFINE new == [rev |-> pubRows[r].rev + 1, enabled |-> FALSE, emergency |-> TRUE]
  <2>1. /\ pubRows' = [pubRows EXCEPT ![r] = new] /\ pubOrg' = Bumped(pubOrg) /\ pubRows[r].rev # 0
        /\ Pulled(r) /\ Noted /\ UNCHANGED <<cfgPoll, nodeSide>>
    BY <1>1, <1>8 DEF EmergencyDisable, PubEdit
  <2>2. new \in RouteRows /\ new.rev = pubRows[r].rev + 1 /\ ~Live(new)
    BY <1>2 DEF RouteRows, Live
  <2>3. new.rev # 0 /\ new # NoRoute /\ new.rev <= pubOrg.rev + 1
    BY <1>2, <2>2 DEF NoRoute
  <2> HIDE DEF new
  <2>4. /\ RowsMove /\ pubRows'[r] = new /\ pubOrg'.rev = pubOrg.rev + 1
        /\ \A s \in PubRoutes \ {r} : pubRows'[s] = pubRows[s]
    BY <1>2, <2>1, <2>2, <2>3, RowReplaced
  <2>5. CoordMoves
    BY <1>1, <2>1, <2>4, NotedMoves
  <2>6. Unrevived
    BY <2>2, <2>4 DEF Unrevived
  <2>7. /\ patch' = NoPatch \/ patch' \in PatchReads
        /\ patch'.step = patch.step
        /\ patch.step = "read" =>
             /\ patch'.route = patch.route /\ patch'.row = patch.row
             /\ patch.route # r => patch'.pulled = patch.pulled
    <3>1. CASE patch.step = "read" /\ patch.route = r
      <4>1. patch' = [patch EXCEPT !.pulled = TRUE]
        BY <2>1, <3>1 DEF Pulled
      <4> QED
        BY <1>3, <3>1, <4>1 DEF PatchReads
    <3>2. CASE ~(patch.step = "read" /\ patch.route = r)
      <4>1. patch' = patch
        BY <2>1, <3>2 DEF Pulled
      <4> QED
        BY <1>1, <4>1
    <3> QED
      BY <3>1, <3>2
  <2>8. PatchIsOld'
    <3> SUFFICES ASSUME patch.step = "read"
                 PROVE  /\ patch'.row.rev # 0 /\ patch'.row.rev <= pubOrg'.rev
                        /\ pubRows'[patch'.route].rev # 0 => patch'.row.rev <= pubRows'[patch'.route].rev
                        /\ patch'.pulled => pubRows'[patch'.route].rev # patch'.row.rev
      BY <2>7 DEF PatchIsOld
    <3>1. CASE patch.route = r
      BY <1>2, <1>3, <2>1, <2>2, <2>4, <2>7, <3>1
    <3>2. CASE patch.route # r
      BY <1>2, <1>3, <2>4, <2>7, <3>2
    <3> QED
      BY <3>1, <3>2
  <2> QED
    BY <2>5, <2>6, <2>7, <2>8
<1>9. CASE PatchWrite
  <2>1. /\ patch.step = "read" /\ patch' = NoPatch /\ Noted /\ UNCHANGED <<cfgPoll, nodeSide>>
    BY <1>9 DEF PatchWrite
  <2>2. PatchIsOld'
    BY <2>1 DEF PatchIsOld, NoPatch
  <2>3. CASE ~PatchFits(pubRows[patch.route], patch)
    <3>1. UNCHANGED <<pubRows, pubOrg>>
      BY <1>9, <2>3 DEF PatchWrite
    <3>2. RowsMove
      BY <1>1, <1>2, <3>1 DEF RowsMove
    <3> QED
      BY <1>1, <2>1, <2>2, <3>1, <3>2, NotedMoves DEF Unrevived
  <2>4. CASE PatchFits(pubRows[patch.route], patch)
    <3> DEFINE r == patch.route
               new == Patched(pubRows[r], patch)
    <3>1. r \in PubRoutes /\ pubRows[r].rev = patch.row.rev /\ ~patch.pulled /\ patch \in PatchReads
      BY <1>3, <2>1, <2>4 DEF PatchFits, PatchReads
    <3>2. pubRows' = [pubRows EXCEPT ![r] = new] /\ pubOrg' = Bumped(pubOrg)
      BY <1>1, <1>9, <2>4, <3>1 DEF PatchWrite
    <3>3. new \in RouteRows /\ new.rev = pubRows[r].rev + 1
      BY <1>2, <3>1 DEF Patched, RouteRows, PatchReads
    <3>4. new.rev # 0 /\ new # NoRoute /\ new.rev <= pubOrg.rev + 1
      BY <1>2, <3>1, <3>3 DEF NoRoute
    <3> HIDE DEF new
    <3>5. RowsMove /\ \A s \in PubRoutes \ {r} : pubRows'[s] = pubRows[s]
      BY <1>2, <3>1, <3>2, <3>3, <3>4, RowReplaced
    <3>6. CoordMoves
      BY <1>1, <2>1, <3>5, NotedMoves
    <3>7. Unrevived
      BY <3>1 DEF Unrevived
    <3> QED
      BY <2>1, <2>2, <3>6, <3>7
  <2> QED
    BY <2>3, <2>4
<1> QED
  BY <1>4, <1>5, <1>6, <1>7, <1>8, <1>9

(* The poll and the table lose nothing by what happens to the routes.      *)
LEMMA CoordKeeps ==
  ASSUME IngressIInv, CoordMoves, PatchIsOld', patch' = NoPatch \/ patch' \in PatchReads
  PROVE  IngressIInv'
<1>1. /\ IngressType /\ RevsBelow /\ TableIsCurrent /\ AgesBounded /\ HoldersBounded
      /\ pubOrg \in PubOrgs /\ pubOrg.rev \in Nat
  BY DEF IngressIInv, IngressType, PubOrgs
<1>2. /\ UNCHANGED <<cfgPoll, since, liveTable, fresh, fetches>>
      /\ RowsMove /\ withdrawn' \in [PubRoutes -> Nat]
  BY DEF CoordMoves
<1>3. pubOrg' \in PubOrgs /\ pubOrg'.rev \in Nat /\ pubRows' \in [PubRoutes -> RouteRows]
      /\ (UNCHANGED <<pubOrg, pubRows>> \/ pubOrg'.rev = pubOrg.rev + 1)
  BY <1>2 DEF RowsMove, PubOrgs
<1>4. IngressType'
  BY <1>1, <1>2, <1>3 DEF IngressType, Tables
<1>5. RevsBelow'
  <2>1. cfgPoll.step \in {"view", "rows"} => cfgPoll.rev \in Nat
    BY <1>1, PollShape DEF PollViews, PollRows
  <2>2. cfgPoll.step = "answered" /\ cfgPoll.kind = "changed" => cfgPoll.rev \in Nat
    BY <1>1, PollShape DEF PollChanges
  <2>3. since' <= pubOrg'.rev
    BY <1>1, <1>2, <1>3 DEF IngressType, RevsBelow
  <2>4. /\ cfgPoll.step \in {"view", "rows"} => cfgPoll.rev <= pubOrg'.rev
        /\ cfgPoll.step = "answered" /\ cfgPoll.kind = "changed" => cfgPoll.rev <= pubOrg'.rev
    BY <1>1, <1>3, <2>1, <2>2 DEF RevsBelow
  <2> QED
    BY <1>2, <2>3, <2>4 DEF RevsBelow, RowsMove
<1>6. TableIsCurrent'
  <2>1. CASE UNCHANGED <<pubOrg, pubRows>>
    BY <1>1, <1>2, <2>1 DEF TableIsCurrent, Deliverable, Exposing, Live
  <2>2. CASE pubOrg'.rev = pubOrg.rev + 1
    <3>1. since # pubOrg'.rev
      BY <1>1, <2>2 DEF RevsBelow, IngressType
    <3>2. cfgPoll.step = "rows" => cfgPoll.rev # pubOrg'.rev
      BY <1>1, <2>2, PollShape DEF RevsBelow, PollRows
    <3>3. cfgPoll.step = "answered" /\ cfgPoll.kind = "changed" => cfgPoll.rev # pubOrg'.rev
      BY <1>1, <2>2, PollShape DEF RevsBelow, PollChanges
    <3> QED
      BY <1>2, <3>1, <3>2, <3>3 DEF TableIsCurrent
  <2> QED
    BY <1>3, <2>1, <2>2
<1>7. AgesBounded'
  <2>1. cfgPoll'.step # "idle" => cfgPoll'.waited <= MAX_CONFIG_WAIT_SECS + ANSWER_SLACK_SECS
    BY <1>1, <1>2 DEF AgesBounded
  <2>2. ASSUME NEW r \in PubRoutes
        PROVE  /\ Deliverable(pubOrg', pubRows'[r]) => withdrawn'[r] = 0
               /\ cfgPoll'.step = "rows" /\ Exposing(cfgPoll'.view) /\ Live(pubRows'[r]) =>
                    withdrawn'[r] <= cfgPoll'.waited
               /\ cfgPoll'.step = "answered" /\ cfgPoll'.kind = "changed" /\ cfgPoll'.served[r] # 0 =>
                    withdrawn'[r] <= cfgPoll'.waited
               /\ cfgPoll'.step = "answered" /\ cfgPoll'.kind = "unchanged" /\ liveTable'[r] # 0 =>
                    withdrawn'[r] <= cfgPoll'.waited
               /\ fresh' > 0 /\ liveTable'[r] # 0 => withdrawn'[r] + fresh' <= ServeBound
    <3>1. /\ cfgPoll.step = "rows" /\ Exposing(cfgPoll.view) /\ Live(pubRows[r]) =>
               withdrawn[r] <= cfgPoll.waited
          /\ cfgPoll.step = "answered" /\ cfgPoll.kind = "changed" /\ cfgPoll.served[r] # 0 =>
               withdrawn[r] <= cfgPoll.waited
          /\ cfgPoll.step = "answered" /\ cfgPoll.kind = "unchanged" /\ liveTable[r] # 0 =>
               withdrawn[r] <= cfgPoll.waited
          /\ fresh > 0 /\ liveTable[r] # 0 => withdrawn[r] + fresh <= ServeBound
      BY <1>1, <2>2 DEF AgesBounded
    <3>2. cfgPoll.step # "idle" => cfgPoll.waited \in Nat
      BY <1>1, PollShape
    <3>3. 0 + fresh <= ServeBound
      BY <1>1, IngressAssumption DEF IngressType, ServeBound
    <3> HIDE DEF Deliverable, Live, Exposing
    <3>4. CASE withdrawn'[r] = 0
      BY <1>2, <3>2, <3>3, <3>4
    <3>5. CASE withdrawn'[r] = withdrawn[r] /\ ~Deliverable(pubOrg', pubRows'[r])
               /\ (Live(pubRows'[r]) => Live(pubRows[r]))
      BY <1>2, <3>1, <3>5
    <3> QED
      BY <2>2, <3>4, <3>5 DEF CoordMoves
  <2> QED
    BY <2>1, <2>2 DEF AgesBounded, Deliverable, Exposing, Live
<1>8. HoldersBounded'
  BY <1>1, <1>2 DEF HoldersBounded, Holders
<1> QED
  BY <1>4, <1>5, <1>6, <1>7, <1>8 DEF IngressIInv

(* The steps of a poll change nothing but the poll.                        *)
LEMMA PollKeeps ==
  ASSUME IngressIInv, PollStep,
         cfgPoll' = NoPoll \/ cfgPoll' \in PollCalls \/ cfgPoll' \in PollViews \/ cfgPoll' \in PollRows
         \/ cfgPoll' \in PollAnswers \/ cfgPoll' \in PollChanges,
         cfgPoll'.step \in {"view", "rows"} => cfgPoll'.rev <= pubOrg.rev,
         cfgPoll'.step = "answered" /\ cfgPoll'.kind = "changed" => cfgPoll'.rev <= pubOrg.rev,
         cfgPoll'.step = "rows" /\ cfgPoll'.rev = pubOrg.rev =>
           (Exposing(cfgPoll'.view) => Exposing(pubOrg)),
         cfgPoll'.step = "answered" /\ cfgPoll'.kind = "changed" /\ cfgPoll'.rev = pubOrg.rev =>
           \A r \in PubRoutes : cfgPoll'.served[r] # 0 => Deliverable(pubOrg, pubRows[r]),
         cfgPoll'.step # "idle" => cfgPoll'.waited <= MAX_CONFIG_WAIT_SECS + ANSWER_SLACK_SECS,
         \A r \in PubRoutes :
           /\ cfgPoll'.step = "rows" /\ Exposing(cfgPoll'.view) /\ Live(pubRows[r]) =>
                withdrawn[r] <= cfgPoll'.waited
           /\ cfgPoll'.step = "answered" /\ cfgPoll'.kind = "changed" /\ cfgPoll'.served[r] # 0 =>
                withdrawn[r] <= cfgPoll'.waited
           /\ cfgPoll'.step = "answered" /\ cfgPoll'.kind = "unchanged" /\ liveTable[r] # 0 =>
                withdrawn[r] <= cfgPoll'.waited
  PROVE  IngressIInv'
<1>1. UNCHANGED <<pubOrg, pubRows, patch, since, liveTable, fresh, fetches, withdrawn>>
  BY DEF PollStep, coordSide, nodeSide
<1>2. IngressType'
  BY <1>1 DEF IngressIInv, IngressType, Tables
<1>3. RevsBelow' /\ PatchIsOld'
  BY <1>1 DEF IngressIInv, RevsBelow, PatchIsOld
<1>4. TableIsCurrent'
  BY <1>1 DEF IngressIInv, TableIsCurrent, Deliverable, Exposing, Live
<1>5. AgesBounded'
  BY <1>1 DEF IngressIInv, AgesBounded, Deliverable, Exposing, Live
<1>6. HoldersBounded'
  BY <1>1 DEF IngressIInv, HoldersBounded, Holders
<1> QED
  BY <1>2, <1>3, <1>4, <1>5, <1>6 DEF IngressIInv

LEMMA PollStepsKeep ==
  ASSUME IngressIInv, \/ SendPoll \/ Authenticate \/ ReadConfigRevision \/ LoadView \/ LoadRoutes
                      \/ PollFails
  PROVE  IngressIInv'
<1>1. /\ IngressType /\ RevsBelow /\ TableIsCurrent /\ AgesBounded
      /\ pubOrg \in PubOrgs /\ pubOrg.rev \in Nat /\ pubRows \in [PubRoutes -> RouteRows]
      /\ liveTable \in Tables /\ withdrawn \in [PubRoutes -> Nat]
  BY DEF IngressIInv, IngressType, PubOrgs
<1>2. 0 <= MAX_CONFIG_WAIT_SECS + ANSWER_SLACK_SECS
  BY IngressAssumption
<1>3. cfgPoll.step # "idle" => /\ cfgPoll.waited \in Nat
                               /\ cfgPoll.waited <= MAX_CONFIG_WAIT_SECS + ANSWER_SLACK_SECS
  BY <1>1, PollShape DEF AgesBounded
<1>4. CASE PollFails
  <2>1. PollStep /\ cfgPoll' = NoPoll /\ cfgPoll'.step = "idle"
    BY <1>4 DEF PollFails, NoPoll
  <2> QED
    BY <2>1, PollKeeps
<1>5. CASE SendPoll
  <2>1. PollStep /\ cfgPoll' = [step |-> "sent", waited |-> 0]
    BY <1>5 DEF SendPoll
  <2>2. cfgPoll' \in PollCalls /\ cfgPoll'.step = "sent" /\ cfgPoll'.waited = 0
    BY <2>1 DEF PollCalls
  <2> QED
    BY <1>2, <2>1, <2>2, PollKeeps
<1>6. CASE Authenticate
  <2>1. PollStep /\ cfgPoll.step = "sent"
    BY <1>6 DEF Authenticate
  <2>2. \/ cfgPoll' \in PollCalls /\ cfgPoll'.step = "waiting" /\ cfgPoll'.waited = cfgPoll.waited
        \/ /\ cfgPoll' \in PollAnswers /\ cfgPoll'.step = "answered" /\ cfgPoll'.kind = "refused"
           /\ cfgPoll'.waited = cfgPoll.waited
    <3>1. CASE pubOrg.accepted
      <4>1. cfgPoll' = [cfgPoll EXCEPT !.step = "waiting"] /\ cfgPoll \in PollCalls
        BY <1>1, <1>6, <2>1, <3>1, PollShape DEF Authenticate
      <4> QED
        BY <4>1 DEF PollCalls
    <3>2. CASE ~pubOrg.accepted
      <4>1. cfgPoll' = [step |-> "answered", waited |-> cfgPoll.waited, kind |-> "refused"]
        BY <1>6, <3>2 DEF Authenticate
      <4> QED
        BY <1>3, <2>1, <4>1 DEF PollAnswers
    <3> QED
      BY <3>1, <3>2
  <2> QED
    BY <1>3, <2>1, <2>2, PollKeeps
<1>7. CASE ReadConfigRevision
  <2>1. PollStep /\ cfgPoll.step = "waiting"
    BY <1>7 DEF ReadConfigRevision
  <2>2. CASE cfgPoll' = [step |-> "view", waited |-> cfgPoll.waited, rev |-> pubOrg.rev]
    <3>1. /\ cfgPoll' \in PollViews /\ cfgPoll'.step = "view" /\ cfgPoll'.waited = cfgPoll.waited
          /\ cfgPoll'.rev = pubOrg.rev
      BY <1>1, <1>3, <2>1, <2>2 DEF PollViews
    <3>2. cfgPoll'.rev <= pubOrg.rev
      BY <1>1, <3>1
    <3> QED
      BY <1>3, <2>1, <3>1, <3>2, PollKeeps
  <2>3. CASE /\ pubOrg.rev = since
             /\ cfgPoll' = [step |-> "answered", waited |-> cfgPoll.waited, kind |-> "unchanged"]
    <3>1. /\ cfgPoll' \in PollAnswers /\ cfgPoll'.step = "answered" /\ cfgPoll'.waited = cfgPoll.waited
          /\ cfgPoll'.kind = "unchanged"
      BY <1>3, <2>1, <2>3 DEF PollAnswers
    <3>2. \A r \in PubRoutes : liveTable[r] # 0 => withdrawn[r] = 0
      BY <1>1, <2>3 DEF TableIsCurrent, AgesBounded
    <3>3. \A r \in PubRoutes : liveTable[r] # 0 => withdrawn[r] <= cfgPoll'.waited
      BY <1>3, <2>1, <3>1, <3>2
    <3> QED
      BY <1>3, <2>1, <3>1, <3>3, PollKeeps
  <2> QED
    BY <1>7, <2>2, <2>3 DEF ReadConfigRevision
<1>8. CASE LoadView
  <2> DEFINE seen == [enabled |-> pubOrg.enabled, policy |-> pubOrg.policy]
  <2>1. /\ PollStep /\ cfgPoll.step = "view" /\ cfgPoll \in PollViews
        /\ cfgPoll' = [step |-> "rows", waited |-> cfgPoll.waited, rev |-> cfgPoll.rev, view |-> seen]
    BY <1>1, <1>8, PollShape DEF LoadView
  <2>2. /\ seen \in [enabled : BOOLEAN, policy : BOOLEAN]
        /\ Exposing(seen) <=> Exposing(pubOrg)
    BY <1>1 DEF PubOrgs, Exposing
  <2> HIDE DEF seen
  <2>3. /\ cfgPoll' \in PollRows /\ cfgPoll'.step = "rows" /\ cfgPoll'.waited = cfgPoll.waited
        /\ cfgPoll'.rev = cfgPoll.rev /\ cfgPoll'.view = seen
    BY <1>3, <2>1, <2>2 DEF PollRows, PollViews
  <2>4. cfgPoll'.rev <= pubOrg.rev
    BY <1>1, <2>1, <2>3 DEF RevsBelow
  <2>5. \A r \in PubRoutes : Exposing(seen) /\ Live(pubRows[r]) => withdrawn[r] <= cfgPoll'.waited
    <3>1. \A r \in PubRoutes : Exposing(seen) /\ Live(pubRows[r]) => withdrawn[r] = 0
      BY <1>1, <2>2 DEF AgesBounded, Deliverable
    <3> QED
      BY <1>3, <2>1, <2>3, <3>1
  <2> QED
    BY <1>3, <2>1, <2>2, <2>3, <2>4, <2>5, PollKeeps
<1>9. CASE LoadRoutes
  <2> DEFINE table == [r \in PubRoutes |-> IF Deliverable(cfgPoll.view, pubRows[r]) THEN pubRows[r].rev ELSE 0]
  <2>1. /\ PollStep /\ cfgPoll.step = "rows" /\ cfgPoll \in PollRows
        /\ cfgPoll' = [step |-> "answered", waited |-> cfgPoll.waited, kind |-> "changed",
                       rev |-> cfgPoll.rev, served |-> table]
    BY <1>1, <1>9, PollShape DEF LoadRoutes
  <2>2. /\ table \in Tables
        /\ \A r \in PubRoutes : table[r] # 0 => Exposing(cfgPoll.view) /\ Live(pubRows[r])
    BY <1>1 DEF Tables, RouteRows, Deliverable
  <2> HIDE DEF table
  <2>3. /\ cfgPoll' \in PollChanges /\ cfgPoll'.step = "answered" /\ cfgPoll'.waited = cfgPoll.waited
        /\ cfgPoll'.rev = cfgPoll.rev /\ cfgPoll'.kind = "changed" /\ cfgPoll'.served = table
    BY <1>3, <2>1, <2>2 DEF PollChanges, PollRows
  <2>4. cfgPoll'.rev <= pubOrg.rev
    BY <1>1, <2>1, <2>3 DEF RevsBelow
  <2>5. cfgPoll'.rev = pubOrg.rev => \A r \in PubRoutes : table[r] # 0 => Deliverable(pubOrg, pubRows[r])
    BY <1>1, <2>1, <2>2, <2>3 DEF TableIsCurrent, Deliverable
  <2>6. \A r \in PubRoutes : table[r] # 0 => withdrawn[r] <= cfgPoll'.waited
    BY <1>1, <2>1, <2>2, <2>3 DEF AgesBounded
  <2> QED
    BY <1>3, <2>1, <2>3, <2>4, <2>5, <2>6, PollKeeps
<1> QED
  BY <1>4, <1>5, <1>6, <1>7, <1>8, <1>9

(* Permits are only given back: the bound holds.                           *)
LEMMA HoldersShrink ==
  ASSUME HoldersBounded, \A r \in PubRoutes : Holders(r)' \subseteq Holders(r)
  PROVE  HoldersBounded'
<1> SUFFICES ASSUME NEW r \in PubRoutes
             PROVE  IsFiniteSet(Holders(r)') /\ Cardinality(Holders(r)') <= MAX_CONNECTIONS
  BY DEF HoldersBounded
<1>1. IsFiniteSet(Holders(r)) /\ Cardinality(Holders(r)) <= MAX_CONNECTIONS
  BY DEF HoldersBounded
<1>2. /\ IsFiniteSet(Holders(r)') /\ Cardinality(Holders(r)') <= Cardinality(Holders(r))
  BY <1>1, FS_Subset
<1>3. Cardinality(Holders(r)') \in Nat /\ Cardinality(Holders(r)) \in Nat
  BY <1>1, <1>2, FS_CardinalityType
<1> QED
  BY <1>1, <1>2, <1>3, IngressAssumption

(* A new table revokes requests and starts none.                           *)
LEMMA RevokedShrinks ==
  ASSUME IngressType, HoldersBounded, NEW next, fetches' = Revoked(next)
  PROVE  HoldersBounded' /\ fetches' \in [Fetches -> HeldFetches \cup {NoFetch}]
<1>1. fetches \in [Fetches -> HeldFetches \cup {NoFetch}]
  BY DEF IngressType
<1>2. ASSUME NEW f \in Fetches
      PROVE  /\ fetches'[f] \in HeldFetches \cup {NoFetch}
             /\ fetches[f] = NoFetch => fetches'[f] = NoFetch
             /\ fetches[f] # NoFetch => fetches'[f].route = fetches[f].route
             /\ fetches'[f] # NoFetch /\ ~fetches'[f].revoked => ~fetches[f].revoked
  <2>1. CASE fetches[f] # NoFetch /\ next[fetches[f].route] # liveTable[fetches[f].route]
    <3>1. fetches'[f] = [fetches[f] EXCEPT !.revoked = TRUE] /\ fetches[f] \in HeldFetches
      BY <1>1, <2>1 DEF Revoked
    <3> QED
      BY <2>1, <3>1 DEF HeldFetches
  <2>2. CASE ~(fetches[f] # NoFetch /\ next[fetches[f].route] # liveTable[fetches[f].route])
    BY <1>1, <2>2 DEF Revoked
  <2> QED
    BY <2>1, <2>2
<1>3. fetches' \in [Fetches -> HeldFetches \cup {NoFetch}]
  <2>1. fetches' = [f \in Fetches |-> fetches'[f]]
    BY DEF Revoked
  <2> QED
    BY <1>2, <2>1
<1>4. \A r \in PubRoutes : Holders(r)' \subseteq Holders(r)
  BY <1>2 DEF Holders
<1> QED
  BY <1>3, <1>4, HoldersShrink

(* The device's table, and how fresh it is, against the routes.            *)
LEMMA TableKeeps ==
  ASSUME IngressIInv, UNCHANGED <<pubOrg, pubRows, patch, withdrawn>>, cfgPoll' = NoPoll,
         since' \in Nat, since' <= pubOrg.rev, liveTable' \in Tables, fresh' \in 0 .. STALE_AFTER_SECS,
         fetches' \in [Fetches -> HeldFetches \cup {NoFetch}], HoldersBounded',
         since' = pubOrg.rev =>
           \A r \in PubRoutes : liveTable'[r] # 0 => Deliverable(pubOrg, pubRows[r]),
         fresh' > 0 => \A r \in PubRoutes : liveTable'[r] # 0 =>
                         withdrawn[r] <= MAX_CONFIG_WAIT_SECS + ANSWER_SLACK_SECS
  PROVE  IngressIInv'
<1>1. cfgPoll'.step = "idle"
  BY DEF NoPoll
<1>2. IngressType'
  BY DEF IngressIInv, IngressType
<1>3. RevsBelow' /\ PatchIsOld'
  BY <1>1 DEF IngressIInv, RevsBelow, PatchIsOld
<1>4. TableIsCurrent'
  BY <1>1 DEF TableIsCurrent, Deliverable, Exposing, Live
<1>5. AgesBounded'
  <2>1. \A r \in PubRoutes : Deliverable(pubOrg', pubRows'[r]) => withdrawn'[r] = 0
    BY DEF IngressIInv, AgesBounded
  <2>2. ASSUME NEW r \in PubRoutes, fresh' > 0, liveTable'[r] # 0
        PROVE  withdrawn'[r] + fresh' <= ServeBound
    <3>1. withdrawn[r] \in Nat /\ withdrawn[r] <= MAX_CONFIG_WAIT_SECS + ANSWER_SLACK_SECS
      BY <2>2 DEF IngressIInv, IngressType
    <3> QED
      BY <3>1, IngressAssumption DEF ServeBound
  <2> QED
    BY <1>1, <2>1, <2>2 DEF AgesBounded, Deliverable, Exposing, Live
<1> QED
  BY <1>2, <1>3, <1>4, <1>5 DEF IngressIInv

LEMMA TableStepsKeep ==
  ASSUME IngressIInv, ApplyConfig \/ ConfirmConfig \/ ClearConfig
  PROVE  IngressIInv'
<1>1. /\ IngressType /\ RevsBelow /\ TableIsCurrent /\ AgesBounded /\ HoldersBounded
      /\ pubOrg \in PubOrgs /\ pubOrg.rev \in Nat /\ since \in Nat
      /\ liveTable \in Tables /\ withdrawn \in [PubRoutes -> Nat]
  BY DEF IngressIInv, IngressType, PubOrgs
<1>2. cfgPoll.step # "idle" => /\ cfgPoll.waited \in Nat
                               /\ cfgPoll.waited <= MAX_CONFIG_WAIT_SECS + ANSWER_SLACK_SECS
  BY <1>1, PollShape DEF AgesBounded
<1>3. STALE_AFTER_SECS \in 0 .. STALE_AFTER_SECS /\ 0 \in 0 .. STALE_AFTER_SECS
      /\ MAX_CONFIG_WAIT_SECS + ANSWER_SLACK_SECS \in Nat
  BY IngressAssumption
<1>4. CASE ApplyConfig
  <2>1. /\ cfgPoll.step = "answered" /\ cfgPoll.kind = "changed" /\ cfgPoll \in PollChanges
        /\ liveTable' = cfgPoll.served /\ fetches' = Revoked(cfgPoll.served)
        /\ fresh' = STALE_AFTER_SECS /\ since' = cfgPoll.rev /\ cfgPoll' = NoPoll
        /\ UNCHANGED <<pubOrg, pubRows, patch, withdrawn>>
    BY <1>1, <1>4, PollShape DEF ApplyConfig, coordSide
  <2>2. liveTable' \in Tables /\ since' \in Nat /\ since' <= pubOrg.rev
    BY <1>1, <2>1 DEF PollChanges, RevsBelow
  <2>3. HoldersBounded' /\ fetches' \in [Fetches -> HeldFetches \cup {NoFetch}]
    BY <1>1, <2>1, RevokedShrinks
  <2>4. since' = pubOrg.rev =>
          \A r \in PubRoutes : liveTable'[r] # 0 => Deliverable(pubOrg, pubRows[r])
    BY <1>1, <2>1 DEF TableIsCurrent
  <2>5. \A r \in PubRoutes : liveTable'[r] # 0 =>
          withdrawn[r] <= MAX_CONFIG_WAIT_SECS + ANSWER_SLACK_SECS
    <3> TAKE r \in PubRoutes
    <3>1. liveTable'[r] # 0 => withdrawn[r] <= cfgPoll.waited
      BY <1>1, <2>1 DEF AgesBounded
    <3>2. withdrawn[r] \in Nat
      BY <1>1
    <3> QED
      BY <1>2, <1>3, <2>1, <3>1, <3>2
  <2> QED
    BY <1>3, <2>1, <2>2, <2>3, <2>4, <2>5, TableKeeps
<1>5. CASE ConfirmConfig
  <2>1. /\ cfgPoll.step = "answered" /\ cfgPoll.kind = "unchanged"
        /\ fresh' = STALE_AFTER_SECS /\ cfgPoll' = NoPoll
        /\ UNCHANGED <<pubOrg, pubRows, patch, withdrawn, since, liveTable, fetches>>
    BY <1>5 DEF ConfirmConfig, coordSide
  <2>2. liveTable' \in Tables /\ since' \in Nat /\ since' <= pubOrg.rev
    BY <1>1, <2>1 DEF RevsBelow
  <2>3. HoldersBounded' /\ fetches' \in [Fetches -> HeldFetches \cup {NoFetch}]
    BY <1>1, <2>1 DEF HoldersBounded, Holders, IngressType
  <2>4. since' = pubOrg.rev =>
          \A r \in PubRoutes : liveTable'[r] # 0 => Deliverable(pubOrg, pubRows[r])
    BY <1>1, <2>1 DEF TableIsCurrent
  <2>5. \A r \in PubRoutes : liveTable'[r] # 0 =>
          withdrawn[r] <= MAX_CONFIG_WAIT_SECS + ANSWER_SLACK_SECS
    <3> TAKE r \in PubRoutes
    <3>1. liveTable'[r] # 0 => withdrawn[r] <= cfgPoll.waited
      BY <1>1, <2>1 DEF AgesBounded
    <3>2. withdrawn[r] \in Nat
      BY <1>1
    <3> QED
      BY <1>2, <1>3, <2>1, <3>1, <3>2
  <2> QED
    BY <1>3, <2>1, <2>2, <2>3, <2>4, <2>5, TableKeeps
<1>6. CASE ClearConfig
  <2>1. /\ liveTable' = [r \in PubRoutes |-> 0] /\ fetches' = Revoked(liveTable')
        /\ fresh' = 0 /\ since' = 0 /\ cfgPoll' = NoPoll
        /\ UNCHANGED <<pubOrg, pubRows, patch, withdrawn>>
    BY <1>6 DEF ClearConfig, coordSide
  <2>2. /\ liveTable' \in Tables /\ since' \in Nat /\ since' <= pubOrg.rev /\ ~(fresh' > 0)
        /\ \A r \in PubRoutes : liveTable'[r] = 0
    BY <1>1, <2>1 DEF Tables
  <2>3. HoldersBounded' /\ fetches' \in [Fetches -> HeldFetches \cup {NoFetch}]
    BY <1>1, <2>1, RevokedShrinks
  <2> QED
    BY <1>3, <2>1, <2>2, <2>3, TableKeeps
<1> QED
  BY <1>4, <1>5, <1>6

(* A request takes a permit, moves on with it, or gives it back.           *)
LEMMA FetchStepsKeep ==
  ASSUME IngressIInv, NEW f \in Fetches,
         Answered(f) \/ Finish(f) \/ CloseTunnel(f) \/ \E r \in PubRoutes : AcceptFetch(f, r)
  PROVE  IngressIInv'
<1>1. /\ IngressType /\ HoldersBounded /\ fetches \in [Fetches -> HeldFetches \cup {NoFetch}]
  BY DEF IngressIInv, IngressType
<1>2. UNCHANGED <<pubOrg, pubRows, patch, cfgPoll, since, liveTable, fresh, withdrawn>>
  BY DEF Answered, Finish, CloseTunnel, AcceptFetch, FetchStep, coordSide
<1>3. HoldersBounded' /\ fetches' \in [Fetches -> HeldFetches \cup {NoFetch}]
  <2>1. CASE Answered(f)
    <3>1. PICK step \in {"stream", "tunnel"} : fetches' = [fetches EXCEPT ![f].step = step]
      BY <2>1 DEF Answered
    <3>2. fetches[f].step = "forward" /\ fetches[f] \in HeldFetches
      BY <1>1, <2>1 DEF Answered, NoFetch
    <3>3. /\ fetches'[f] \in HeldFetches /\ fetches'[f].route = fetches[f].route
          /\ fetches'[f].revoked = fetches[f].revoked
      BY <1>1, <3>1, <3>2 DEF HeldFetches
    <3>4. \A g \in Fetches \ {f} : fetches'[g] = fetches[g]
      BY <1>1, <3>1
    <3>5. fetches' \in [Fetches -> HeldFetches \cup {NoFetch}]
      BY <1>1, <3>1, <3>3, <3>4
    <3>6. fetches[f] # NoFetch
      BY <3>2 DEF NoFetch
    <3>7. \A r \in PubRoutes : Holders(r)' \subseteq Holders(r)
      BY <3>3, <3>4, <3>6 DEF Holders
    <3> QED
      BY <1>1, <3>5, <3>7, HoldersShrink
  <2>2. CASE Finish(f) \/ CloseTunnel(f)
    <3>1. fetches' = [fetches EXCEPT ![f] = NoFetch]
      BY <2>2 DEF Finish, CloseTunnel
    <3>2. fetches' \in [Fetches -> HeldFetches \cup {NoFetch}]
      BY <1>1, <3>1
    <3>3. \A r \in PubRoutes : Holders(r)' \subseteq Holders(r)
      BY <1>1, <3>1 DEF Holders
    <3> QED
      BY <1>1, <3>2, <3>3, HoldersShrink
  <2>3. ASSUME NEW r \in PubRoutes, AcceptFetch(f, r)
        PROVE  HoldersBounded' /\ fetches' \in [Fetches -> HeldFetches \cup {NoFetch}]
    <3> DEFINE new == [step |-> "forward", route |-> r, revoked |-> FALSE]
    <3>1. /\ fetches[f] = NoFetch /\ Cardinality(Holders(r)) < MAX_CONNECTIONS
          /\ fetches' = [fetches EXCEPT ![f] = new]
      BY <2>3 DEF AcceptFetch
    <3>2. new \in HeldFetches /\ new.route = r
      BY DEF HeldFetches
    <3> HIDE DEF new
    <3>3. fetches' \in [Fetches -> HeldFetches \cup {NoFetch}]
      BY <1>1, <3>1, <3>2
    <3>4. ASSUME NEW s \in PubRoutes
          PROVE  IsFiniteSet(Holders(s)') /\ Cardinality(Holders(s)') <= MAX_CONNECTIONS
      <4>1. IsFiniteSet(Holders(s)) /\ Cardinality(Holders(s)) <= MAX_CONNECTIONS
        BY <1>1 DEF HoldersBounded
      <4>2. CASE s = r
        <5>1. Holders(s)' \subseteq Holders(s) \cup {f}
          BY <1>1, <3>1 DEF Holders
        <5>2. f \notin Holders(s)
          BY <3>1 DEF Holders
        <5>3. IsFiniteSet(Holders(s) \cup {f}) /\ Cardinality(Holders(s) \cup {f}) = Cardinality(Holders(s)) + 1
          BY <4>1, <5>2, FS_AddElement
        <5>4. /\ IsFiniteSet(Holders(s)')
              /\ Cardinality(Holders(s)') <= Cardinality(Holders(s) \cup {f})
          BY <5>1, <5>3, FS_Subset
        <5>5. Cardinality(Holders(s)) \in Nat /\ Cardinality(Holders(s)') \in Nat
          BY <4>1, <5>4, FS_CardinalityType
        <5> QED
          BY <3>1, <4>2, <5>3, <5>4, <5>5, IngressAssumption
      <4>3. CASE s # r
        <5>1. Holders(s)' = Holders(s)
          BY <1>1, <3>1, <3>2, <4>3 DEF Holders
        <5> QED
          BY <4>1, <5>1
      <4> QED
        BY <4>2, <4>3
    <3> QED
      BY <3>3, <3>4 DEF HoldersBounded
  <2> QED
    BY <2>1, <2>2, <2>3
<1>4. IngressType'
  BY <1>1, <1>2, <1>3 DEF IngressType
<1>5. RevsBelow' /\ PatchIsOld' /\ TableIsCurrent' /\ AgesBounded'
  BY <1>2 DEF IngressIInv, RevsBelow, PatchIsOld, TableIsCurrent, AgesBounded, Deliverable, Exposing, Live
<1> QED
  BY <1>3, <1>4, <1>5 DEF IngressIInv

(* A second makes what is withdrawn older, and the table less fresh.       *)
LEMMA SecondKeeps ==
  ASSUME IngressIInv, SecondPasses
  PROVE  IngressIInv'
<1>1. /\ IngressType /\ RevsBelow /\ PatchIsOld /\ TableIsCurrent /\ AgesBounded /\ HoldersBounded
      /\ fresh \in Nat /\ fresh <= STALE_AFTER_SECS /\ withdrawn \in [PubRoutes -> Nat]
  BY IngressAssumption DEF IngressIInv, IngressType
<1>2. /\ cfgPoll # NoPoll => cfgPoll.waited < MAX_CONFIG_WAIT_SECS + ANSWER_SLACK_SECS
      /\ fresh' = IF fresh > 0 THEN fresh - 1 ELSE 0
      /\ cfgPoll' = IF cfgPoll = NoPoll THEN NoPoll ELSE [cfgPoll EXCEPT !.waited = @ + 1]
      /\ withdrawn' = [r \in PubRoutes |->
           IF Deliverable(pubOrg, pubRows[r]) THEN 0 ELSE Aged(withdrawn[r])]
      /\ UNCHANGED <<pubOrg, pubRows, patch, since, liveTable, fetches>>
  BY DEF SecondPasses, coordSide
<1>3. fresh' \in 0 .. STALE_AFTER_SECS /\ (fresh' > 0 => fresh > 0 /\ fresh' = fresh - 1)
  BY <1>1, <1>2, IngressAssumption
<1>4. \A r \in PubRoutes : /\ withdrawn'[r] \in Nat /\ withdrawn'[r] <= withdrawn[r] + 1
                           /\ Deliverable(pubOrg, pubRows[r]) => withdrawn'[r] = 0
  <2> TAKE r \in PubRoutes
  <2>1. withdrawn[r] \in Nat /\ ServeBound \in Nat
    BY <1>1, IngressAssumption DEF ServeBound
  <2>2. withdrawn'[r] = IF Deliverable(pubOrg, pubRows[r]) THEN 0 ELSE Aged(withdrawn[r])
    BY <1>2
  <2>3. Aged(withdrawn[r]) \in Nat /\ Aged(withdrawn[r]) <= withdrawn[r] + 1
    BY <2>1 DEF Aged
  <2> HIDE DEF Deliverable
  <2> QED
    BY <2>1, <2>2, <2>3
<1>5. withdrawn' \in [PubRoutes -> Nat]
  <2>1. withdrawn' = [r \in PubRoutes |-> withdrawn'[r]]
    BY <1>2
  <2> QED
    BY <1>4, <2>1
<1>6. /\ cfgPoll' = NoPoll \/ cfgPoll' \in PollCalls \/ cfgPoll' \in PollViews \/ cfgPoll' \in PollRows
         \/ cfgPoll' \in PollAnswers \/ cfgPoll' \in PollChanges
      /\ cfgPoll'.step = cfgPoll.step
      /\ cfgPoll.step # "idle" => /\ cfgPoll'.waited = cfgPoll.waited + 1 /\ cfgPoll.waited \in Nat
                                  /\ cfgPoll.waited < MAX_CONFIG_WAIT_SECS + ANSWER_SLACK_SECS
      /\ cfgPoll.step \in {"view", "rows"} => cfgPoll'.rev = cfgPoll.rev
      /\ cfgPoll.step = "rows" => cfgPoll'.view = cfgPoll.view
      /\ cfgPoll.step = "answered" => cfgPoll'.kind = cfgPoll.kind
      /\ cfgPoll.step = "answered" /\ cfgPoll.kind = "changed" =>
           cfgPoll'.rev = cfgPoll.rev /\ cfgPoll'.served = cfgPoll.served
  <2>1. CASE cfgPoll = NoPoll
    BY <1>2, <2>1 DEF NoPoll
  <2>2. CASE cfgPoll # NoPoll
    <3>1. /\ cfgPoll' = [cfgPoll EXCEPT !.waited = @ + 1]
          /\ cfgPoll.waited < MAX_CONFIG_WAIT_SECS + ANSWER_SLACK_SECS
      BY <1>2, <2>2
    <3>2. CASE cfgPoll \in PollCalls
      BY <3>1, <3>2 DEF PollCalls
    <3>3. CASE cfgPoll \in PollViews
      BY <3>1, <3>3 DEF PollViews
    <3>4. CASE cfgPoll \in PollRows
      BY <3>1, <3>4 DEF PollRows
    <3>5. CASE cfgPoll \in PollAnswers
      BY <3>1, <3>5 DEF PollAnswers
    <3>6. CASE cfgPoll \in PollChanges
      BY <3>1, <3>6 DEF PollChanges
    <3> QED
      BY <1>1, <2>2, <3>2, <3>3, <3>4, <3>5, <3>6 DEF IngressType
  <2> QED
    BY <2>1, <2>2
<1>7. IngressType'
  BY <1>1, <1>2, <1>3, <1>5, <1>6 DEF IngressType
<1>8. RevsBelow' /\ PatchIsOld' /\ HoldersBounded'
  BY <1>1, <1>2, <1>6 DEF RevsBelow, PatchIsOld, HoldersBounded, Holders
<1>9. TableIsCurrent'
  <2> HIDE DEF Exposing, Live
  <2> QED
    BY <1>1, <1>2, <1>6 DEF TableIsCurrent, Deliverable, Exposing, Live
<1>10. AgesBounded'
  <2>1. cfgPoll'.step # "idle" => cfgPoll'.waited <= MAX_CONFIG_WAIT_SECS + ANSWER_SLACK_SECS
    BY <1>6, IngressAssumption
  <2>2. ASSUME NEW r \in PubRoutes
        PROVE  /\ Deliverable(pubOrg', pubRows'[r]) => withdrawn'[r] = 0
               /\ cfgPoll'.step = "rows" /\ Exposing(cfgPoll'.view) /\ Live(pubRows'[r]) =>
                    withdrawn'[r] <= cfgPoll'.waited
               /\ cfgPoll'.step = "answered" /\ cfgPoll'.kind = "changed" /\ cfgPoll'.served[r] # 0 =>
                    withdrawn'[r] <= cfgPoll'.waited
               /\ cfgPoll'.step = "answered" /\ cfgPoll'.kind = "unchanged" /\ liveTable'[r] # 0 =>
                    withdrawn'[r] <= cfgPoll'.waited
               /\ fresh' > 0 /\ liveTable'[r] # 0 => withdrawn'[r] + fresh' <= ServeBound
    <3>1. /\ cfgPoll.step = "rows" /\ Exposing(cfgPoll.view) /\ Live(pubRows[r]) =>
               withdrawn[r] <= cfgPoll.waited
          /\ cfgPoll.step = "answered" /\ cfgPoll.kind = "changed" /\ cfgPoll.served[r] # 0 =>
               withdrawn[r] <= cfgPoll.waited
          /\ cfgPoll.step = "answered" /\ cfgPoll.kind = "unchanged" /\ liveTable[r] # 0 =>
               withdrawn[r] <= cfgPoll.waited
          /\ fresh > 0 /\ liveTable[r] # 0 => withdrawn[r] + fresh <= ServeBound
      BY <1>1, <2>2 DEF AgesBounded
    <3>2. withdrawn[r] \in Nat /\ withdrawn'[r] \in Nat /\ withdrawn'[r] <= withdrawn[r] + 1
          /\ (Deliverable(pubOrg, pubRows[r]) => withdrawn'[r] = 0) /\ ServeBound \in Nat
      BY <1>1, <1>4, <2>2, IngressAssumption DEF ServeBound
    <3> HIDE DEF Deliverable, Live, Exposing
    <3>3. cfgPoll'.step # "idle" => (withdrawn[r] <= cfgPoll.waited => withdrawn'[r] <= cfgPoll'.waited)
      BY <1>6, <3>2
    <3>4. fresh' > 0 /\ liveTable'[r] # 0 => withdrawn'[r] + fresh' <= ServeBound
      BY <1>1, <1>2, <1>3, <3>1, <3>2
    <3> QED
      BY <1>2, <1>6, <3>1, <3>2, <3>3, <3>4
  <2> QED
    BY <2>1, <2>2 DEF AgesBounded, Deliverable, Exposing, Live
<1> QED
  BY <1>7, <1>8, <1>9, <1>10 DEF IngressIInv

LEMMA IngressStarts == IngressInit => IngressIInv
<1> SUFFICES ASSUME IngressInit
             PROVE  IngressIInv
  OBVIOUS
<1>1. /\ pubOrg = [enabled |-> TRUE, policy |-> TRUE, accepted |-> TRUE, rev |-> 2]
      /\ patch = NoPatch /\ cfgPoll = NoPoll /\ since = 0 /\ fresh = 0
      /\ liveTable = [r \in PubRoutes |-> 0] /\ withdrawn = [r \in PubRoutes |-> 0]
      /\ fetches = [f \in Fetches |-> NoFetch]
      /\ pubRows \in [PubRoutes -> {NoRoute, [rev |-> 1, enabled |-> TRUE, emergency |-> FALSE],
                                    [rev |-> 2, enabled |-> FALSE, emergency |-> TRUE]}]
  BY DEF IngressInit
<1>2. pubOrg \in PubOrgs /\ pubOrg.rev = 2 /\ patch.step = "none" /\ cfgPoll.step = "idle"
  BY <1>1 DEF PubOrgs, NoPatch, NoPoll
<1>3. \A r \in PubRoutes : /\ pubRows[r] \in RouteRows /\ pubRows[r].rev <= 2
                           /\ pubRows[r].rev = 0 <=> pubRows[r] = NoRoute
  <2> TAKE r \in PubRoutes
  <2>1. \/ pubRows[r] = NoRoute
        \/ pubRows[r] = [rev |-> 1, enabled |-> TRUE, emergency |-> FALSE]
        \/ pubRows[r] = [rev |-> 2, enabled |-> FALSE, emergency |-> TRUE]
    BY <1>1
  <2>2. CASE pubRows[r] = NoRoute
    BY <2>2 DEF RouteRows, NoRoute
  <2>3. CASE pubRows[r] = [rev |-> 1, enabled |-> TRUE, emergency |-> FALSE]
    BY <2>3 DEF RouteRows, NoRoute
  <2>4. CASE pubRows[r] = [rev |-> 2, enabled |-> FALSE, emergency |-> TRUE]
    BY <2>4 DEF RouteRows, NoRoute
  <2> QED
    BY <2>1, <2>2, <2>3, <2>4
<1>4. IngressType
  BY <1>1, <1>2, <1>3, IngressAssumption DEF IngressType, Tables
<1>5. RevsBelow /\ PatchIsOld /\ TableIsCurrent
  BY <1>1, <1>2, <1>3 DEF RevsBelow, PatchIsOld, TableIsCurrent
<1>6. AgesBounded
  BY <1>1, <1>2 DEF AgesBounded
<1>7. HoldersBounded
  <2>1. \A r \in PubRoutes : Holders(r) = {}
    BY <1>1 DEF Holders
  <2> QED
    BY <2>1, FS_EmptySet, IngressAssumption DEF HoldersBounded
<1> QED
  BY <1>4, <1>5, <1>6, <1>7 DEF IngressIInv

(* A step that leaves what the device and the coordinator hold alone.      *)
LEMMA IngressInductive ==
  ASSUME IngressIInv, [IngressNext]_ingressVars
  PROVE  IngressIInv' /\ (pubRows' = pubRows \/ Unrevived)
<1>1. CASE UNCHANGED ingressVars
  <2>1. UNCHANGED <<pubOrg, pubRows, patch, cfgPoll, since, liveTable, fresh, fetches, withdrawn>>
    BY <1>1 DEF ingressVars
  <2>2. HoldersBounded' /\ IngressType'
    BY <2>1 DEF IngressIInv, HoldersBounded, Holders, IngressType
  <2>3. RevsBelow' /\ PatchIsOld' /\ TableIsCurrent' /\ AgesBounded'
    BY <2>1 DEF IngressIInv, RevsBelow, PatchIsOld, TableIsCurrent, AgesBounded, Deliverable,
                Exposing, Live
  <2> QED
    BY <2>1, <2>2, <2>3 DEF IngressIInv
<1>2. CASE PutSettings \/ PolicyChange \/ DesignateNode \/ PatchWrite
           \/ \E r \in PubRoutes : \/ CreateRoute(r) \/ EmergencyDisable(r) \/ DeleteRoute(r)
                                   \/ \E on \in BOOLEAN : PatchRead(r, on)
  BY <1>2, CoordFacts, CoordKeeps
<1>3. CASE SendPoll \/ Authenticate \/ ReadConfigRevision \/ LoadView \/ LoadRoutes \/ PollFails
  <2>1. pubRows' = pubRows
    BY <1>3 DEF SendPoll, Authenticate, ReadConfigRevision, LoadView, LoadRoutes, PollFails, PollStep,
                coordSide
  <2> QED
    BY <1>3, <2>1, PollStepsKeep
<1>4. CASE ApplyConfig \/ ConfirmConfig \/ ClearConfig
  <2>1. pubRows' = pubRows
    BY <1>4 DEF ApplyConfig, ConfirmConfig, ClearConfig, coordSide
  <2> QED
    BY <1>4, <2>1, TableStepsKeep
<1>5. CASE \E f \in Fetches : \/ Answered(f) \/ Finish(f) \/ CloseTunnel(f)
                              \/ \E r \in PubRoutes : AcceptFetch(f, r)
  <2>1. pubRows' = pubRows
    BY <1>5 DEF Answered, Finish, CloseTunnel, AcceptFetch, FetchStep, coordSide
  <2> QED
    BY <1>5, <2>1, FetchStepsKeep
<1>6. CASE SecondPasses
  <2>1. pubRows' = pubRows
    BY <1>6 DEF SecondPasses, coordSide
  <2> QED
    BY <1>6, <2>1, SecondKeeps
<1> QED
  BY <1>1, <1>2, <1>3, <1>4, <1>5, <1>6 DEF IngressNext, NodeStep

(* Whatever answers are delayed or lost, a route that was withdrawn is no  *)
(* longer served once its bound is over, the permits are never overdrawn,  *)
(* and an update read before the kill switch never undoes it               *)
(* (public_ingress.rs update_route(), emergency_disable(), node_config();  *)
(* blaktail-ingress RouteTable).                                           *)
THEOREM IngressAlwaysHolds == IngressSpec => IngressHolds
<1>1. IngressIInv => IngressTypeOK /\ WithdrawnStopsInBound
  <2> SUFFICES ASSUME IngressIInv
               PROVE  IngressTypeOK /\ WithdrawnStopsInBound
    OBVIOUS
  <2>1. IngressTypeOK
    BY DEF IngressIInv, IngressTypeOK, IngressType, RevsBelow, HoldersBounded, PubOrgs, RouteRows,
           Tables
  <2>2. WithdrawnStopsInBound
    <3> SUFFICES ASSUME NEW r \in PubRoutes, withdrawn[r] > ServeBound, fresh > 0, liveTable[r] # 0
                 PROVE  FALSE
      BY DEF WithdrawnStopsInBound, Serves
    <3>1. withdrawn[r] + fresh <= ServeBound
      BY DEF IngressIInv, AgesBounded
    <3>2. withdrawn[r] \in Nat /\ fresh \in Nat /\ ServeBound \in Nat
      BY IngressAssumption DEF IngressIInv, IngressType, ServeBound
    <3> QED
      BY <3>1, <3>2
  <2> QED
    BY <2>1, <2>2
<1>2. IngressIInv /\ [IngressNext]_ingressVars =>
        [\A r \in PubRoutes :
           (patch.step = "read" /\ patch.route = r /\ patch.pulled /\ pubRows[r] # NoRoute) =>
             ~(Live(pubRows'[r]) /\ ~Live(pubRows[r]))]_pubRows
  BY IngressInductive DEF Unrevived
<1>3. IngressIInv /\ [IngressNext]_ingressVars => IngressIInv'
  BY IngressInductive
<1> QED
  BY <1>1, <1>2, <1>3, IngressStarts, PTL DEF IngressSpec, IngressHolds, NoUnseenRevival

-----------------------------------------------------------------------------
(* Private services.                                                       *)

Nodes == Servers \cup {"none"}
Given == Serials \cup {NoSerial}
Leaves == [node : Nodes, left : 0 .. LEAF_LIFETIME_SECS, revoked : BOOLEAN]
Runtimes == [pc : {"idle", "assigned", "issuing", "ready", "report"}, held : Given, route : Given,
             disk : Given, says : BOOLEAN, lag : {0}, current : BOOLEAN]
SvcType ==
  /\ svc \in [on : {"none", "yes", "no"}, target : Nodes]
  /\ svcHealth \in [node : Nodes, ok : BOOLEAN, age : Nat, serial : Given]
  /\ leaf \in [Serials -> Leaves]
  /\ standing \in [Servers -> {"active", "suspended", "revoked"}]
  /\ server \in [Servers -> Runtimes]
  /\ resolver \in [record : Nodes, current : BOOLEAN]
  /\ svcDeadline \in Nat

(* What an agent holds in memory is what it has on disk, a certificate of  *)
(* its own, and what it reports is what it holds, or nothing.              *)
HoldsItsOwn(n, s) ==
  /\ s.held # NoSerial => s.held = s.disk
  /\ s.disk # NoSerial => leaf[s.disk].node = n
  /\ s.pc = "report" => s.route \in {s.held, NoSerial}
CertsHeld == \A n \in Servers : HoldsItsOwn(n, server[n])

(* A stored report comes from the service's target, and its certificate,   *)
(* while it is good for anything, expires no later than the one on disk.   *)
HealthTraced ==
  /\ svcHealth.node # "none" => svc.on = "yes" /\ svc.target = svcHealth.node
  /\ svcHealth.serial # NoSerial =>
       /\ svcHealth.node # "none" /\ leaf[svcHealth.serial].node = svcHealth.node
       /\ standing[svcHealth.node] = "suspended" => leaf[svcHealth.serial].revoked
       /\ standing[svcHealth.node] = "active" /\ ~leaf[svcHealth.serial].revoked =>
            /\ server[svcHealth.node].disk # NoSerial
            /\ leaf[svcHealth.serial].left <= leaf[server[svcHealth.node].disk].left

(* An agent that has heard of the last change is the target, or serves     *)
(* nothing.                                                                *)
PassAssigned(n, s) ==
  s.current => (Enables(n) /\ standing[n] = "active") \/ (s.pc = "idle" /\ s.route = NoSerial)
PassesAssigned == \A n \in Servers : PassAssigned(n, server[n])

(* The client's answer is the current one, and it lapses with the first    *)
(* thing it rests on.                                                      *)
AnswerStands ==
  (resolver.current /\ svcDeadline # 0) =>
    /\ resolver.record = IF Publishes /\ standing[svc.target] = "active" THEN svc.target ELSE "none"
    /\ Publishes => svcDeadline <= PublishUntil

SvcIInv == SvcType /\ CertsHeld /\ HealthTraced /\ PassesAssigned /\ AnswerStands

LEMMA MinOfTwo ==
  ASSUME NEW a \in Int, NEW b \in Int
  PROVE  Min({a, b}) \in {a, b} /\ Min({a, b}) <= a /\ Min({a, b}) <= b
<1>1. \E x \in {a, b} : \A y \in {a, b} : x <= y
  BY SMT
<1> QED
  BY <1>1 DEF Min

(* An answer is good until its report or its certificate lapses.           *)
LEMMA UntilFirst ==
  ASSUME NEW left \in Nat, NEW age \in Nat
  PROVE  /\ Min({left, HEALTH_FRESH_SECS - age}) \in {left, HEALTH_FRESH_SECS - age}
         /\ Min({left, HEALTH_FRESH_SECS - age}) \in Int
         /\ Min({left, HEALTH_FRESH_SECS - age}) <= left
         /\ Min({left, HEALTH_FRESH_SECS - age}) <= HEALTH_FRESH_SECS - age
<1> DEFINE b == HEALTH_FRESH_SECS - age
<1>1. left \in Int /\ b \in Int
  BY ServicesAssumption
<1> HIDE DEF b
<1>2. Min({left, b}) \in {left, b} /\ Min({left, b}) <= left /\ Min({left, b}) <= b
  BY <1>1, MinOfTwo
<1>3. Min({left, b}) \in Int
  BY <1>1, <1>2
<1> QED
  BY <1>2, <1>3 DEF b

(* What is referred to keeps its certificate; the others are forgotten.    *)
LEMMA KeptCerts ==
  ASSUME SvcType, NEW f \in [Serials -> Leaves]
  PROVE  /\ Kept(f) \in [Serials -> Leaves]
         /\ \A k \in Serials : k = svcHealth.serial => Kept(f)[k] = f[k]
         /\ \A n \in Servers : \A k \in Serials :
              k \in {server[n].held, server[n].route, server[n].disk} => Kept(f)[k] = f[k]
<1>1. Unused \in Leaves
  BY ServicesAssumption DEF Unused, Leaves, Nodes
<1>2. Kept(f) \in [Serials -> Leaves]
  BY <1>1 DEF Kept
<1>3. \A k \in Serials : k = svcHealth.serial => k \in Referred
  BY DEF Referred
<1>4. \A n \in Servers : \A k \in {server[n].held, server[n].route, server[n].disk} : k \in Referred
  BY DEF Referred
<1> QED
  BY <1>2, <1>3, <1>4 DEF Kept

LEMMA RevokedCerts ==
  ASSUME SvcType, NEW nodes
  PROVE  /\ RevokedOn(nodes) \in [Serials -> Leaves]
         /\ \A k \in Serials :
              (k = svcHealth.serial \/ \E n \in Servers : k = server[n].disk) =>
                /\ RevokedOn(nodes)[k].node = leaf[k].node /\ RevokedOn(nodes)[k].left = leaf[k].left
                /\ RevokedOn(nodes)[k].revoked <=> (leaf[k].revoked \/ leaf[k].node \in nodes)
<1> DEFINE f == [k \in Serials |-> [leaf[k] EXCEPT !.revoked = @ \/ leaf[k].node \in nodes]]
<1>1. ASSUME NEW k \in Serials
      PROVE  /\ f[k] \in Leaves /\ f[k].node = leaf[k].node /\ f[k].left = leaf[k].left
             /\ f[k].revoked <=> (leaf[k].revoked \/ leaf[k].node \in nodes)
  <2>1. leaf[k] \in Leaves
    BY DEF SvcType
  <2>2. f[k] = [leaf[k] EXCEPT !.revoked = (leaf[k].revoked \/ leaf[k].node \in nodes)]
    BY <2>1 DEF Leaves
  <2>3. (leaf[k].revoked \/ leaf[k].node \in nodes) \in BOOLEAN
    OBVIOUS
  <2> HIDE DEF f
  <2> QED
    BY <2>1, <2>2, <2>3 DEF Leaves
<1>2. f \in [Serials -> Leaves]
  <2>1. f = [k \in Serials |-> f[k]]
    OBVIOUS
  <2> HIDE DEF f
  <2> QED
    BY <1>1, <2>1
<1>3. RevokedOn(nodes) = Kept(f)
  BY DEF RevokedOn
<1> HIDE DEF f
<1>4. /\ Kept(f) \in [Serials -> Leaves]
      /\ \A k \in Serials : k = svcHealth.serial => Kept(f)[k] = f[k]
      /\ \A n \in Servers : \A k \in Serials :
           k \in {server[n].held, server[n].route, server[n].disk} => Kept(f)[k] = f[k]
  BY <1>2, KeptCerts
<1> QED
  BY <1>1, <1>3, <1>4

(* The answer stands while nothing it is made of changes.                  *)
LEMMA AnswerKept ==
  ASSUME SvcType, AnswerStands, UNCHANGED <<svc, svcHealth, standing, resolver, svcDeadline>>,
         svcHealth.serial # NoSerial => leaf'[svcHealth.serial] = leaf[svcHealth.serial]
  PROVE  AnswerStands'
<1>1. Publishes' <=> Publishes
  BY DEF Publishes, FreshFor, LiveCertificate
<1>2. Publishes => PublishUntil' = PublishUntil
  BY DEF Publishes, LiveCertificate, PublishUntil
<1> QED
  BY <1>1, <1>2 DEF AnswerStands

(* A step of one agent, which leaves the coordinator's rows alone.         *)
LEMMA ServerKeeps ==
  ASSUME SvcIInv, UNCHANGED <<svc, svcHealth, standing, resolver, svcDeadline, leaf>>,
         NEW n \in Servers, NEW new \in Runtimes, server' = [server EXCEPT ![n] = new],
         HoldsItsOwn(n, new), PassAssigned(n, new),
         new.disk = server[n].disk \/ (new.disk = NoSerial /\ ~(standing[n] = "active" /\ Enables(n)))
  PROVE  SvcIInv'
<1>1. SvcType /\ CertsHeld /\ HealthTraced /\ PassesAssigned /\ AnswerStands
      /\ server \in [Servers -> Runtimes]
  BY DEF SvcIInv, SvcType
<1>2. /\ server' \in [Servers -> Runtimes] /\ server'[n] = new
      /\ \A m \in Servers \ {n} : server'[m] = server[m]
  BY <1>1
<1>3. SvcType'
  BY <1>1, <1>2 DEF SvcType
<1>4. CertsHeld'
  BY <1>1, <1>2 DEF CertsHeld, HoldsItsOwn
<1>5. HealthTraced'
  <2> SUFFICES ASSUME svcHealth.serial # NoSerial, standing[svcHealth.node] = "active",
                      ~leaf[svcHealth.serial].revoked
               PROVE  /\ server'[svcHealth.node].disk # NoSerial
                      /\ leaf[svcHealth.serial].left <= leaf[server'[svcHealth.node].disk].left
    BY <1>1 DEF HealthTraced
  <2>1. /\ svcHealth.node \in Servers /\ svc.on = "yes" /\ svc.target = svcHealth.node
        /\ server[svcHealth.node].disk # NoSerial
        /\ leaf[svcHealth.serial].left <= leaf[server[svcHealth.node].disk].left
    BY <1>1 DEF HealthTraced, SvcType, Nodes
  <2>2. server'[svcHealth.node].disk = server[svcHealth.node].disk
    <3>1. CASE svcHealth.node = n
      BY <1>2, <2>1, <3>1 DEF Enables
    <3>2. CASE svcHealth.node # n
      BY <1>2, <2>1, <3>2
    <3> QED
      BY <3>1, <3>2
  <2> QED
    BY <2>1, <2>2
<1>6. PassesAssigned'
  BY <1>1, <1>2 DEF PassesAssigned, PassAssigned, Enables
<1>7. AnswerStands'
  BY <1>1, AnswerKept
<1> QED
  BY <1>3, <1>4, <1>5, <1>6, <1>7 DEF SvcIInv

LEMMA AgentKeeps ==
  ASSUME SvcIInv, NEW n \in Servers,
         FetchAssigned(n) \/ FetchFails(n) \/ EnsureCertificate(n) \/ ServeRoutes(n) \/ RestartServer(n)
  PROVE  SvcIInv'
<1>1. SvcType /\ server \in [Servers -> Runtimes] /\ server[n] \in Runtimes
      /\ HoldsItsOwn(n, server[n]) /\ PassAssigned(n, server[n])
  BY DEF SvcIInv, SvcType, CertsHeld, PassesAssigned
<1>2. UNCHANGED <<svc, svcHealth, standing, resolver, svcDeadline, leaf>>
  BY DEF FetchAssigned, FetchFails, EnsureCertificate, ServeRoutes, RestartServer, rowVars
<1>3. NoSerial \in Given
  BY DEF Given
<1>4. CASE FetchAssigned(n)
  <2>1. CASE standing[n] = "active" /\ Enables(n)
    <3> DEFINE new == [server[n] EXCEPT !.pc = "assigned", !.current = TRUE]
    <3>1. server' = [server EXCEPT ![n] = new]
      BY <1>1, <1>4, <2>1 DEF FetchAssigned
    <3>2. /\ new \in Runtimes /\ new.held = server[n].held /\ new.disk = server[n].disk
          /\ new.pc = "assigned"
      BY <1>1 DEF Runtimes
    <3> HIDE DEF new
    <3>3. HoldsItsOwn(n, new) /\ PassAssigned(n, new)
      BY <1>1, <2>1, <3>2 DEF HoldsItsOwn, PassAssigned
    <3> QED
      BY <1>2, <3>1, <3>2, <3>3, ServerKeeps
  <2>2. CASE ~(standing[n] = "active" /\ Enables(n))
    <3> DEFINE left == IF server[n].held = NoSerial THEN server[n].disk ELSE NoSerial
               new == [server[n] EXCEPT !.held = NoSerial, !.route = NoSerial, !.current = TRUE,
                                        !.disk = left]
    <3>1. server' = [server EXCEPT ![n] = new] /\ server[n].pc = "idle"
      <4>1. server[n].pc = "idle"
        BY <1>4 DEF FetchAssigned, SvcAt
      <4> DEFINE kept == [server[n] EXCEPT !.pc = "assigned", !.current = TRUE]
      <4>2. server' = [server EXCEPT ![n] = IF standing[n] = "active" /\ Enables(n) THEN kept ELSE new]
        BY <1>1, <1>4 DEF FetchAssigned
      <4> HIDE DEF kept, new
      <4> QED
        BY <2>2, <4>1, <4>2
    <3>2. left \in Given /\ (left = NoSerial \/ left = server[n].disk)
      BY <1>1, <1>3 DEF Runtimes
    <3> HIDE DEF left
    <3>3. /\ new \in Runtimes /\ new.held = NoSerial /\ new.disk = left /\ new.route = NoSerial
          /\ new.pc = server[n].pc
      BY <1>1, <1>3, <3>2 DEF Runtimes
    <3> HIDE DEF new
    <3>4. HoldsItsOwn(n, new) /\ PassAssigned(n, new)
      BY <1>1, <3>1, <3>2, <3>3 DEF HoldsItsOwn, PassAssigned
    <3> QED
      BY <1>2, <2>2, <3>1, <3>2, <3>3, <3>4, ServerKeeps
  <2> QED
    BY <2>1, <2>2
<1>5. CASE FetchFails(n)
  <2> DEFINE route == IF server[n].route # NoSerial /\ leaf[server[n].route].left = 0
                      THEN NoSerial ELSE server[n].route
             new == [server[n] EXCEPT !.route = route]
  <2>1. server' = [server EXCEPT ![n] = new] /\ server[n].pc = "idle"
    BY <1>1, <1>5 DEF FetchFails, SvcAt
  <2>2. route \in Given /\ (route = NoSerial \/ route = server[n].route)
    BY <1>1, <1>3 DEF Runtimes
  <2> HIDE DEF route
  <2>3. /\ new \in Runtimes /\ new.held = server[n].held /\ new.disk = server[n].disk
        /\ new.pc = server[n].pc /\ new.route = route /\ new.current = server[n].current
    BY <1>1, <2>2 DEF Runtimes
  <2> HIDE DEF new
  <2>4. HoldsItsOwn(n, new) /\ PassAssigned(n, new)
    BY <1>1, <2>1, <2>2, <2>3 DEF HoldsItsOwn, PassAssigned
  <2> QED
    BY <1>2, <2>1, <2>3, <2>4, ServerKeeps
<1>6. CASE EnsureCertificate(n)
  <2> DEFINE pc == IF RenewalDue(LoadHeld(n)) /\ standing[n] = "active" /\ Enables(n)
                   THEN "issuing" ELSE "ready"
             new == [server[n] EXCEPT !.held = LoadHeld(n), !.pc = pc]
  <2>1. server' = [server EXCEPT ![n] = new] /\ server[n].pc = "assigned"
    BY <1>1, <1>6 DEF EnsureCertificate, SvcAt
  <2>2. pc \in {"issuing", "ready"}
    OBVIOUS
  <2>3. LoadHeld(n) \in Given /\ (LoadHeld(n) # NoSerial => LoadHeld(n) = server[n].disk)
    BY <1>1 DEF LoadHeld, Runtimes, HoldsItsOwn
  <2> HIDE DEF pc
  <2>4. /\ new \in Runtimes /\ new.held = LoadHeld(n) /\ new.disk = server[n].disk
        /\ new.pc = pc /\ new.current = server[n].current
    BY <1>1, <2>2, <2>3 DEF Runtimes
  <2> HIDE DEF new
  <2>5. HoldsItsOwn(n, new) /\ PassAssigned(n, new)
    BY <1>1, <2>1, <2>2, <2>3, <2>4 DEF HoldsItsOwn, PassAssigned
  <2> QED
    BY <1>2, <2>1, <2>4, <2>5, ServerKeeps
<1>7. CASE ServeRoutes(n)
  <2>1. PICK healthy \in BOOLEAN : server' = [server EXCEPT ![n] =
            LET k == IF healthy /\ @.held # NoSerial /\ leaf[@.held].left > 0 THEN @.held ELSE NoSerial
            IN [@ EXCEPT !.route = k, !.says = healthy /\ k # NoSerial, !.pc = "report", !.lag = 0]]
    BY <1>7 DEF ServeRoutes
  <2> DEFINE k == IF healthy /\ server[n].held # NoSerial /\ leaf[server[n].held].left > 0
                  THEN server[n].held ELSE NoSerial
             ok == healthy /\ k # NoSerial
             new == [server[n] EXCEPT !.route = k, !.says = ok, !.pc = "report", !.lag = 0]
  <2>2. server' = [server EXCEPT ![n] = new] /\ server[n].pc = "ready"
    BY <1>1, <1>7, <2>1 DEF ServeRoutes, SvcAt
  <2>3. k \in Given /\ (k = NoSerial \/ k = server[n].held)
    BY <1>1, <1>3 DEF Runtimes
  <2>4. ok \in BOOLEAN
    OBVIOUS
  <2> HIDE DEF k, ok
  <2>5. /\ new \in Runtimes /\ new.held = server[n].held /\ new.disk = server[n].disk
        /\ new.pc = "report" /\ new.route = k /\ new.current = server[n].current
    BY <1>1, <2>3, <2>4 DEF Runtimes
  <2> HIDE DEF new
  <2>6. HoldsItsOwn(n, new) /\ PassAssigned(n, new)
    BY <1>1, <2>2, <2>3, <2>5 DEF HoldsItsOwn, PassAssigned
  <2> QED
    BY <1>2, <2>2, <2>5, <2>6, ServerKeeps
<1>8. CASE RestartServer(n)
  <2> DEFINE new == [NotServing EXCEPT !.disk = server[n].disk]
  <2>1. server' = [server EXCEPT ![n] = new]
    BY <1>8 DEF RestartServer
  <2>2. /\ new \in Runtimes /\ new.held = NoSerial /\ new.disk = server[n].disk /\ new.pc = "idle"
        /\ ~new.current
    BY <1>1, <1>3 DEF Runtimes, NotServing
  <2> HIDE DEF new
  <2>3. HoldsItsOwn(n, new) /\ PassAssigned(n, new)
    BY <1>1, <2>2 DEF HoldsItsOwn, PassAssigned
  <2> QED
    BY <1>2, <2>1, <2>2, <2>3, ServerKeeps
<1> QED
  BY <1>4, <1>5, <1>6, <1>7, <1>8

(* An edit wakes everyone: what is left to show is what it leaves stored.  *)
LEMMA BumpKeeps ==
  ASSUME SvcIInv, ServiceBump, svcDeadline' \in Nat,
         svc' \in [on : {"none", "yes", "no"}, target : Nodes],
         svcHealth' = Unreported \/ (svcHealth' = svcHealth /\ (svc' = svc \/ svcHealth.node = "none")),
         standing' \in [Servers -> {"active", "suspended", "revoked"}],
         leaf' = leaf \/ \E nodes : leaf' = RevokedOn(nodes),
         \A n \in Servers : standing'[n] = standing[n] \/ standing'[n] = "revoked"
           \/ (standing'[n] = "suspended" /\ leaf' = RevokedOn({n}))
           \/ (standing[n] = "suspended" /\ leaf' = leaf)
  PROVE  SvcIInv'
<1>1. /\ SvcType /\ CertsHeld /\ HealthTraced /\ server \in [Servers -> Runtimes]
      /\ resolver \in [record : Nodes, current : BOOLEAN] /\ leaf \in [Serials -> Leaves]
  BY DEF SvcIInv, SvcType
<1>2. resolver' \in [record : Nodes, current : BOOLEAN] /\ ~resolver'.current
  BY <1>1 DEF ServiceBump
<1>3. ASSUME NEW n \in Servers
      PROVE  /\ server'[n] \in Runtimes /\ server'[n].held = server[n].held
             /\ server'[n].disk = server[n].disk /\ server'[n].route = server[n].route
             /\ server'[n].pc = server[n].pc /\ ~server'[n].current
  <2>1. server'[n] = [server[n] EXCEPT !.current = FALSE] /\ server[n] \in Runtimes
    BY <1>1 DEF ServiceBump
  <2> QED
    BY <2>1 DEF Runtimes
<1>4. server' \in [Servers -> Runtimes]
  <2>1. server' = [n \in Servers |-> server'[n]]
    BY DEF ServiceBump
  <2> QED
    BY <1>3, <2>1
<1>5. /\ leaf' \in [Serials -> Leaves]
      /\ \A k \in Serials :
           (k = svcHealth.serial \/ \E n \in Servers : k = server[n].disk) =>
             /\ leaf'[k].node = leaf[k].node /\ leaf'[k].left = leaf[k].left
             /\ leaf[k].revoked => leaf'[k].revoked
  BY <1>1, RevokedCerts
<1>6. Unreported \in [node : Nodes, ok : BOOLEAN, age : Nat, serial : Given]
  BY DEF Unreported, Nodes, Given
<1>7. svcHealth' \in [node : Nodes, ok : BOOLEAN, age : Nat, serial : Given]
  BY <1>1, <1>6 DEF SvcType
<1>8. SvcType'
  BY <1>2, <1>4, <1>5, <1>7 DEF SvcType
<1>9. CertsHeld'
  <2> SUFFICES ASSUME NEW n \in Servers
               PROVE  /\ server'[n].held # NoSerial => server'[n].held = server'[n].disk
                      /\ server'[n].disk # NoSerial => leaf'[server'[n].disk].node = n
                      /\ server'[n].pc = "report" => server'[n].route \in {server'[n].held, NoSerial}
    BY DEF CertsHeld, HoldsItsOwn
  <2>1. /\ server[n].held # NoSerial => server[n].held = server[n].disk
        /\ server[n].disk # NoSerial => leaf[server[n].disk].node = n /\ server[n].disk \in Serials
        /\ server[n].pc = "report" => server[n].route \in {server[n].held, NoSerial}
    BY <1>1 DEF CertsHeld, HoldsItsOwn, Runtimes, Given
  <2> QED
    BY <1>3, <1>5, <2>1
<1>10. HealthTraced'
  <2>1. CASE svcHealth' = Unreported
    BY <2>1 DEF HealthTraced, Unreported
  <2>2. CASE svcHealth' = svcHealth /\ (svc' = svc \/ svcHealth.node = "none")
    <3> DEFINE k == svcHealth.serial
               n == svcHealth.node
    <3>1. n # "none" => svc'.on = "yes" /\ svc'.target = n
      BY <1>1, <2>2 DEF HealthTraced
    <3>2. ASSUME k # NoSerial
          PROVE  /\ n # "none" /\ leaf'[k].node = n
                 /\ standing'[n] = "suspended" => leaf'[k].revoked
                 /\ standing'[n] = "active" /\ ~leaf'[k].revoked =>
                      server'[n].disk # NoSerial /\ leaf'[k].left <= leaf'[server'[n].disk].left
      <4>1. /\ k \in Serials /\ n \in Servers /\ n # "none" /\ leaf[k].node = n
            /\ standing[n] = "suspended" => leaf[k].revoked
            /\ standing[n] = "active" /\ ~leaf[k].revoked =>
                 server[n].disk # NoSerial /\ leaf[k].left <= leaf[server[n].disk].left
        BY <1>1, <3>2 DEF HealthTraced, SvcType, Nodes, Given
      <4>2. /\ leaf'[k].node = leaf[k].node /\ leaf'[k].left = leaf[k].left
            /\ leaf[k].revoked => leaf'[k].revoked
            /\ leaf' = RevokedOn({n}) => leaf'[k].revoked
        BY <1>1, <1>5, <4>1, RevokedCerts
      <4>3. server[n].disk # NoSerial => leaf'[server[n].disk].left = leaf[server[n].disk].left
        BY <1>1, <1>5, <4>1 DEF Runtimes, Given
      <4>4. standing'[n] = "suspended" => leaf'[k].revoked
        BY <4>1, <4>2
      <4>5. standing'[n] = "active" /\ ~leaf'[k].revoked => standing[n] = "active"
        BY <4>1, <4>2
      <4> QED
        BY <1>3, <4>1, <4>2, <4>3, <4>4, <4>5
    <3> QED
      BY <2>2, <3>1, <3>2 DEF HealthTraced
  <2> QED
    BY <2>1, <2>2
<1>11. PassesAssigned'
  BY <1>3 DEF PassesAssigned, PassAssigned
<1>12. AnswerStands'
  BY <1>2 DEF AnswerStands
<1> QED
  BY <1>8, <1>9, <1>10, <1>11, <1>12 DEF SvcIInv

LEMMA EditsKeep ==
  ASSUME SvcIInv,
         \/ DeleteService \/ RecordsLapse
         \/ \E n \in Servers : \/ CreateService(n) \/ UpdateService(n, "yes") \/ UpdateService(n, "no")
                               \/ SuspendServer(n) \/ ResumeServer(n) \/ RevokeServer(n)
  PROVE  SvcIInv'
<1>1. /\ SvcType /\ svc \in [on : {"none", "yes", "no"}, target : Nodes] /\ svcDeadline \in Nat
      /\ standing \in [Servers -> {"active", "suspended", "revoked"}] /\ HealthTraced
  BY DEF SvcIInv, SvcType
<1>2. NeverDue \in Nat
  BY ServicesAssumption DEF NeverDue
<1>3. ASSUME NEW n \in Servers, CreateService(n)
      PROVE  SvcIInv'
  <2>1. /\ ServiceBump /\ UNCHANGED <<svcDeadline, leaf, standing>> /\ svcHealth' = Unreported
        /\ svc' = [on |-> "yes", target |-> n]
    BY <1>3 DEF CreateService, SvcEdited
  <2>2. svc' \in [on : {"none", "yes", "no"}, target : Nodes]
    BY <2>1 DEF Nodes
  <2> QED
    BY <1>1, <2>1, <2>2, BumpKeeps
<1>4. ASSUME NEW n \in Servers, NEW on \in {"yes", "no"}, UpdateService(n, on)
      PROVE  SvcIInv'
  <2>1. /\ ServiceBump /\ UNCHANGED <<svcDeadline, standing>> /\ svc' = [on |-> on, target |-> n]
    BY <1>4 DEF UpdateService, SvcEdited
  <2>2. svc' \in [on : {"none", "yes", "no"}, target : Nodes]
    BY <2>1 DEF Nodes
  <2>3. CASE n # svc.target \/ on = "no"
    <3>1. svcHealth' = Unreported /\ leaf' = RevokedOn(Servers)
      BY <1>4, <2>3 DEF UpdateService
    <3> QED
      BY <1>1, <2>1, <2>2, <3>1, BumpKeeps
  <2>4. CASE n = svc.target /\ on = "yes"
    <3>1. UNCHANGED <<svcHealth, leaf>>
      BY <1>4, <2>4 DEF UpdateService
    <3>2. CASE svc.on = "yes"
      <4>1. svc' = svc
        BY <1>1, <2>1, <2>4, <3>2
      <4> QED
        BY <1>1, <2>1, <2>2, <3>1, <4>1, BumpKeeps
    <3>3. CASE svc.on # "yes"
      <4>1. svcHealth.node = "none"
        BY <1>1, <3>3 DEF HealthTraced
      <4> QED
        BY <1>1, <2>1, <2>2, <3>1, <4>1, BumpKeeps
    <3> QED
      BY <3>2, <3>3
  <2> QED
    BY <1>4, <2>3, <2>4
<1>5. CASE DeleteService
  <2>1. /\ ServiceBump /\ UNCHANGED <<svcDeadline, standing>> /\ svcHealth' = Unreported
        /\ svc' = [on |-> "none", target |-> "none"] /\ leaf' = RevokedOn(Servers)
    BY <1>5 DEF DeleteService, SvcEdited
  <2>2. svc' \in [on : {"none", "yes", "no"}, target : Nodes]
    BY <2>1 DEF Nodes
  <2> QED
    BY <1>1, <2>1, <2>2, BumpKeeps
<1>6. CASE RecordsLapse
  <2>1. ServiceBump /\ UNCHANGED <<svc, svcHealth, leaf, standing>> /\ svcDeadline' = NeverDue
    BY <1>6 DEF RecordsLapse
  <2> QED
    BY <1>1, <1>2, <2>1, BumpKeeps
<1>7. ASSUME NEW n \in Servers, SuspendServer(n)
      PROVE  SvcIInv'
  <2>1. /\ ServiceBump /\ UNCHANGED <<svc, svcHealth, svcDeadline>> /\ leaf' = RevokedOn({n})
        /\ standing' = [standing EXCEPT ![n] = "suspended"]
    BY <1>7 DEF SuspendServer, SvcEdited
  <2>2. /\ standing' \in [Servers -> {"active", "suspended", "revoked"}] /\ standing'[n] = "suspended"
        /\ \A m \in Servers \ {n} : standing'[m] = standing[m]
    BY <1>1, <2>1
  <2> QED
    BY <1>1, <2>1, <2>2, BumpKeeps
<1>8. ASSUME NEW n \in Servers, ResumeServer(n) \/ RevokeServer(n)
      PROVE  SvcIInv'
  <2>1. ServiceBump /\ UNCHANGED <<svc, svcHealth, svcDeadline, leaf>>
    BY <1>8 DEF ResumeServer, RevokeServer, SvcEdited
  <2>2. /\ standing' \in [Servers -> {"active", "suspended", "revoked"}]
        /\ standing[n] = "suspended" \/ standing'[n] = "revoked"
        /\ \A m \in Servers \ {n} : standing'[m] = standing[m]
    BY <1>1, <1>8 DEF ResumeServer, RevokeServer
  <2> QED
    BY <1>1, <2>1, <2>2, BumpKeeps
<1> QED
  BY <1>3, <1>4, <1>5, <1>6, <1>7, <1>8

LEMMA IssueKeeps ==
  ASSUME SvcIInv, NEW n \in Servers, IssueCertificate(n)
  PROVE  SvcIInv'
<1>1. /\ SvcType /\ CertsHeld /\ HealthTraced /\ PassesAssigned /\ AnswerStands
      /\ server \in [Servers -> Runtimes] /\ server[n] \in Runtimes /\ leaf \in [Serials -> Leaves]
      /\ UNCHANGED <<svc, svcHealth, standing, resolver, svcDeadline>> /\ server[n].pc = "issuing"
  BY DEF SvcIInv, SvcType, IssueCertificate, rowVars, SvcAt
<1>2. PICK k \in Serials \ Referred :
        /\ leaf' = [Kept(leaf) EXCEPT ![k] = [node |-> n, left |-> LEAF_LIFETIME_SECS, revoked |-> FALSE]]
        /\ \/ server' = [server EXCEPT ![n] = [@ EXCEPT !.pc = "ready", !.held = k, !.disk = k]]
           \/ server' = [server EXCEPT ![n].pc = "ready"]
  BY DEF IssueCertificate
<1> DEFINE cert == [node |-> n, left |-> LEAF_LIFETIME_SECS, revoked |-> FALSE]
<1>3. cert \in Leaves /\ cert.node = n /\ cert.left = LEAF_LIFETIME_SECS /\ k \in Serials
  BY <1>2, ServicesAssumption DEF Leaves, Nodes
<1>4. leaf' = [Kept(leaf) EXCEPT ![k] = cert]
  BY <1>2
<1> HIDE DEF cert
<1>5. /\ Kept(leaf) \in [Serials -> Leaves]
      /\ \A j \in Serials : j = svcHealth.serial => Kept(leaf)[j] = leaf[j]
      /\ \A m \in Servers : \A j \in Serials :
           j \in {server[m].held, server[m].route, server[m].disk} => Kept(leaf)[j] = leaf[j]
  BY <1>1, KeptCerts
<1>6. k # svcHealth.serial /\ \A m \in Servers : k # server[m].disk
  BY <1>2 DEF Referred
<1>7. /\ leaf' \in [Serials -> Leaves] /\ leaf'[k] = cert
      /\ svcHealth.serial \in Serials => leaf'[svcHealth.serial] = leaf[svcHealth.serial]
      /\ \A m \in Servers : server[m].disk \in Serials => leaf'[server[m].disk] = leaf[server[m].disk]
  BY <1>3, <1>4, <1>5, <1>6
<1>8. PICK new \in Runtimes :
        /\ server' = [server EXCEPT ![n] = new] /\ new.pc = "ready" /\ new.current = server[n].current
        /\ \/ new.held = k /\ new.disk = k
           \/ new.held = server[n].held /\ new.disk = server[n].disk
  <2>1. CASE server' = [server EXCEPT ![n] = [@ EXCEPT !.pc = "ready", !.held = k, !.disk = k]]
    <3> DEFINE new == [server[n] EXCEPT !.pc = "ready", !.held = k, !.disk = k]
    <3>1. server' = [server EXCEPT ![n] = new]
      BY <1>1, <2>1
    <3>2. new \in Runtimes /\ new.pc = "ready" /\ new.current = server[n].current
          /\ new.held = k /\ new.disk = k
      BY <1>1, <1>3 DEF Runtimes, Given
    <3> HIDE DEF new
    <3> QED
      BY <3>1, <3>2
  <2>2. CASE server' = [server EXCEPT ![n].pc = "ready"]
    <3> DEFINE new == [server[n] EXCEPT !.pc = "ready"]
    <3>1. server' = [server EXCEPT ![n] = new]
      BY <1>1, <2>2
    <3>2. new \in Runtimes /\ new.pc = "ready" /\ new.current = server[n].current
          /\ new.held = server[n].held /\ new.disk = server[n].disk
      BY <1>1 DEF Runtimes
    <3> HIDE DEF new
    <3> QED
      BY <3>1, <3>2
  <2> QED
    BY <1>2, <2>1, <2>2
<1>9. /\ server' \in [Servers -> Runtimes] /\ server'[n] = new
      /\ \A m \in Servers \ {n} : server'[m] = server[m]
  BY <1>1, <1>8
<1>10. SvcType'
  BY <1>1, <1>7, <1>9 DEF SvcType
<1>11. CertsHeld'
  <2> SUFFICES ASSUME NEW m \in Servers
               PROVE  /\ server'[m].held # NoSerial => server'[m].held = server'[m].disk
                      /\ server'[m].disk # NoSerial => leaf'[server'[m].disk].node = m
                      /\ server'[m].pc = "report" => server'[m].route \in {server'[m].held, NoSerial}
    BY DEF CertsHeld, HoldsItsOwn
  <2>1. /\ server[m].held # NoSerial => server[m].held = server[m].disk
        /\ server[m].disk # NoSerial => /\ server[m].disk \in Serials
                                        /\ leaf'[server[m].disk].node = m
        /\ server[m].pc = "report" => server[m].route \in {server[m].held, NoSerial}
    BY <1>1, <1>7 DEF CertsHeld, HoldsItsOwn, Runtimes, Given
  <2>2. CASE m = n
    BY <1>3, <1>7, <1>8, <1>9, <2>1, <2>2
  <2>3. CASE m # n
    BY <1>9, <2>1, <2>3
  <2> QED
    BY <2>2, <2>3
<1>12. HealthTraced'
  <2> DEFINE j == svcHealth.serial
             m == svcHealth.node
  <2>1. ASSUME j # NoSerial
        PROVE  /\ m # "none" /\ leaf'[j].node = m
               /\ standing[m] = "suspended" => leaf'[j].revoked
               /\ standing[m] = "active" /\ ~leaf'[j].revoked =>
                    server'[m].disk # NoSerial /\ leaf'[j].left <= leaf'[server'[m].disk].left
    <3>1. /\ j \in Serials /\ m \in Servers /\ m # "none" /\ leaf[j].node = m
          /\ standing[m] = "suspended" => leaf[j].revoked
          /\ standing[m] = "active" /\ ~leaf[j].revoked =>
               server[m].disk # NoSerial /\ leaf[j].left <= leaf[server[m].disk].left
      BY <1>1, <2>1 DEF HealthTraced, SvcType, Nodes, Given
    <3>2. leaf'[j] = leaf[j] /\ leaf[j].left \in 0 .. LEAF_LIFETIME_SECS
      BY <1>1, <1>7, <3>1 DEF Leaves
    <3>3. server[m].disk # NoSerial => leaf'[server[m].disk] = leaf[server[m].disk]
      BY <1>1, <1>7, <3>1 DEF Runtimes, Given
    <3>4. CASE server'[m].disk = server[m].disk
      BY <3>1, <3>2, <3>3, <3>4
    <3>5. CASE server'[m].disk = k
      <4>1. k # NoSerial
        BY <1>3, ServicesAssumption DEF NoSerial
      <4>2. leaf'[j].left <= LEAF_LIFETIME_SECS
        BY <3>2
      <4> QED
        BY <1>3, <1>7, <3>1, <3>2, <3>5, <4>1, <4>2
    <3> QED
      BY <1>8, <1>9, <3>1, <3>4, <3>5
  <2>2. m # "none" => svc.on = "yes" /\ svc.target = m
    BY <1>1 DEF HealthTraced
  <2> QED
    BY <1>1, <2>1, <2>2 DEF HealthTraced
<1>13. PassesAssigned'
  <2>1. server[n].current => Enables(n) /\ standing[n] = "active"
    BY <1>1 DEF PassesAssigned, PassAssigned
  <2> QED
    BY <1>1, <1>8, <1>9, <2>1 DEF PassesAssigned, PassAssigned, Enables
<1>14. AnswerStands'
  <2>1. svcHealth.serial # NoSerial => leaf'[svcHealth.serial] = leaf[svcHealth.serial]
    BY <1>1, <1>7 DEF SvcType, Given
  <2> QED
    BY <1>1, <2>1, AnswerKept
<1> QED
  BY <1>10, <1>11, <1>12, <1>13, <1>14 DEF SvcIInv

(* report_health wakes the client exactly when its answer changes, and an  *)
(* answer that it leaves standing is good for no less long than before.    *)
LEMMA HealthReportKeeps ==
  ASSUME SvcIInv, NEW n \in Servers, ReportHealth(n)
  PROVE  SvcIInv'
<1> DEFINE s == server[n]
           new == [s EXCEPT !.pc = "idle", !.says = FALSE, !.lag = 0]
<1>1. /\ SvcType /\ CertsHeld /\ HealthTraced /\ PassesAssigned /\ AnswerStands
      /\ server \in [Servers -> Runtimes] /\ s \in Runtimes /\ leaf \in [Serials -> Leaves]
      /\ UNCHANGED <<svc, leaf, standing, svcDeadline>> /\ s.pc = "report"
  BY DEF SvcIInv, SvcType, ReportHealth, SvcAt
<1>2. server' = [server EXCEPT ![n] = new]
  BY <1>1 DEF ReportHealth
<1>3. /\ new \in Runtimes /\ new.pc = "idle" /\ new.held = s.held /\ new.disk = s.disk
      /\ new.route = s.route /\ new.current = s.current
  BY <1>1 DEF Runtimes
<1> HIDE DEF new
<1>4. HoldsItsOwn(n, s) /\ HoldsItsOwn(n, new) /\ PassAssigned(n, new)
  BY <1>1, <1>3 DEF CertsHeld, HoldsItsOwn, PassesAssigned, PassAssigned
<1>5. CASE UNCHANGED <<svcHealth, resolver>>
  BY <1>1, <1>2, <1>3, <1>4, <1>5, ServerKeeps
<1>6. CASE /\ standing[n] = "active" /\ Enables(n)
           /\ svcHealth' = [node |-> n, ok |-> s.says, age |-> s.lag, serial |-> s.route]
           /\ resolver' = [resolver EXCEPT !.current = @ /\ ~HealthChanged(n)]
  <2>1. /\ svcHealth' \in [node : Nodes, ok : BOOLEAN, age : Nat, serial : Given]
        /\ svcHealth'.node = n /\ svcHealth'.ok = s.says /\ svcHealth'.age = 0
        /\ svcHealth'.serial = s.route /\ s.lag = 0
    BY <1>1, <1>6 DEF Runtimes, Nodes
  <2>2. /\ resolver' \in [record : Nodes, current : BOOLEAN] /\ resolver'.record = resolver.record
        /\ resolver'.current => resolver.current /\ ~HealthChanged(n)
    <3>1. resolver \in [record : Nodes, current : BOOLEAN]
      BY <1>1 DEF SvcType
    <3> DEFINE still == resolver.current /\ ~HealthChanged(n)
    <3>2. resolver' = [resolver EXCEPT !.current = still] /\ still \in BOOLEAN
      BY <1>6, <3>1
    <3>3. still => resolver.current /\ ~HealthChanged(n)
      OBVIOUS
    <3> HIDE DEF still
    <3> QED
      BY <3>1, <3>2, <3>3
  <2>3. /\ server' \in [Servers -> Runtimes] /\ server'[n] = new
        /\ \A m \in Servers \ {n} : server'[m] = server[m]
    BY <1>1, <1>2, <1>3
  <2>4. SvcType'
    BY <1>1, <2>1, <2>2, <2>3 DEF SvcType
  <2>5. CertsHeld' /\ PassesAssigned'
    BY <1>1, <1>4, <2>3 DEF CertsHeld, HoldsItsOwn, PassesAssigned, PassAssigned, Enables
  <2>6. s.route # NoSerial => /\ s.route = s.disk /\ leaf[s.route].node = n /\ s.route \in Serials
    BY <1>1, <1>4 DEF HoldsItsOwn, Runtimes, Given
  <2>7. HealthTraced'
    <3>1. svc'.on = "yes" /\ svc'.target = n /\ n # "none" /\ standing'[n] = "active"
      BY <1>1, <1>6, ServicesAssumption DEF Enables
    <3>2. s.route # NoSerial => leaf[s.route].left <= leaf[s.route].left
      BY <1>1, <2>6 DEF Leaves
    <3> QED
      BY <1>1, <1>3, <2>1, <2>3, <2>6, <3>1, <3>2 DEF HealthTraced
  <2>8. AnswerStands'
    <3> SUFFICES ASSUME resolver'.current, svcDeadline # 0
                 PROVE  /\ resolver'.record = IF Publishes' /\ standing'[svc'.target] = "active"
                                              THEN svc'.target ELSE "none"
                        /\ Publishes' => svcDeadline' <= PublishUntil'
      BY <1>1 DEF AnswerStands
    <3>1. /\ WasPublished(n) <=> NowPublished(n)
          /\ resolver.record = IF Publishes /\ standing[svc.target] = "active" THEN svc.target ELSE "none"
          /\ Publishes => svcDeadline <= PublishUntil
      <4>1. WasPublished(n) = NowPublished(n)
        BY <2>2 DEF HealthChanged
      <4> QED
        BY <1>1, <2>2, <4>1 DEF AnswerStands
    <3>2. Publishes <=> WasPublished(n)
      BY <1>1, <1>6, <2>1 DEF Publishes, WasPublished, FreshFor, Enables
    <3>3. Publishes' <=> NowPublished(n)
      <4>1. 0 < HEALTH_FRESH_SECS + 0
        BY ServicesAssumption
      <4>2. FreshFor(svc.target, 0)'
        BY <1>1, <1>6, <2>1, <4>1 DEF FreshFor, Enables
      <4>3. svc'.on = "yes" /\ svc'.target = n
        BY <1>1, <1>6 DEF Enables
      <4> QED
        BY <1>1, <2>1, <4>2, <4>3 DEF Publishes, NowPublished, LiveCertificate
    <3>4. ASSUME Publishes'
          PROVE  svcDeadline <= PublishUntil'
      <4>1. Publishes /\ svcDeadline <= PublishUntil /\ s.route # NoSerial
        BY <3>1, <3>2, <3>3, <3>4 DEF NowPublished, LiveCertificate
      <4> DEFINE k == svcHealth.serial
      <4>2. /\ k \in Serials /\ svcHealth.node = n /\ ~leaf[k].revoked /\ leaf[k].left \in Nat
            /\ leaf[s.route].left \in Nat /\ svcHealth.age \in Nat
        BY <1>1, <1>6, <2>6, <4>1 DEF Publishes, FreshFor, LiveCertificate, Enables, SvcType, Given,
                                      Leaves
      <4>3. leaf[k].left <= leaf[s.route].left
        <5>1. k # NoSerial
          BY <4>1 DEF Publishes, LiveCertificate
        <5> QED
          BY <1>1, <1>6, <2>6, <4>1, <4>2, <5>1 DEF HealthTraced
      <4>4. /\ PublishUntil <= leaf[k].left /\ PublishUntil <= HEALTH_FRESH_SECS - svcHealth.age
            /\ PublishUntil \in Int
        BY <4>2, UntilFirst DEF PublishUntil
      <4>5. PublishUntil' \in {leaf[s.route].left, HEALTH_FRESH_SECS}
        <5>1. PublishUntil' = Min({leaf[s.route].left, HEALTH_FRESH_SECS - 0})
          BY <1>1, <2>1 DEF PublishUntil
        <5>2. Min({leaf[s.route].left, HEALTH_FRESH_SECS - 0}) \in {leaf[s.route].left, HEALTH_FRESH_SECS - 0}
          BY <4>2, UntilFirst
        <5>3. HEALTH_FRESH_SECS - 0 = HEALTH_FRESH_SECS
          BY ServicesAssumption
        <5> QED
          BY <5>1, <5>2, <5>3
      <4>6. svcDeadline \in Nat
        BY <1>1 DEF SvcType
      <4> QED
        BY <4>1, <4>2, <4>3, <4>4, <4>5, <4>6, ServicesAssumption
    <3> QED
      BY <1>1, <2>2, <3>1, <3>2, <3>3, <3>4
  <2> QED
    BY <2>4, <2>5, <2>7, <2>8 DEF SvcIInv
<1> QED
  BY <1>5, <1>6 DEF ReportHealth

LEMMA CompileKeeps ==
  ASSUME SvcIInv, CompileRecords
  PROVE  SvcIInv'
<1>1. /\ SvcType /\ CertsHeld /\ HealthTraced /\ PassesAssigned
      /\ UNCHANGED <<svc, svcHealth, leaf, standing, server>>
      /\ resolver' = [current |-> TRUE, record |-> IF Publishes /\ standing[svc.target] = "active"
                                                   THEN svc.target ELSE "none"]
      /\ svcDeadline' = IF Publishes THEN Min({svcDeadline, PublishUntil}) ELSE svcDeadline
  BY DEF SvcIInv, CompileRecords
<1>2. /\ resolver' \in [record : Nodes, current : BOOLEAN]
      /\ resolver'.record = IF Publishes /\ standing[svc.target] = "active" THEN svc.target ELSE "none"
  <2> DEFINE rec == IF Publishes /\ standing[svc.target] = "active" THEN svc.target ELSE "none"
  <2>1. rec \in Nodes
    BY <1>1 DEF SvcType, Nodes
  <2>2. resolver' = [current |-> TRUE, record |-> rec]
    BY <1>1
  <2> HIDE DEF rec
  <2>3. resolver' \in [record : Nodes, current : BOOLEAN] /\ resolver'.record = rec
    BY <2>1, <2>2
  <2> QED
    BY <2>3 DEF rec
<1>3. Publishes => /\ svcDeadline' \in Nat /\ svcDeadline' <= PublishUntil
  <2> SUFFICES ASSUME Publishes
               PROVE  svcDeadline' \in Nat /\ svcDeadline' <= PublishUntil
    OBVIOUS
  <2>1. /\ leaf[svcHealth.serial].left \in Nat /\ svcHealth.age \in Nat /\ svcDeadline \in Nat
        /\ leaf[svcHealth.serial].left > 0 /\ svcHealth.age < HEALTH_FRESH_SECS
    BY <1>1, ServicesAssumption DEF SvcType, Publishes, LiveCertificate, FreshFor, Given, Leaves
  <2>2. PublishUntil \in {leaf[svcHealth.serial].left, HEALTH_FRESH_SECS - svcHealth.age}
    BY <2>1, UntilFirst DEF PublishUntil
  <2>3. PublishUntil \in Nat
    BY <2>1, <2>2, ServicesAssumption
  <2>4. svcDeadline \in Int /\ PublishUntil \in Int
    BY <2>1, <2>3
  <2>5. /\ Min({svcDeadline, PublishUntil}) \in {svcDeadline, PublishUntil}
        /\ Min({svcDeadline, PublishUntil}) <= PublishUntil
    BY <2>4, MinOfTwo
  <2> QED
    BY <1>1, <2>1, <2>3, <2>5
<1>4. SvcType'
  BY <1>1, <1>2, <1>3 DEF SvcType
<1>5. CertsHeld' /\ PassesAssigned'
  BY <1>1 DEF CertsHeld, HoldsItsOwn, PassesAssigned, PassAssigned, Enables
<1>6. HealthTraced'
  BY <1>1 DEF HealthTraced
<1>7. AnswerStands'
  <2>1. (Publishes' <=> Publishes) /\ PublishUntil' = PublishUntil
    BY <1>1 DEF Publishes, FreshFor, LiveCertificate, PublishUntil
  <2> QED
    BY <1>1, <1>2, <1>3, <2>1 DEF AnswerStands
<1> QED
  BY <1>4, <1>5, <1>6, <1>7 DEF SvcIInv

(* A second shortens everything an answer rests on, and its deadline.      *)
LEMMA ServiceSecondKeeps ==
  ASSUME SvcIInv, ServiceSecond, MaxLag = 0
  PROVE  SvcIInv'
<1>1. /\ SvcType /\ CertsHeld /\ HealthTraced /\ PassesAssigned /\ AnswerStands
      /\ server \in [Servers -> Runtimes] /\ leaf \in [Serials -> Leaves] /\ svcDeadline \in Nat
      /\ svcHealth \in [node : Nodes, ok : BOOLEAN, age : Nat, serial : Given]
  BY DEF SvcIInv, SvcType
<1>2. /\ resolver.current /\ svcDeadline # 0 /\ UNCHANGED <<svc, standing, resolver>>
      /\ svcDeadline' = IF svcDeadline = NeverDue THEN NeverDue ELSE svcDeadline - 1
  BY DEF ServiceSecond
<1>3. ASSUME NEW n \in Servers
      PROVE  /\ server[n].pc = "idle" /\ server'[n] \in Runtimes /\ server'[n].pc = "idle"
             /\ server'[n].held = server[n].held /\ server'[n].disk = server[n].disk
             /\ server'[n].route = server[n].route /\ server'[n].current = server[n].current
  <2>1. server[n] \in Runtimes
    BY <1>1
  <2>2. server[n].pc = "idle"
    BY <2>1 DEF ServiceSecond, SvcAt, Runtimes
  <2>3. server'[n] = [server[n] EXCEPT !.lag = 0]
    BY <2>1, <2>2 DEF ServiceSecond, SvcAt
  <2> QED
    BY <2>1, <2>2, <2>3 DEF Runtimes
<1>4. server' \in [Servers -> Runtimes]
  <2>1. server' = [n \in Servers |-> server'[n]]
    BY DEF ServiceSecond
  <2> QED
    BY <1>3, <2>1
<1>5. /\ svcHealth' \in [node : Nodes, ok : BOOLEAN, age : Nat, serial : Given]
      /\ svcHealth'.node = svcHealth.node /\ svcHealth'.ok = svcHealth.ok
      /\ svcHealth'.serial = svcHealth.serial
      /\ svcHealth'.age \in {svcHealth.age + 1, HEALTH_FRESH_SECS}
      /\ svcHealth'.age <= svcHealth.age + 1
  <2> DEFINE age == Min({svcHealth.age + 1, HEALTH_FRESH_SECS + MaxLag})
  <2>1. svcHealth' = [svcHealth EXCEPT !.age = age]
    BY <1>1 DEF ServiceSecond
  <2>2. svcHealth.age + 1 \in Int /\ HEALTH_FRESH_SECS + MaxLag = HEALTH_FRESH_SECS
        /\ HEALTH_FRESH_SECS + MaxLag \in Int /\ HEALTH_FRESH_SECS \in Nat /\ svcHealth.age + 1 \in Nat
    BY <1>1, ServicesAssumption
  <2>3. age \in {svcHealth.age + 1, HEALTH_FRESH_SECS + MaxLag} /\ age <= svcHealth.age + 1
    BY <2>2, MinOfTwo
  <2> HIDE DEF age
  <2>4. age \in Nat /\ age \in {svcHealth.age + 1, HEALTH_FRESH_SECS}
    BY <2>2, <2>3
  <2> QED
    BY <1>1, <2>1, <2>3, <2>4
<1> DEFINE f == [k \in Serials |-> [leaf[k] EXCEPT !.left = Down(@)]]
<1>6. ASSUME NEW k \in Serials
      PROVE  /\ f[k] \in Leaves /\ f[k].node = leaf[k].node /\ (f[k].revoked <=> leaf[k].revoked)
             /\ leaf[k].left \in Nat /\ f[k].left = Down(leaf[k].left)
  <2>1. leaf[k] \in Leaves
    BY <1>1
  <2>2. f[k] = [leaf[k] EXCEPT !.left = Down(leaf[k].left)]
    BY <2>1 DEF Leaves
  <2>3. Down(leaf[k].left) \in 0 .. LEAF_LIFETIME_SECS
    BY <2>1, ServicesAssumption DEF Down, Leaves
  <2> HIDE DEF f, Down
  <2> QED
    BY <2>1, <2>2, <2>3, ServicesAssumption DEF Leaves
<1>7. f \in [Serials -> Leaves] /\ leaf' = Kept(f)
  <2>1. f = [k \in Serials |-> f[k]] /\ leaf' = Kept(f)
    BY DEF ServiceSecond
  <2> HIDE DEF f
  <2> QED
    BY <1>6, <2>1
<1> HIDE DEF f
<1>8. /\ leaf' \in [Serials -> Leaves]
      /\ \A k \in Serials : k = svcHealth.serial => leaf'[k] = f[k]
      /\ \A n \in Servers : \A k \in Serials : k = server[n].disk => leaf'[k] = f[k]
  <2>1. /\ Kept(f) \in [Serials -> Leaves]
        /\ \A k \in Serials : k = svcHealth.serial => Kept(f)[k] = f[k]
        /\ \A n \in Servers : \A k \in Serials :
             k \in {server[n].held, server[n].route, server[n].disk} => Kept(f)[k] = f[k]
    BY <1>1, <1>7, KeptCerts
  <2> QED
    BY <1>7, <2>1
<1>9. SvcType'
  <2>1. svcDeadline' \in Nat
    BY <1>1, <1>2, ServicesAssumption DEF NeverDue
  <2> QED
    BY <1>1, <1>2, <1>4, <1>5, <1>8, <2>1 DEF SvcType
<1>10. CertsHeld'
  <2> SUFFICES ASSUME NEW n \in Servers
               PROVE  /\ server'[n].held # NoSerial => server'[n].held = server'[n].disk
                      /\ server'[n].disk # NoSerial => leaf'[server'[n].disk].node = n
                      /\ server'[n].pc = "report" => server'[n].route \in {server'[n].held, NoSerial}
    BY DEF CertsHeld, HoldsItsOwn
  <2>1. /\ server[n].held # NoSerial => server[n].held = server[n].disk
        /\ server[n].disk # NoSerial => leaf[server[n].disk].node = n /\ server[n].disk \in Serials
    BY <1>1 DEF CertsHeld, HoldsItsOwn, Runtimes, Given
  <2> QED
    BY <1>3, <1>6, <1>8, <2>1
<1>11. HealthTraced'
  <2> DEFINE k == svcHealth.serial
             n == svcHealth.node
  <2>1. n # "none" => svc.on = "yes" /\ svc.target = n
    BY <1>1 DEF HealthTraced
  <2>2. ASSUME k # NoSerial
        PROVE  /\ n # "none" /\ leaf'[k].node = n
               /\ standing[n] = "suspended" => leaf'[k].revoked
               /\ standing[n] = "active" /\ ~leaf'[k].revoked =>
                    server'[n].disk # NoSerial /\ leaf'[k].left <= leaf'[server'[n].disk].left
    <3>1. /\ k \in Serials /\ n \in Servers /\ n # "none" /\ leaf[k].node = n
          /\ standing[n] = "suspended" => leaf[k].revoked
          /\ standing[n] = "active" /\ ~leaf[k].revoked =>
               server[n].disk # NoSerial /\ leaf[k].left <= leaf[server[n].disk].left
      BY <1>1, <2>2 DEF HealthTraced, SvcType, Nodes, Given
    <3>2. /\ leaf'[k].node = n /\ (leaf'[k].revoked <=> leaf[k].revoked)
          /\ leaf[k].left \in Nat /\ leaf'[k].left = Down(leaf[k].left)
      BY <1>6, <1>8, <3>1
    <3> DEFINE d == server[n].disk
    <3>3. d # NoSerial => d \in Serials
      BY <1>1, <3>1 DEF Runtimes, Given
    <3>4. d # NoSerial => leaf[d].left \in Nat /\ leaf'[d].left = Down(leaf[d].left)
      BY <1>6, <1>8, <3>1, <3>3
    <3>5. server'[n].disk = d
      BY <1>3, <3>1
    <3> HIDE DEF d
    <3>6. d # NoSerial /\ leaf[k].left <= leaf[d].left => leaf'[k].left <= leaf'[d].left
      BY <3>2, <3>4 DEF Down
    <3> QED
      BY <3>1, <3>2, <3>5, <3>6 DEF d
  <2> QED
    BY <1>2, <1>5, <2>1, <2>2 DEF HealthTraced
<1>12. PassesAssigned'
  BY <1>1, <1>2, <1>3 DEF PassesAssigned, PassAssigned, Enables
<1>13. AnswerStands'
  <2> SUFFICES ASSUME svcDeadline' # 0
               PROVE  /\ resolver'.record = IF Publishes' /\ standing'[svc'.target] = "active"
                                            THEN svc'.target ELSE "none"
                      /\ Publishes' => svcDeadline' <= PublishUntil'
    BY DEF AnswerStands
  <2> DEFINE k == svcHealth.serial
  <2>1. /\ resolver.record = IF Publishes /\ standing[svc.target] = "active" THEN svc.target ELSE "none"
        /\ Publishes => svcDeadline <= PublishUntil
    BY <1>1, <1>2 DEF AnswerStands
  <2>2. k # NoSerial => /\ k \in Serials /\ leaf[k].left \in Nat /\ leaf'[k].left = Down(leaf[k].left)
                        /\ leaf'[k].node = leaf[k].node /\ (leaf'[k].revoked <=> leaf[k].revoked)
                        /\ leaf[k].left <= LEAF_LIFETIME_SECS
    <3>1. k # NoSerial => k \in Serials
      BY <1>1 DEF Given
    <3>2. k # NoSerial => leaf[k].left <= LEAF_LIFETIME_SECS
      BY <1>1, <3>1, ServicesAssumption DEF Leaves
    <3> QED
      BY <1>6, <1>8, <3>1, <3>2
  <2>3. svcHealth.age \in Nat /\ HEALTH_FRESH_SECS \in Nat /\ LEAF_LIFETIME_SECS \in Nat
    BY <1>1, ServicesAssumption
  <2>4. Publishes' => Publishes
    <3> SUFFICES ASSUME Publishes'
                 PROVE  Publishes
      OBVIOUS
    <3>1. /\ svc.on = "yes" /\ svcHealth.ok /\ svcHealth.node = svc.target
          /\ svcHealth'.age < HEALTH_FRESH_SECS + 0
          /\ k # NoSerial /\ leaf'[k].node = svc.target /\ ~leaf'[k].revoked /\ leaf'[k].left > 0
      BY <1>2, <1>5 DEF Publishes, FreshFor, LiveCertificate
    <3>2. svcHealth.age < HEALTH_FRESH_SECS + 0
      BY <1>5, <2>3, <3>1
    <3>3. leaf[k].left > 0
      BY <2>2, <3>1 DEF Down
    <3> QED
      BY <2>2, <3>1, <3>2, <3>3 DEF Publishes, FreshFor, LiveCertificate
  <2>5. ASSUME Publishes
        PROVE  Publishes' /\ svcDeadline' <= PublishUntil'
    <3>1. /\ svc.on = "yes" /\ svcHealth.ok /\ svcHealth.node = svc.target
          /\ k # NoSerial /\ leaf[k].node = svc.target /\ ~leaf[k].revoked /\ leaf[k].left > 0
          /\ svcDeadline <= PublishUntil
      BY <2>1, <2>5 DEF Publishes, FreshFor, LiveCertificate
    <3>2. /\ PublishUntil \in Int /\ PublishUntil <= leaf[k].left
          /\ PublishUntil <= HEALTH_FRESH_SECS - svcHealth.age
      BY <2>2, <2>3, <3>1, UntilFirst DEF PublishUntil
    <3>3. svcDeadline' = svcDeadline - 1 /\ svcDeadline >= 2
      BY <1>1, <1>2, <2>2, <2>3, <3>1, <3>2 DEF NeverDue
    <3>4. leaf'[k].left = leaf[k].left - 1 /\ leaf'[k].left > 0 /\ leaf'[k].left \in Nat
          /\ svcDeadline' <= leaf'[k].left
      BY <1>1, <2>2, <3>1, <3>2, <3>3 DEF Down
    <3>5. svcHealth'.age = svcHealth.age + 1 /\ svcHealth'.age < HEALTH_FRESH_SECS + 0
          /\ svcDeadline' <= HEALTH_FRESH_SECS - svcHealth'.age /\ svcHealth'.age \in Nat
      BY <1>1, <1>5, <2>3, <3>1, <3>2, <3>3
    <3>6. Publishes'
      BY <1>2, <1>5, <2>2, <3>1, <3>4, <3>5 DEF Publishes, FreshFor, LiveCertificate
    <3>7. PublishUntil' \in {leaf'[k].left, HEALTH_FRESH_SECS - svcHealth'.age}
      BY <1>5, <3>4, <3>5, UntilFirst DEF PublishUntil
    <3> QED
      BY <3>4, <3>5, <3>6, <3>7
  <2> QED
    BY <1>2, <2>1, <2>4, <2>5
<1> QED
  BY <1>9, <1>10, <1>11, <1>12, <1>13 DEF SvcIInv

LEMMA ServicesStart == ServicesInit => SvcIInv
<1> SUFFICES ASSUME ServicesInit
             PROVE  SvcIInv
  OBVIOUS
<1>1. /\ svcHealth = Unreported /\ leaf = [k \in Serials |-> Unused]
      /\ standing = [n \in Servers |-> "active"] /\ server = [n \in Servers |-> NotServing]
      /\ resolver = [record |-> "none", current |-> TRUE] /\ svcDeadline = NeverDue
  BY DEF ServicesInit
<1>2. svc \in [on : {"none", "yes", "no"}, target : Nodes]
  BY DEF ServicesInit, Nodes
<1>3. Unused \in Leaves /\ NotServing \in Runtimes
  BY ServicesAssumption DEF Unused, Leaves, Nodes, NotServing, Runtimes, Given
<1>4. /\ svcHealth \in [node : Nodes, ok : BOOLEAN, age : Nat, serial : Given]
      /\ svcHealth.node = "none" /\ ~svcHealth.ok /\ svcHealth.serial = NoSerial
  BY <1>1 DEF Unreported, Nodes, Given
<1>5. SvcType
  BY <1>1, <1>2, <1>3, <1>4, ServicesAssumption DEF SvcType, NeverDue, Nodes
<1>6. CertsHeld /\ PassesAssigned
  BY <1>1 DEF CertsHeld, HoldsItsOwn, PassesAssigned, PassAssigned, NotServing
<1>7. HealthTraced
  BY <1>4 DEF HealthTraced
<1>8. AnswerStands
  BY <1>1, <1>4 DEF AnswerStands, Publishes
<1> QED
  BY <1>5, <1>6, <1>7, <1>8 DEF SvcIInv

LEMMA ServicesInductive ==
  ASSUME SvcIInv, [ServicesNext]_serviceVars, MaxLag = 0
  PROVE  SvcIInv'
<1>1. CASE UNCHANGED serviceVars
  <2>1. UNCHANGED <<svc, svcHealth, leaf, standing, server, resolver, svcDeadline>>
    BY <1>1 DEF serviceVars
  <2>2. SvcType' /\ CertsHeld' /\ PassesAssigned' /\ HealthTraced'
    BY <2>1 DEF SvcIInv, SvcType, CertsHeld, HoldsItsOwn, PassesAssigned, PassAssigned, Enables,
                HealthTraced
  <2>3. AnswerStands'
    BY <2>1, AnswerKept DEF SvcIInv
  <2> QED
    BY <2>2, <2>3 DEF SvcIInv
<1>2. CASE DeleteService \/ RecordsLapse
           \/ \E n \in Servers : \/ CreateService(n) \/ UpdateService(n, "yes") \/ UpdateService(n, "no")
                                 \/ SuspendServer(n) \/ ResumeServer(n) \/ RevokeServer(n)
  BY <1>2, EditsKeep
<1>3. ASSUME NEW n \in Servers, AgentPass(n) \/ FetchFails(n) \/ RestartServer(n)
      PROVE  SvcIInv'
  BY <1>3, AgentKeeps, IssueKeeps, HealthReportKeeps DEF AgentPass
<1>4. CASE CompileRecords
  BY <1>4, CompileKeeps
<1>5. CASE ServiceSecond
  BY <1>5, ServiceSecondKeeps
<1> QED
  BY <1>1, <1>2, <1>3, <1>4, <1>5 DEF ServicesNext

(* A client that has heard of the last change resolves the name exactly    *)
(* while it is published, to the device that serves it, and an agent that  *)
(* has serves only what is its own, as long as no report is overtaken by   *)
(* the clock (service_serving.rs report_health, apply_to_peer_map;         *)
(* services.rs manage).                                                    *)
THEOREM ServicesAlwaysHold ==
  ASSUME MaxLag = 0
  PROVE  ServicesSpec => []ServicesInv
<1>1. SvcIInv => ServicesInv
  <2> SUFFICES ASSUME SvcIInv
               PROVE  ServicesInv
    OBVIOUS
  <2>1. RecordsInStep
    BY DEF SvcIInv, AnswerStands, RecordsInStep
  <2>2. WithdrawnStopsServing
    BY DEF SvcIInv, PassesAssigned, PassAssigned, WithdrawnStopsServing
  <2> QED
    BY <2>1, <2>2 DEF ServicesInv
<1>2. SvcIInv /\ [ServicesNext]_serviceVars => SvcIInv'
  BY ServicesInductive
<1> QED
  BY <1>1, <1>2, ServicesStart, PTL DEF ServicesSpec

-----------------------------------------------------------------------------
(* Shared folders.                                                         *)

ShareLists == [Labels -> [enabled : BOOLEAN, ro : BOOLEAN] \cup {Unset}]
LoopStates == [at : {"sync", "shares", "publish", "drive"}, list : ShareLists]
SharesType ==
  /\ file \in [Boxes -> ShareLists] /\ loop \in [Boxes -> LoopStates]
  /\ view = [b \in Boxes |-> view[b]] /\ listener = [b \in Boxes |-> listener[b]]

(* Past manage_shares(), a device the policy forbids to share has no       *)
(* listener.                                                               *)
BlockedCloses == \A b \in Boxes : loop[b].at # "shares" /\ Blocked(view[b]) => listener[b] = Closed

SharesIInv == SharesType /\ BlockedCloses

Right(c, s, l) == grant_access(drive, Person[c], Person[s], l, row[s][l].ro)

LEMMA AccessKinds ==
  ASSUME NEW policy, NEW c, NEW s, NEW l, NEW ro
  PROVE  grant_access(policy, c, s, l, ro) \in {"none", "ro", "rw"}
BY DEF grant_access

LEMMA GrantsOf ==
  ASSUME NEW b, NEW callers, NEW p, NEW l, NEW a
  PROVE  <<p, l, a>> \in Grants(b, callers) <=>
           p \in callers /\ l \in Shared(row[b]) /\ a = Right(p, b, l) /\ a # "none"
BY DEF Grants, Right

LEMMA GrantsType ==
  ASSUME NEW b \in Boxes, NEW callers \in SUBSET Boxes
  PROVE  Grants(b, callers) \in SUBSET (Boxes \X Labels \X {"ro", "rw"})
<1> SUFFICES ASSUME NEW g \in Grants(b, callers)
             PROVE  g \in Boxes \X Labels \X {"ro", "rw"}
  OBVIOUS
<1>1. PICK p \in callers, l \in Shared(row[b]) : Right(p, b, l) # "none" /\ g = <<p, l, Right(p, b, l)>>
  BY DEF Grants, Right
<1>2. Right(p, b, l) \in {"ro", "rw"}
  BY <1>1, AccessKinds DEF Right
<1>3. l \in Labels
  BY DEF Shared
<1> QED
  BY <1>1, <1>2, <1>3

(* What a device's peer map says of the drive section.                     *)
LEMMA CompiledDrive ==
  ASSUME NEW b \in Boxes
  PROVE  /\ compile_drive(b) = NoDrive <=> drive = NoDrive
         /\ drive # NoDrive =>
              /\ compile_drive(b).share <=> actor_permitted(drive.share, Person[b])
              /\ actor_permitted(drive.share, Person[b]) => compile_drive(b).local = Grants(b, {b})
              /\ ~actor_permitted(drive.share, Person[b]) => compile_drive(b).local = {}
              /\ compile_drive(b).callers = Grants(b, {p \in Boxes \ {b} : Sees(p, b)})
<1>1. CASE drive = NoDrive
  BY <1>1 DEF compile_drive
<1>2. CASE drive # NoDrive
  <2> DEFINE mayShare == actor_permitted(drive.share, Person[b])
             mayOpen == actor_permitted(drive.access, Person[b])
             mine == IF mayShare THEN Grants(b, {b}) ELSE {}
             theirs == Grants(b, {p \in Boxes \ {b} : Sees(p, b)})
  <2>1. compile_drive(b) = [share |-> mayShare, access |-> mayOpen, local |-> mine, callers |-> theirs]
    BY <1>2 DEF compile_drive
  <2>2. mayShare \in BOOLEAN /\ mayOpen \in BOOLEAN
    BY DEF actor_permitted
  <2>3. {b} \in SUBSET Boxes /\ {p \in Boxes \ {b} : Sees(p, b)} \in SUBSET Boxes
    OBVIOUS
  <2>4. theirs \in SUBSET (Boxes \X Labels \X {"ro", "rw"})
    BY <2>3, GrantsType
  <2>5. Grants(b, {b}) \in SUBSET (Boxes \X Labels \X {"ro", "rw"})
    BY <2>3, GrantsType
  <2>6. mine \in SUBSET (Boxes \X Labels \X {"ro", "rw"})
    BY <2>5
  <2>7. (mayShare => mine = Grants(b, {b})) /\ (~mayShare => mine = {})
    OBVIOUS
  <2> HIDE DEF mayShare, mayOpen, mine, theirs
  <2>8. compile_drive(b) # NoDrive
    BY <2>1, <2>2, <2>4, <2>6, SharesAssumption DEF NoDrive
  <2>9. /\ compile_drive(b).share = mayShare /\ compile_drive(b).local = mine
        /\ compile_drive(b).callers = theirs
    BY <2>1
  <2> QED
    BY <1>2, <2>7, <2>8, <2>9 DEF mayShare, theirs
<1> QED
  BY <1>1, <1>2

(* The enabled shares of a list, and the list of its enabled shares.       *)
LEMMA EnabledShares ==
  ASSUME NEW list
  PROVE  Shared(Enabled(list)) = Shared(list) /\ \A l \in Shared(list) : Enabled(list)[l] = list[l]
<1>1. \A l \in Labels : Enabled(list)[l] = IF l \in Shared(list) THEN list[l] ELSE Unset
  BY DEF Enabled
<1>2. \A l \in Shared(list) : l \in Labels /\ list[l] # Unset /\ list[l].enabled
  BY DEF Shared
<1>3. \A l \in Labels : l \in Shared(Enabled(list)) <=> Enabled(list)[l] # Unset /\ Enabled(list)[l].enabled
  BY DEF Shared
<1>4. \A l \in Labels : l \in Shared(Enabled(list)) <=> l \in Shared(list)
  BY <1>1, <1>2, <1>3
<1>5. Shared(Enabled(list)) \subseteq Labels /\ Shared(list) \subseteq Labels
  BY DEF Shared
<1> QED
  BY <1>1, <1>2, <1>4, <1>5

(* The folders of s that policy lets c open, with the right c has to them. *)
MayOpen(c, s, l) == drive = NoDrive \/ Right(c, s, l) # "none"
ReadOnly(c, s, l) == row[s][l].ro \/ (drive # NoDrive /\ Right(c, s, l) # "rw")
Entitled(c, s) == {[label |-> l, ro |-> ReadOnly(c, s, l)] : l \in {m \in Shared(row[s]) : MayOpen(c, s, m)}}

LEMMA ReadOnlyWords ==
  ASSUME NEW c, NEW s \in Boxes, row[s] \in ShareLists, NEW l \in Shared(row[s])
  PROVE  /\ row[s][l].ro \in BOOLEAN
         /\ drive = NoDrive => ReadOnly(c, s, l) = row[s][l].ro
         /\ drive # NoDrive => ReadOnly(c, s, l) = (row[s][l].ro \/ Right(c, s, l) # "rw")
<1>1. row[s][l].ro \in BOOLEAN
  BY DEF ShareLists, Shared
<1> QED
  BY <1>1 DEF ReadOnly

(* What a listener opened for the present list and peer map shows a caller. *)
LEMMA ServedIsEntitled ==
  ASSUME SharesIInv, NEW c \in Boxes, NEW s \in Boxes, Settled(s), Serving(s), c = s \/ Sees(c, s)
  PROVE  GateView(listener[s], s, c) = Entitled(c, s)
<1> DEFINE open == listener[s]
<1>1. /\ loop[s].at = "sync" /\ view[s] = PeerMap(s) /\ file[s] = row[s] /\ row[s] \in ShareLists
      /\ open # Closed /\ open = [shares |-> Enabled(row[s]), gate |-> share_gate(view[s])]
  BY DEF Settled, Serving, SharesIInv, SharesType
<1>2. open.shares = Enabled(row[s]) /\ open.gate = share_gate(view[s]) /\ view[s].drive = compile_drive(s)
  BY <1>1 DEF PeerMap
<1>3. ~Blocked(view[s])
  BY <1>1 DEF SharesIInv, BlockedCloses
<1>4. Shared(open.shares) = Shared(row[s]) /\ \A l \in Shared(row[s]) : open.shares[l] = row[s][l]
  BY <1>2, EnabledShares
<1>5. CASE drive = NoDrive
  <2>1. ~open.gate.enforce
    BY <1>2, <1>5, CompiledDrive DEF share_gate
  <2>2. GateView(open, s, c) = {[label |-> l, ro |-> open.shares[l].ro] : l \in Shared(open.shares)}
    BY <2>1 DEF GateView
  <2>3. Entitled(c, s) = {[label |-> l, ro |-> ReadOnly(c, s, l)] : l \in Shared(row[s])}
    BY <1>5 DEF Entitled, MayOpen
  <2>4. \A l \in Shared(row[s]) : ReadOnly(c, s, l) = open.shares[l].ro
    BY <1>1, <1>4, <1>5, ReadOnlyWords
  <2> HIDE DEF open
  <2> QED
    BY <1>4, <2>2, <2>3, <2>4 DEF open
<1>6. CASE drive # NoDrive
  <2> DEFINE rights == IF c = s THEN open.gate.local ELSE open.gate.callers
             Shown(l) == open.shares[l].ro \/ <<c, l, "rw">> \notin rights
             Got(l) == \E a \in {"ro", "rw"} : <<c, l, a>> \in rights
  <2>1. open.gate = [enforce |-> TRUE, local |-> view[s].drive.local, callers |-> view[s].drive.callers]
    BY <1>2, <1>6, CompiledDrive DEF share_gate
  <2>2. /\ open.gate.enforce /\ open.gate.local = Grants(s, {s})
        /\ open.gate.callers = Grants(s, {p \in Boxes \ {s} : Sees(p, s)})
    <3>1. actor_permitted(drive.share, Person[s])
      BY <1>2, <1>3, <1>6, CompiledDrive DEF Blocked
    <3> QED
      BY <1>2, <1>6, <2>1, <3>1, CompiledDrive
  <2>3. \A l, a : <<c, l, a>> \in rights <=> l \in Shared(row[s]) /\ a = Right(c, s, l) /\ a # "none"
    <3>1. CASE c = s
      BY <2>2, <3>1, GrantsOf
    <3>2. CASE c # s
      <4>1. c \in {p \in Boxes \ {s} : Sees(p, s)}
        BY <3>2
      <4> QED
        BY <2>2, <3>2, <4>1, GrantsOf
    <3> QED
      BY <3>1, <3>2
  <2>4. GateView(open, s, c) = {[label |-> l, ro |-> Shown(l)] : l \in {m \in Shared(open.shares) : Got(m)}}
    BY <2>2 DEF GateView
  <2>5. \A l \in Shared(row[s]) : Got(l) <=> MayOpen(c, s, l)
    <3> TAKE l \in Shared(row[s])
    <3>1. Right(c, s, l) \in {"none", "ro", "rw"}
      BY AccessKinds DEF Right
    <3> QED
      BY <1>6, <2>3, <3>1 DEF MayOpen
  <2>6. \A l \in Shared(row[s]) : Shown(l) = ReadOnly(c, s, l)
    <3> TAKE l \in Shared(row[s])
    <3>1. <<c, l, "rw">> \notin rights <=> Right(c, s, l) # "rw"
      BY <2>3
    <3>2. /\ row[s][l].ro \in BOOLEAN /\ open.shares[l].ro = row[s][l].ro
          /\ ReadOnly(c, s, l) = (row[s][l].ro \/ Right(c, s, l) # "rw")
      BY <1>1, <1>4, <1>6, ReadOnlyWords
    <3> HIDE DEF open, rights
    <3> QED
      BY <3>1, <3>2
  <2> HIDE DEF open, rights, Shown, Got
  <2>7. {m \in Shared(open.shares) : Got(m)} = {m \in Shared(row[s]) : MayOpen(c, s, m)}
    BY <1>4, <2>5
  <2> QED
    BY <2>4, <2>6, <2>7 DEF Entitled, open
<1> QED
  BY <1>5, <1>6

(* The shares of another device in a peer map.                             *)
LEMMA PublishedOf ==
  ASSUME NEW c \in Boxes, NEW e
  PROVE  e \in Published(c) <=>
           \E p \in Boxes \ {c} : Sees(c, p) /\ \E l \in Shared(row[p]) :
              /\ drive_share_visible(c, p, l, row[p][l].ro)
              /\ e = [node |-> p, label |-> l, ro |-> row[p][l].ro,
                      access |-> IF drive = NoDrive THEN "flag" ELSE Right(c, p, l)]
BY DEF Published, Right

(* What the folder browser of a device whose map is current offers of s.   *)
LEMMA OfferedIsEntitled ==
  ASSUME SharesIInv, NEW c \in Boxes, NEW s \in Boxes, Settled(c), Settled(s), Serving(s)
  PROVE  {[label |-> e.label, ro |-> e.ro] : e \in {f \in catalog(c) : f.node = s}}
           = IF c = s \/ Sees(c, s) THEN Entitled(c, s) ELSE {}
<1> DEFINE v == view[c]
           local == {l \in Shared(file[c]) :
                       v.drive = NoDrive \/ \E a \in {"ro", "rw"} : <<c, l, a>> \in v.drive.local}
           LocalRo(l) == file[c][l].ro \/ (v.drive # NoDrive /\ <<c, l, "rw">> \notin v.drive.local)
           mine == {[node |-> c, label |-> l, ro |-> LocalRo(l)] : l \in local}
           peers == {e \in v.shares : e.node \in v.peers /\ (v.drive # NoDrive => e.access # "flag")}
           PeerRo(e) == e.ro \/ (v.drive # NoDrive /\ e.access # "rw")
           theirs == {[node |-> e.node, label |-> e.label, ro |-> PeerRo(e)] : e \in peers}
           offered == {f \in catalog(c) : f.node = s}
<1>1. /\ v = PeerMap(c) /\ file[c] = row[c] /\ row[c] \in ShareLists /\ row[s] \in ShareLists
  BY DEF Settled, SharesIInv, SharesType
<1>2. /\ v.peers = {p \in Boxes \ {c} : Sees(c, p)} /\ v.shares = Published(c) /\ v.drive = compile_drive(c)
      /\ v.drive = NoDrive <=> drive = NoDrive
  <2>1. v.peers = {p \in Boxes \ {c} : Sees(c, p)} /\ v.shares = Published(c) /\ v.drive = compile_drive(c)
    BY <1>1 DEF PeerMap
  <2> HIDE DEF v
  <2>2. compile_drive(c) = NoDrive <=> drive = NoDrive
    BY CompiledDrive
  <2> QED
    BY <2>1, <2>2
<1>3. catalog(c) = mine \cup theirs
  BY DEF catalog
<1>4. ~Blocked(view[s])
  BY DEF SharesIInv, BlockedCloses, Settled, Serving
<1>5. drive # NoDrive => actor_permitted(drive.share, Person[s])
  <2>1. view[s].drive = compile_drive(s)
    BY DEF Settled, PeerMap
  <2> QED
    BY <1>4, <2>1, CompiledDrive DEF Blocked
<1>6. \A e \in theirs : e.node # c /\ e.node \in v.peers
  BY <1>2
<1>7. \A e \in mine : e.node = c
  <2> HIDE DEF local, LocalRo
  <2> QED
    OBVIOUS
<1>8. CASE c = s
  <2>1. offered = mine
    BY <1>3, <1>6, <1>7, <1>8
  <2>2. local = {l \in Shared(row[s]) : MayOpen(c, s, l)}
        /\ \A l \in local : LocalRo(l) = ReadOnly(c, s, l)
    <3>1. CASE drive = NoDrive
      <4>1. local = {l \in Shared(row[s]) : MayOpen(c, s, l)}
        BY <1>1, <1>2, <1>8, <3>1 DEF MayOpen
      <4>2. \A l \in Shared(row[s]) : LocalRo(l) = ReadOnly(c, s, l)
        BY <1>1, <1>2, <1>8, <3>1, ReadOnlyWords
      <4> QED
        BY <4>1, <4>2
    <3>2. CASE drive # NoDrive
      <4>1. v.drive.local = Grants(c, {c}) /\ v.drive # NoDrive
        BY <1>2, <1>5, <1>8, <3>2, CompiledDrive
      <4>2. \A l, a : <<c, l, a>> \in v.drive.local <=>
                        l \in Shared(row[s]) /\ a = Right(c, s, l) /\ a # "none"
        BY <1>8, <4>1, GrantsOf
      <4>3. \A l \in Shared(row[s]) : Right(c, s, l) \in {"none", "ro", "rw"}
        BY AccessKinds DEF Right
      <4>4. local = {l \in Shared(row[s]) : MayOpen(c, s, l)}
        <5>1. \A l \in Shared(row[s]) : (\E a \in {"ro", "rw"} : <<c, l, a>> \in v.drive.local) <=> MayOpen(c, s, l)
          BY <3>2, <4>2, <4>3 DEF MayOpen
        <5> QED
          BY <1>1, <1>8, <4>1, <5>1
      <4>5. \A l \in Shared(row[s]) : LocalRo(l) = ReadOnly(c, s, l)
        <5> TAKE l \in Shared(row[s])
        <5>1. <<c, l, "rw">> \notin v.drive.local <=> Right(c, s, l) # "rw"
          BY <4>2
        <5>2. /\ row[s][l].ro \in BOOLEAN
              /\ ReadOnly(c, s, l) = (row[s][l].ro \/ Right(c, s, l) # "rw")
          BY <1>1, <3>2, ReadOnlyWords
        <5>3. LocalRo(l) = (row[s][l].ro \/ (v.drive # NoDrive /\ <<c, l, "rw">> \notin v.drive.local))
          BY <1>1, <1>8
        <5> HIDE DEF v, LocalRo
        <5> QED
          BY <4>1, <5>1, <5>2, <5>3
      <4> QED
        BY <4>4, <4>5
    <3> QED
      BY <3>1, <3>2
  <2> HIDE DEF local, LocalRo, offered
  <2>3. {[label |-> e.label, ro |-> e.ro] : e \in mine} = {[label |-> l, ro |-> LocalRo(l)] : l \in local}
    <3>1. ASSUME NEW e \in mine
          PROVE  \E l \in local : [label |-> e.label, ro |-> e.ro] = [label |-> l, ro |-> LocalRo(l)]
      <4>1. PICK l \in local : e = [node |-> c, label |-> l, ro |-> LocalRo(l)]
        BY <3>1
      <4>2. e.label = l /\ e.ro = LocalRo(l)
        BY <4>1
      <4> QED
        BY <4>2
    <3>2. ASSUME NEW l \in local
          PROVE  \E e \in mine : [label |-> e.label, ro |-> e.ro] = [label |-> l, ro |-> LocalRo(l)]
      <4> DEFINE e == [node |-> c, label |-> l, ro |-> LocalRo(l)]
      <4>1. e \in mine /\ e.label = l /\ e.ro = LocalRo(l)
        BY <3>2
      <4> HIDE DEF e, mine
      <4> QED
        BY <4>1
    <3> HIDE DEF mine
    <3> DEFINE P(e) == [label |-> e.label, ro |-> e.ro]
               Q(l) == [label |-> l, ro |-> LocalRo(l)]
    <3>3. /\ \A e \in mine : \E l \in local : P(e) = Q(l)
          /\ \A l \in local : \E e \in mine : P(e) = Q(l)
      BY <3>1, <3>2
    <3> HIDE DEF P, Q
    <3>4. {P(e) : e \in mine} = {Q(l) : l \in local}
      BY <3>3
    <3> QED
      BY <3>4 DEF P, Q
  <2> HIDE DEF mine
  <2>4. {[label |-> e.label, ro |-> e.ro] : e \in offered} = Entitled(c, s)
    BY <2>1, <2>2, <2>3 DEF Entitled
  <2> QED
    BY <1>8, <2>4 DEF offered
<1>9. CASE c # s /\ ~Sees(c, s)
  <2>1. offered = {}
    BY <1>2, <1>3, <1>6, <1>7, <1>9
  <2> HIDE DEF offered
  <2>2. {[label |-> e.label, ro |-> e.ro] : e \in offered} = {}
    BY <2>1
  <2> QED
    BY <1>9, <2>2 DEF offered
<1>10. CASE c # s /\ Sees(c, s)
  <2> DEFINE Access(l) == IF drive = NoDrive THEN "flag" ELSE Right(c, s, l)
             Share(l) == [node |-> s, label |-> l, ro |-> row[s][l].ro, access |-> Access(l)]
             opens == {m \in Shared(row[s]) : MayOpen(c, s, m)}
  <2>1. \A l \in Shared(row[s]) : drive_share_visible(c, s, l, row[s][l].ro) <=> MayOpen(c, s, l)
    BY <1>5 DEF drive_share_visible, MayOpen, Right
  <2>2. \A l \in opens : /\ drive # NoDrive => Access(l) # "flag" /\ Access(l) = Right(c, s, l)
                         /\ l \in Shared(row[s])
    BY AccessKinds DEF Right
  <2>3. \A l : Share(l).node = s /\ Share(l).label = l /\ Share(l).ro = row[s][l].ro
               /\ Share(l).access = Access(l)
    OBVIOUS
  <2>4. \A e : e \in v.shares /\ e.node = s <=> \E l \in opens : e = Share(l)
    <3> TAKE e
    <3>1. ASSUME e \in v.shares, e.node = s
          PROVE  \E l \in opens : e = Share(l)
      <4>1. PICK p \in Boxes \ {c}, l \in Labels :
               /\ l \in Shared(row[p]) /\ drive_share_visible(c, p, l, row[p][l].ro)
               /\ e = [node |-> p, label |-> l, ro |-> row[p][l].ro,
                       access |-> IF drive = NoDrive THEN "flag" ELSE Right(c, p, l)]
        BY <1>2, <3>1, PublishedOf DEF Shared
      <4>2. p = s
        BY <3>1, <4>1
      <4> QED
        BY <2>1, <4>1, <4>2
    <3>2. ASSUME NEW l \in opens, e = Share(l)
          PROVE  e \in v.shares /\ e.node = s
      <4>1. s \in Boxes \ {c} /\ l \in Shared(row[s]) /\ drive_share_visible(c, s, l, row[s][l].ro)
        BY <1>10, <2>1
      <4>2. e \in Published(c)
        BY <1>10, <3>2, <4>1, PublishedOf
      <4> QED
        BY <1>2, <2>3, <3>2, <4>2
    <3> QED
      BY <3>1, <3>2
  <2>5. \A l \in opens : PeerRo(Share(l)) = ReadOnly(c, s, l)
    <3> TAKE l \in opens
    <3>1. /\ row[s][l].ro \in BOOLEAN
          /\ drive = NoDrive => ReadOnly(c, s, l) = row[s][l].ro
          /\ drive # NoDrive => ReadOnly(c, s, l) = (row[s][l].ro \/ Right(c, s, l) # "rw")
      BY <1>1, ReadOnlyWords
    <3>2. PeerRo(Share(l)) = (row[s][l].ro \/ (drive # NoDrive /\ Access(l) # "rw"))
      BY <1>2, <2>3
    <3>3. drive # NoDrive => Access(l) = Right(c, s, l)
      OBVIOUS
    <3> HIDE DEF PeerRo, Share, Access
    <3> QED
      BY <3>1, <3>2, <3>3
  <2>6. s \in v.peers
    BY <1>2, <1>10
  <2> HIDE DEF Share, Access, opens
  <2>7. \A l \in opens : Share(l) \in peers
    BY <1>2, <2>2, <2>3, <2>4, <2>6
  <2>8. \A e \in peers : e.node = s => \E l \in opens : e = Share(l)
    BY <2>4
  <2>9. \A x : x \in offered <=> \E l \in opens : x = [node |-> s, label |-> l, ro |-> ReadOnly(c, s, l)]
    <3> TAKE x
    <3>1. ASSUME x \in offered
          PROVE  \E l \in opens : x = [node |-> s, label |-> l, ro |-> ReadOnly(c, s, l)]
      <4>1. x \in theirs /\ x.node = s
        BY <1>3, <1>7, <1>10, <3>1
      <4> HIDE DEF peers, PeerRo
      <4>2. PICK e \in peers : x = [node |-> e.node, label |-> e.label, ro |-> PeerRo(e)]
        BY <4>1
      <4>3. e.node = s
        BY <4>1, <4>2
      <4>4. PICK l \in opens : e = Share(l)
        BY <2>8, <4>3
      <4> QED
        BY <2>3, <2>5, <4>2, <4>3, <4>4
    <3>2. ASSUME NEW l \in opens, x = [node |-> s, label |-> l, ro |-> ReadOnly(c, s, l)]
          PROVE  x \in offered
      <4> HIDE DEF peers, PeerRo
      <4>1. x = [node |-> Share(l).node, label |-> Share(l).label, ro |-> PeerRo(Share(l))]
        BY <2>3, <2>5, <3>2
      <4>2. x \in theirs
        BY <2>7, <4>1
      <4>3. x.node = s
        BY <3>2
      <4> QED
        BY <1>3, <4>2, <4>3
    <3> QED
      BY <3>1, <3>2
  <2> HIDE DEF offered
  <2>10. {[label |-> e.label, ro |-> e.ro] : e \in offered}
           = {[label |-> l, ro |-> ReadOnly(c, s, l)] : l \in opens}
    <3>1. ASSUME NEW e \in offered
          PROVE  \E l \in opens : [label |-> e.label, ro |-> e.ro] = [label |-> l, ro |-> ReadOnly(c, s, l)]
      <4>1. PICK l \in opens : e = [node |-> s, label |-> l, ro |-> ReadOnly(c, s, l)]
        BY <2>9, <3>1
      <4>2. e.label = l /\ e.ro = ReadOnly(c, s, l)
        BY <4>1
      <4> QED
        BY <4>2
    <3>2. ASSUME NEW l \in opens
          PROVE  \E e \in offered : [label |-> e.label, ro |-> e.ro] = [label |-> l, ro |-> ReadOnly(c, s, l)]
      <4> DEFINE e == [node |-> s, label |-> l, ro |-> ReadOnly(c, s, l)]
      <4>1. e.label = l /\ e.ro = ReadOnly(c, s, l) /\ e \in offered
        BY <2>9, <3>2
      <4> HIDE DEF e
      <4> QED
        BY <4>1
    <3> DEFINE P(e) == [label |-> e.label, ro |-> e.ro]
               Q(l) == [label |-> l, ro |-> ReadOnly(c, s, l)]
    <3>3. /\ \A e \in offered : \E l \in opens : P(e) = Q(l)
          /\ \A l \in opens : \E e \in offered : P(e) = Q(l)
      BY <3>1, <3>2
    <3> HIDE DEF P, Q
    <3>4. {P(e) : e \in offered} = {Q(l) : l \in opens}
      BY <3>3
    <3> QED
      BY <3>4 DEF P, Q
  <2> QED
    BY <1>10, <2>10 DEF Entitled, opens, offered
<1> QED
  BY <1>8, <1>9, <1>10

LEMMA SharesStart == SharesInit => SharesIInv
<1> SUFFICES ASSUME SharesInit
             PROVE  SharesIInv
  OBVIOUS
<1>1. NoShares \in ShareLists
  BY DEF NoShares, ShareLists
<1>2. SharesType
  <2>1. [at |-> "sync", list |-> NoShares] \in LoopStates
    BY <1>1 DEF LoopStates
  <2> QED
    BY <1>1, <2>1 DEF SharesInit, SharesType
<1>3. BlockedCloses
  BY DEF SharesInit, BlockedCloses
<1> QED
  BY <1>2, <1>3 DEF SharesIInv

(* A share command rewrites the list of its device, and nothing else here. *)
LEMMA CommandsKeep ==
  ASSUME SharesIInv, NEW b \in Boxes,
         EnableShare(b) \/ DriveShare(b) \/ DisableShare(b) \/ Unshare(b) \/ Rename(b)
  PROVE  SharesIInv'
<1> DEFINE Row == [enabled : BOOLEAN, ro : BOOLEAN]
<1>1. file \in [Boxes -> ShareLists] /\ file[b] \in ShareLists
      /\ file[b] \in [Labels -> Row \cup {Unset}]
  BY DEF SharesIInv, SharesType, ShareLists
<1>2. PICK list \in ShareLists : Save(b, list)
  <2>1. CASE EnableShare(b) \/ DriveShare(b)
    <3>1. PICK l \in Labels, ro \in BOOLEAN :
            Save(b, [file[b] EXCEPT ![l] = [enabled |-> TRUE, ro |-> ro]])
      BY <2>1 DEF EnableShare, DriveShare
    <3>2. [file[b] EXCEPT ![l] = [enabled |-> TRUE, ro |-> ro]] \in ShareLists
      BY <1>1 DEF ShareLists
    <3> QED
      BY <3>1, <3>2
  <2>2. CASE DisableShare(b)
    <3>1. PICK ls \in SUBSET Labels :
            Save(b, [l \in Labels |-> IF l \in ls /\ file[b][l] # Unset
                                      THEN [file[b][l] EXCEPT !.enabled = FALSE] ELSE file[b][l]])
      BY <2>2 DEF DisableShare
    <3> DEFINE list == [l \in Labels |-> IF l \in ls /\ file[b][l] # Unset
                                         THEN [file[b][l] EXCEPT !.enabled = FALSE] ELSE file[b][l]]
    <3>2. \A l \in Labels : list[l] \in Row \cup {Unset}
      <4> TAKE l \in Labels
      <4>1. CASE l \in ls /\ file[b][l] # Unset
        <5>1. file[b][l] \in Row /\ list[l] = [file[b][l] EXCEPT !.enabled = FALSE]
          BY <1>1, <4>1
        <5> HIDE DEF list
        <5> QED
          BY <5>1
      <4>2. CASE ~(l \in ls /\ file[b][l] # Unset)
        <5>1. list[l] = file[b][l]
          BY <4>2
        <5> HIDE DEF list
        <5> QED
          BY <1>1, <5>1
      <4> QED
        BY <4>1, <4>2
    <3>3. list = [l \in Labels |-> list[l]]
      OBVIOUS
    <3>4. Save(b, list)
      BY <3>1
    <3> HIDE DEF list
    <3>5. list \in ShareLists
      BY <3>2, <3>3 DEF ShareLists
    <3> QED
      BY <3>4, <3>5
  <2>3. CASE Unshare(b)
    <3>1. PICK l \in Labels : Save(b, [file[b] EXCEPT ![l] = Unset])
      BY <2>3 DEF Unshare
    <3>2. [file[b] EXCEPT ![l] = Unset] \in ShareLists
      BY <1>1 DEF ShareLists
    <3> QED
      BY <3>1, <3>2
  <2>4. CASE Rename(b)
    <3>1. PICK l \in Labels, m \in Labels : Save(b, [file[b] EXCEPT ![m] = file[b][l], ![l] = Unset])
      BY <2>4 DEF Rename
    <3> DEFINE mid == [file[b] EXCEPT ![m] = file[b][l]]
    <3>2. mid \in [Labels -> Row \cup {Unset}]
      BY <1>1
    <3>3. [file[b] EXCEPT ![m] = file[b][l], ![l] = Unset] = [mid EXCEPT ![l] = Unset]
      OBVIOUS
    <3> HIDE DEF mid
    <3>4. [mid EXCEPT ![l] = Unset] \in ShareLists
      BY <3>2 DEF ShareLists
    <3> QED
      BY <3>1, <3>3, <3>4
  <2> QED
    BY <2>1, <2>2, <2>3, <2>4
<1>3. file' = [file EXCEPT ![b] = list] /\ UNCHANGED <<view, listener, loop>>
  BY <1>2 DEF Save
<1>4. file' \in [Boxes -> ShareLists]
  BY <1>1, <1>2, <1>3
<1> QED
  BY <1>3, <1>4 DEF SharesIInv, SharesType, BlockedCloses

(* A turn of the loop: the listener is put right before the loop moves on. *)
LEMMA TurnKeeps ==
  ASSUME SharesIInv, NEW b \in Boxes, Turn(b) \/ RestartAgent(b)
  PROVE  SharesIInv'
<1>1. /\ file \in [Boxes -> ShareLists] /\ loop \in [Boxes -> LoopStates] /\ loop[b] \in LoopStates
      /\ view = [p \in Boxes |-> view[p]] /\ listener = [p \in Boxes |-> listener[p]]
      /\ BlockedCloses /\ NoShares \in ShareLists
  BY DEF SharesIInv, SharesType, NoShares, ShareLists
<1>2. ASSUME NEW at \in {"sync", "shares", "publish", "drive"}, loop' = [loop EXCEPT ![b].at = at]
      PROVE  /\ loop' \in [Boxes -> LoopStates] /\ loop'[b].at = at
             /\ \A p \in Boxes \ {b} : loop'[p] = loop[p]
  <2>1. loop'[b] = [loop[b] EXCEPT !.at = at] /\ \A p \in Boxes \ {b} : loop'[p] = loop[p]
    BY <1>1, <1>2
  <2>2. [loop[b] EXCEPT !.at = at] \in LoopStates /\ [loop[b] EXCEPT !.at = at].at = at
    BY <1>1, <1>2 DEF LoopStates
  <2>3. loop' = [loop EXCEPT ![b] = [loop[b] EXCEPT !.at = at]]
    BY <1>1, <1>2
  <2> QED
    BY <1>1, <2>1, <2>2, <2>3
<1>3. ASSUME NEW at \in {"sync", "publish", "drive"}, NEW list \in ShareLists,
             loop' = [loop EXCEPT ![b] = [at |-> at, list |-> list]]
      PROVE  /\ loop' \in [Boxes -> LoopStates] /\ loop'[b].at = at
             /\ \A p \in Boxes \ {b} : loop'[p] = loop[p]
  <2>1. [at |-> at, list |-> list] \in LoopStates
    BY DEF LoopStates
  <2> QED
    BY <1>1, <1>3, <2>1
<1>4. CASE SyncPeers(b)
  <2>1. /\ UNCHANGED <<file, listener>> /\ loop' = [loop EXCEPT ![b].at = "shares"]
        /\ view' = [view EXCEPT ![b] = PeerMap(b)] \/ view' = view
    BY <1>4 DEF SyncPeers
  <2>2. loop' \in [Boxes -> LoopStates] /\ loop'[b].at = "shares" /\ \A p \in Boxes \ {b} : loop'[p] = loop[p]
    BY <1>2, <2>1
  <2>3. view' = [p \in Boxes |-> view'[p]] /\ \A p \in Boxes \ {b} : view'[p] = view[p]
    BY <1>1, <2>1
  <2>4. BlockedCloses'
    BY <1>1, <2>1, <2>2, <2>3 DEF BlockedCloses, Blocked
  <2> QED
    BY <1>1, <2>1, <2>2, <2>3, <2>4 DEF SharesIInv, SharesType
<1>5. CASE manage_shares(b)
  <2>1. UNCHANGED <<file, view>>
    BY <1>5 DEF manage_shares
  <2>2. /\ listener' = [p \in Boxes |-> listener'[p]]
        /\ \A p \in Boxes \ {b} : listener'[p] = listener[p]
        /\ Blocked(view[b]) => listener'[b] = Closed
    BY <1>1, <1>5 DEF manage_shares
  <2>3. loop' \in [Boxes -> LoopStates] /\ \A p \in Boxes \ {b} : loop'[p] = loop[p]
    <3>1. file[b] \in ShareLists
      BY <1>1
    <3>2. loop' = [loop EXCEPT ![b].at = "drive"]
          \/ loop' = [loop EXCEPT ![b] = [at |-> "publish", list |-> file[b]]]
      BY <1>5 DEF manage_shares
    <3> QED
      BY <1>2, <1>3, <3>1, <3>2
  <2>4. BlockedCloses'
    BY <1>1, <2>1, <2>2, <2>3 DEF BlockedCloses, Blocked
  <2> QED
    BY <1>1, <2>1, <2>2, <2>3, <2>4 DEF SharesIInv, SharesType
<1>6. CASE PublishAfterBind(b) \/ manage_drive(b)
  <2>1. UNCHANGED <<file, view, listener>> /\ loop[b].at # "shares"
    BY <1>6 DEF PublishAfterBind, manage_drive
  <2>2. loop' \in [Boxes -> LoopStates] /\ \A p \in Boxes \ {b} : loop'[p] = loop[p]
    <3>1. loop' = [loop EXCEPT ![b].at = "sync"]
          \/ loop' = [loop EXCEPT ![b] = [at |-> "drive", list |-> NoShares]]
      BY <1>6 DEF PublishAfterBind, manage_drive
    <3> QED
      BY <1>1, <1>2, <1>3, <3>1
  <2>3. BlockedCloses'
    BY <1>1, <2>1, <2>2 DEF BlockedCloses, Blocked
  <2> QED
    BY <1>1, <2>1, <2>2, <2>3 DEF SharesIInv, SharesType
<1>7. CASE RestartAgent(b)
  <2>1. /\ UNCHANGED <<file, view>> /\ listener' = [listener EXCEPT ![b] = Closed]
        /\ loop' = [loop EXCEPT ![b] = [at |-> "sync", list |-> NoShares]]
    BY <1>7 DEF RestartAgent
  <2>2. loop' \in [Boxes -> LoopStates] /\ \A p \in Boxes \ {b} : loop'[p] = loop[p]
    BY <1>1, <1>3, <2>1
  <2>3. /\ listener' = [p \in Boxes |-> listener'[p]] /\ listener'[b] = Closed
        /\ \A p \in Boxes \ {b} : listener'[p] = listener[p]
    BY <1>1, <2>1
  <2>4. BlockedCloses'
    BY <1>1, <2>1, <2>2, <2>3 DEF BlockedCloses, Blocked
  <2> QED
    BY <1>1, <2>1, <2>2, <2>3, <2>4 DEF SharesIInv, SharesType
<1> QED
  BY <1>4, <1>5, <1>6, <1>7 DEF Turn

LEMMA SharesInductive ==
  ASSUME SharesIInv, [SharesNext]_shareVars
  PROVE  SharesIInv'
<1>1. CASE UNCHANGED <<file, view, listener, loop>>
  BY <1>1 DEF SharesIInv, SharesType, BlockedCloses, Blocked
<1>2. CASE WritePolicy \/ (\E b \in Publishers : CommandPublish(b)) \/ UNCHANGED shareVars
  <2>1. UNCHANGED <<file, view, listener, loop>>
    BY <1>2 DEF WritePolicy, CommandPublish, shareVars
  <2> QED
    BY <1>1, <2>1
<1>3. CASE \E b \in Publishers : \/ EnableShare(b) \/ DriveShare(b) \/ DisableShare(b) \/ Unshare(b)
                                 \/ Rename(b)
  BY <1>3, CommandsKeep, SharesAssumption
<1>4. CASE \E b \in Boxes : Turn(b) \/ RestartAgent(b)
  BY <1>4, TurnKeeps
<1> QED
  BY <1>2, <1>3, <1>4 DEF SharesNext

(* For any policy, any groups and any number of devices, the folders a     *)
(* reading device is offered are those the sharing device serves it, with  *)
(* the same right to write, once both have caught up (lib.rs               *)
(* compile_drive(), share.rs published_mode() and ShareGate::view()).      *)
THEOREM SharesAlwaysServed == SharesSpec => []AdvertisedIsServed
<1>1. SharesIInv => AdvertisedIsServed
  <2> SUFFICES ASSUME SharesIInv, NEW c \in Boxes, NEW s \in Boxes,
                      Settled(c), Settled(s), browser[c] = catalog(c), Serving(s)
               PROVE  {[label |-> e.label, ro |-> e.ro] : e \in {f \in browser[c] : f.node = s}}
                        = IF c = s \/ Sees(c, s) THEN GateView(listener[s], s, c) ELSE {}
    BY DEF AdvertisedIsServed
  <2>1. {[label |-> e.label, ro |-> e.ro] : e \in {f \in catalog(c) : f.node = s}}
          = IF c = s \/ Sees(c, s) THEN Entitled(c, s) ELSE {}
    BY OfferedIsEntitled
  <2>2. c = s \/ Sees(c, s) => GateView(listener[s], s, c) = Entitled(c, s)
    BY ServedIsEntitled
  <2> QED
    BY <2>1, <2>2
<1>2. SharesIInv /\ [SharesNext]_shareVars => SharesIInv'
  BY SharesInductive
<1> QED
  BY <1>1, <1>2, SharesStart, PTL DEF SharesSpec
=============================================================================
