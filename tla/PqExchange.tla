----------------------------- MODULE PqExchange -----------------------------
(***************************************************************************)
(* The hybrid post-quantum PSK exchange between the two agents of one peer *)
(* pair (blaktaild/src/pq.rs).  "I" holds the lower WireGuard key and      *)
(* initiates; "R" answers on its listener.  Every connection is a pair of  *)
(* tokio tasks that run beside the peer-map reconciliation (manage), the   *)
(* rotation driver (drive) and restarts of either process.                 *)
(*                                                                         *)
(* Each exchange draws fresh ephemeral keys, so the PSK it derives is      *)
(* named by its connection number; NoKey is the all-zero PSK.  Wall-clock  *)
(* ages appear only where they order events: a WireGuard session lives 180 *)
(* seconds, so STALE_REVERT_SECS (200) outlasts the last EXCHANGE_TIMEOUT  *)
(* (10) window in which a peer could still be heard.                       *)
(***************************************************************************)
EXTENDS Integers

CONSTANTS
  MaxConns,     \* bound on the exchanges started in one behaviour
  Maps,         \* what the coordinator's peer map may say about the peer
  CanRestart,   \* the agents whose process may restart
  FaultyDevices \* the agents whose `wg set` may fail

Agents == {"I", "R"}
PeerMaps == {"none", "off", "on"}

ASSUME BoundAssumption == MaxConns \in Nat \ {0}
ASSUME ScopeAssumption ==
  /\ Maps \subseteq PeerMaps
  /\ CanRestart \subseteq Agents
  /\ FaultyDevices \subseteq Agents

NoKey == 0
Conns == 1..MaxConns
Keys == Conns \cup {NoKey}
InitiatorStates == {"idle", "init", "confirm", "acked", "done"}
ResponderStates == {"idle", "accepted", "responded", "confirmed", "installing",
                    "done"}
ToResponder == {"none", "Init", "Confirm"}
ToInitiator == {"none", "Resp", "Reject", "Ack"}

VARIABLES
  epoch,       \* epoch[c]: the epoch in exchange c's Init (0: not started)
  ctx,         \* ctx[c]: ResponderContext.last_epoch of exchange c
  ini,         \* ini[c]: where I's task of exchange c stands
  rsp,         \* rsp[c]: where R's task of exchange c stands
  toR, toI,    \* toR[c], toI[c]: the unread message on c's TCP stream
  started,     \* number of exchanges the driver has spawned
  peer,        \* peer[a]: the peer map a's sync loop last applied
  plan,        \* plan[a]: Shared.plans as of a's last manage()
  known,       \* the agents whose PqRuntime.known_keys holds the peer
  lastEpoch,   \* lastEpoch[a]: Track.last_epoch (0 without a track)
  installed,   \* installed[a]: Track.installed
  device,      \* device[a]: the PSK the WireGuard device holds for the peer
  diskEpoch,   \* diskEpoch[a]: last_epoch in pq-psk.json
  diskKey,     \* diskKey[a]: psk in pq-psk.json
  attempt,     \* "recent": I's last_attempt_at is younger than RETRY_SECS
  derived,     \* history: keys I has derived and seen confirmed by R
  everHeld     \* history: keys R has recorded as installed

connVars == <<epoch, ctx, ini, rsp, toR, toI>>
runtimeVars == <<started, peer, plan, known, attempt>>
diskVars == <<diskEpoch, diskKey>>
trackVars == <<lastEpoch, installed, device, diskVars>>
history == <<derived, everHeld>>
vars == <<connVars, runtimeVars, trackVars, history>>

(* The exchange task is alive on the initiator, respectively responder; it *)
(* waits for the network, where its timeout can end it, or has heard all   *)
(* it needs and runs to its end without another await.                     *)
InitiatorWaits(c) == ini[c] \in {"init", "confirm"}
ResponderWaits(c) == rsp[c] \in {"accepted", "responded"}
InitiatorLive(c) == InitiatorWaits(c) \/ ini[c] = "acked"
ResponderLive(c) == ResponderWaits(c) \/ rsp[c] \in {"confirmed", "installing"}

(* The exchange travels inside the tunnel: both devices must know the peer. *)
Tunnel == \A a \in Agents : peer[a] # "none"

Newest(m, n) == IF m < n THEN n ELSE m

Init ==
  /\ epoch = [c \in Conns |-> 0]
  /\ ctx = [c \in Conns |-> 0]
  /\ ini = [c \in Conns |-> "idle"]
  /\ rsp = [c \in Conns |-> "idle"]
  /\ toR = [c \in Conns |-> "none"]
  /\ toI = [c \in Conns |-> "none"]
  /\ started = 0
  /\ peer = [a \in Agents |-> "none"]
  /\ plan = [a \in Agents |-> "none"]
  /\ known = {}
  /\ lastEpoch = [a \in Agents |-> 0]
  /\ installed = [a \in Agents |-> NoKey]
  /\ device = [a \in Agents |-> NoKey]
  /\ diskEpoch = [a \in Agents |-> 0]
  /\ diskKey = [a \in Agents |-> NoKey]
  /\ attempt = "due"
  /\ derived = {}
  /\ everHeld = {}

-----------------------------------------------------------------------------
(* Peer map: the sync loop applies it to WireGuard, manage() to the PQ     *)
(* runtime.                                                                *)

(* sync_once applies a new map.  Removing the peer drops its PSK; adding   *)
(* or updating it leaves whatever PSK the device holds.                    *)
Sync(a, m) ==
  /\ m # peer[a]
  /\ peer' = [peer EXCEPT ![a] = m]
  /\ device' = IF m = "none" THEN [device EXCEPT ![a] = NoKey] ELSE device
  /\ UNCHANGED <<connVars, started, plan, known, attempt, lastEpoch,
                 installed, diskVars, history>>

(* save_tracks, called under the lock with the track just changed.         *)
Persist(a) ==
  /\ diskEpoch' = [diskEpoch EXCEPT ![a] = lastEpoch'[a]]
  /\ diskKey' = [diskKey EXCEPT ![a] = installed'[a]]

(* What manage() does to the runtime: plans and known_keys follow the map, *)
(* and the track of a peer that is gone goes with it.                      *)
AdoptPlan(a) ==
  /\ plan' = [plan EXCEPT ![a] = peer[a]]
  /\ known' = IF peer[a] = "none" THEN known \ {a} ELSE known \cup {a}
  /\ lastEpoch' = IF peer[a] = "none" THEN [lastEpoch EXCEPT ![a] = 0]
                  ELSE lastEpoch
  /\ attempt' = IF a = "I" /\ peer[a] = "none" THEN "due" ELSE attempt
  /\ UNCHANGED <<connVars, started, peer, history>>

(* Mutant: a key the policy turned off is forgotten but left on the device. *)
ManageKeepsDevice(a) ==
  /\ AdoptPlan(a)
  /\ installed' = IF peer[a] = "on" THEN installed
                  ELSE [installed EXCEPT ![a] = NoKey]
  /\ Persist(a)
  /\ UNCHANGED device

(* manage(): clear a key the map no longer asks for, or reinstall the key  *)
(* of a peer that (re)appeared.  The clearing set_psk is `let _ =` and the *)
(* reinstalling one only logs: a failure leaves the device as it was.      *)
Manage(a) ==
  /\ AdoptPlan(a)
  /\ \/ /\ installed[a] # NoKey /\ peer[a] # "on"
        /\ installed' = [installed EXCEPT ![a] = NoKey]
        /\ Persist(a)
        /\ \/ peer[a] = "off" /\ device' = [device EXCEPT ![a] = NoKey]
           \/ (peer[a] = "none" \/ a \in FaultyDevices) /\ UNCHANGED device
     \/ /\ installed[a] = NoKey \/ peer[a] = "on"
        /\ \/ /\ installed[a] # NoKey /\ a \notin known
              /\ device' = [device EXCEPT ![a] = installed[a]]
           \/ /\ installed[a] = NoKey \/ a \in known \/ a \in FaultyDevices
              /\ UNCHANGED device
        /\ UNCHANGED <<installed, diskVars>>

(* Process restart: every task dies, the interface is recreated without a  *)
(* PSK, and load_tracks keeps the persisted key only while it is younger   *)
(* than PSK_LIFETIME_SECS (one that is too old never loads again, so it is *)
(* as good as gone from the file).  Bytes handed to TCP still arrive.      *)
Restart(a) ==
  /\ a \in CanRestart
  /\ ini' = [c \in Conns |->
               IF a = "I" /\ InitiatorLive(c) THEN "done" ELSE ini[c]]
  /\ rsp' = [c \in Conns |->
               IF a = "R" /\ ini[c] # "idle" THEN "done" ELSE rsp[c]]
  /\ peer' = [peer EXCEPT ![a] = "none"]
  /\ plan' = [plan EXCEPT ![a] = "none"]
  /\ known' = known \ {a}
  /\ lastEpoch' = [lastEpoch EXCEPT ![a] = diskEpoch[a]]
  /\ \E key \in {diskKey[a], NoKey} :
       /\ installed' = [installed EXCEPT ![a] = key]
       /\ diskKey' = [diskKey EXCEPT ![a] = key]
  /\ device' = [device EXCEPT ![a] = NoKey]
  /\ attempt' = IF a = "I" THEN "due" ELSE attempt
  /\ UNCHANGED <<epoch, ctx, toR, toI, started, diskEpoch, history>>

(* drive(): no handshake for STALE_REVERT_SECS, so give the key up.  Any   *)
(* exchange that reached the peer has timed out long before.               *)
StaleRevert(a) ==
  /\ plan[a] = "on"
  /\ installed[a] # NoKey
  /\ \A c \in Conns : ~ResponderLive(c) /\ ini[c] \notin {"confirm", "acked"}
  /\ installed' = [installed EXCEPT ![a] = NoKey]
  /\ UNCHANGED <<connVars, runtimeVars, lastEpoch, history>>
  /\ Persist(a)
  /\ \/ device' = [device EXCEPT ![a] = NoKey]
     \/ a \in FaultyDevices /\ UNCHANGED device

-----------------------------------------------------------------------------
(* One exchange.                                                           *)

(* drive(): the pair is due (no key, or one older than ROTATE_SECS).       *)
Start ==
  /\ plan["I"] = "on"
  /\ attempt = "due"
  /\ started < MaxConns
  /\ started' = started + 1
  /\ epoch' = [epoch EXCEPT ![started + 1] = lastEpoch["I"] + 1]
  /\ ini' = [ini EXCEPT ![started + 1] = "init"]
  /\ toR' = [toR EXCEPT ![started + 1] = "Init"]
  /\ attempt' = "recent"
  /\ UNCHANGED <<ctx, rsp, toI, peer, plan, known, trackVars, history>>

(* RETRY_SECS have passed on the whole-second clock; the attempt's own     *)
(* EXCHANGE_TIMEOUT, measured in real time, may still be running.          *)
RetryElapsed ==
  /\ attempt = "recent"
  /\ attempt' = "due"
  /\ UNCHANGED <<connVars, started, peer, plan, known, trackVars, history>>

(* accept_one: the responder's context, last_epoch included, is read here  *)
(* and used for the rest of the exchange.                                  *)
Accept(c) ==
  /\ Tunnel /\ ini[c] # "idle" /\ rsp[c] = "idle"
  /\ \/ /\ plan["R"] = "on"
        /\ rsp' = [rsp EXCEPT ![c] = "accepted"]
        /\ ctx' = [ctx EXCEPT ![c] = lastEpoch["R"]]
     \/ /\ plan["R"] # "on"
        /\ rsp' = [rsp EXCEPT ![c] = "done"]
        /\ ctx' = ctx
  /\ UNCHANGED <<epoch, ini, toR, toI, runtimeVars, trackVars, history>>

(* respond(): an Init whose epoch the context has seen is refused.         *)
RecvInit(c) ==
  /\ Tunnel /\ rsp[c] = "accepted" /\ toR[c] = "Init"
  /\ toR' = [toR EXCEPT ![c] = "none"]
  /\ \/ /\ epoch[c] > ctx[c]
        /\ rsp' = [rsp EXCEPT ![c] = "responded"]
        /\ toI' = [toI EXCEPT ![c] = "Resp"]
     \/ /\ epoch[c] <= ctx[c]
        /\ rsp' = [rsp EXCEPT ![c] = "done"]
        /\ toI' = [toI EXCEPT ![c] = "Reject"]
  /\ UNCHANGED <<epoch, ctx, ini, runtimeVars, trackVars, history>>

(* Initiator::finish: key confirmation verified, send ours.                *)
RecvResp(c) ==
  /\ Tunnel /\ ini[c] = "init" /\ toI[c] = "Resp"
  /\ ini' = [ini EXCEPT ![c] = "confirm"]
  /\ toI' = [toI EXCEPT ![c] = "none"]
  /\ toR' = [toR EXCEPT ![c] = "Confirm"]
  /\ derived' = derived \cup {c}
  /\ UNCHANGED <<epoch, ctx, rsp, runtimeVars, trackVars, everHeld>>

(* Mutant: the Ack leaves before install() has run.                        *)
AckBeforeInstall(c) ==
  /\ Tunnel /\ rsp[c] = "responded" /\ toR[c] = "Confirm"
  /\ rsp' = [rsp EXCEPT ![c] = "confirmed"]
  /\ toR' = [toR EXCEPT ![c] = "none"]
  /\ toI' = [toI EXCEPT ![c] = "Ack"]
  /\ UNCHANGED <<epoch, ctx, ini, runtimeVars, trackVars, history>>

(* Responder::finish verifies the initiator's confirmation.                *)
RecvConfirm(c) ==
  /\ Tunnel /\ rsp[c] = "responded" /\ toR[c] = "Confirm"
  /\ rsp' = [rsp EXCEPT ![c] = "confirmed"]
  /\ toR' = [toR EXCEPT ![c] = "none"]
  /\ UNCHANGED <<epoch, ctx, ini, toI, runtimeVars, trackVars, history>>

(* The install closure of accept_one writes the device before it takes the *)
(* lock; `wg set peer` creates a peer that is not there.                   *)
InstallDevice(c) ==
  /\ rsp[c] = "confirmed"
  /\ \/ /\ device' = [device EXCEPT !["R"] = c]
        /\ rsp' = [rsp EXCEPT ![c] = "installing"]
        /\ toI' = toI
     \/ /\ "R" \in FaultyDevices
        /\ device' = device
        /\ rsp' = [rsp EXCEPT ![c] = "done"]
        /\ toI' = [toI EXCEPT ![c] = "Reject"]
  /\ UNCHANGED <<epoch, ctx, ini, toR, runtimeVars, lastEpoch, installed,
                 diskVars, history>>

(* A track takes the key of exchange c, and its epoch if that is newer.    *)
Record(a, c) ==
  /\ lastEpoch' = [lastEpoch EXCEPT ![a] = Newest(@, epoch[c])]
  /\ installed' = [installed EXCEPT ![a] = c]
  /\ Persist(a)

(* The rest of the closure, under the lock, then the Ack.                  *)
InstallTrack(c) ==
  /\ rsp[c] = "installing"
  /\ Record("R", c)
  /\ everHeld' = everHeld \cup {c}
  /\ rsp' = [rsp EXCEPT ![c] = "done"]
  /\ toI' = [toI EXCEPT ![c] = "Ack"]
  /\ UNCHANGED <<epoch, ctx, ini, toR, runtimeVars, device, derived>>

(* run_initiator returns: the responder holds the key.                     *)
RecvAck(c) ==
  /\ Tunnel /\ ini[c] = "confirm" /\ toI[c] = "Ack"
  /\ ini' = [ini EXCEPT ![c] = "acked"]
  /\ toI' = [toI EXCEPT ![c] = "none"]
  /\ UNCHANGED <<epoch, ctx, rsp, toR, runtimeVars, trackVars, history>>

(* record_initiator_outcome, Ok: one critical section.  A failed set_psk   *)
(* returns before the track changes.                                       *)
RecordOutcome(c) ==
  /\ ini[c] = "acked"
  /\ ini' = [ini EXCEPT ![c] = "done"]
  /\ \/ /\ device' = [device EXCEPT !["I"] = c]
        /\ Record("I", c)
     \/ "I" \in FaultyDevices /\ UNCHANGED trackVars
  /\ UNCHANGED <<epoch, ctx, rsp, toR, toI, runtimeVars, history>>

(* record_initiator_outcome, Err(Rejected): move past the responder's      *)
(* epoch and retry on the next tick.                                       *)
RecvReject(c) ==
  /\ Tunnel /\ InitiatorWaits(c) /\ toI[c] = "Reject"
  /\ ini' = [ini EXCEPT ![c] = "done"]
  /\ toI' = [toI EXCEPT ![c] = "none"]
  /\ lastEpoch' = [lastEpoch EXCEPT !["I"] = Newest(@, ctx[c])]
  /\ attempt' = "due"
  /\ UNCHANGED <<epoch, ctx, rsp, toR, started, peer, plan, known, installed,
                 device, diskVars, history>>

(* EXCHANGE_TIMEOUT or an I/O error on one end.  The other end still       *)
(* receives what was already sent.                                         *)
InitiatorFail(c) ==
  /\ InitiatorWaits(c)
  /\ ini' = [ini EXCEPT ![c] = "done"]
  /\ UNCHANGED <<epoch, ctx, rsp, toR, toI, runtimeVars, trackVars, history>>

ResponderFail(c) ==
  /\ ResponderWaits(c)
  /\ rsp' = [rsp EXCEPT ![c] = "done"]
  /\ UNCHANGED <<epoch, ctx, ini, toR, toI, runtimeVars, trackVars, history>>

Exchange(c) ==
  \/ Accept(c) \/ RecvInit(c) \/ RecvResp(c) \/ RecvConfirm(c)
  \/ InstallDevice(c) \/ InstallTrack(c) \/ RecvAck(c)
  \/ RecordOutcome(c) \/ RecvReject(c)
  \/ InitiatorFail(c) \/ ResponderFail(c)

Next ==
  \/ \E a \in Agents : \E m \in Maps : Sync(a, m)
  \/ \E a \in Agents : Manage(a)
  \/ \E a \in Agents : Restart(a)
  \/ \E a \in Agents : StaleRevert(a)
  \/ Start
  \/ RetryElapsed
  \/ \E c \in Conns : Exchange(c)

(* tokio runs every spawned exchange to its end (both ends have a timeout) *)
(* and the sync loop calls manage() after every poll.                      *)
Fairness ==
  /\ \A a \in Agents : WF_vars(Manage(a))
  /\ \A c \in Conns :
       /\ WF_vars(InstallDevice(c))
       /\ WF_vars(InstallTrack(c))
       /\ WF_vars(RecordOutcome(c))
       /\ WF_vars(ResponderFail(c))
       /\ WF_vars(InitiatorFail(c))

Spec == Init /\ [][Next]_vars

FairSpec == Spec /\ Fairness

-----------------------------------------------------------------------------
(* Every variable has its type.                                            *)
TypeOK ==
  /\ epoch \in [Conns -> Nat]
  /\ ctx \in [Conns -> Nat]
  /\ ini \in [Conns -> InitiatorStates]
  /\ rsp \in [Conns -> ResponderStates]
  /\ toR \in [Conns -> ToResponder]
  /\ toI \in [Conns -> ToInitiator]
  /\ started \in 0..MaxConns
  /\ peer \in [Agents -> PeerMaps]
  /\ plan \in [Agents -> PeerMaps]
  /\ known \subseteq Agents
  /\ lastEpoch \in [Agents -> Nat]
  /\ installed \in [Agents -> Keys]
  /\ device \in [Agents -> Keys]
  /\ diskEpoch \in [Agents -> Nat]
  /\ diskKey \in [Agents -> Keys]
  /\ attempt \in {"due", "recent"}
  /\ derived \subseteq Conns
  /\ everHeld \subseteq Conns

(* A key reaches either device only when the other agent has it too: R     *)
(* writes a key only after I derived and confirmed it, and I writes a key  *)
(* only after R recorded it ("the initiator never installs a key we lack", *)
(* run_responder).  Restarts reload only such keys.                        *)
KeysAreShared ==
  /\ {device["R"], installed["R"], diskKey["R"]} \subseteq derived \cup {NoKey}
  /\ {device["I"], installed["I"], diskKey["I"]} \subseteq everHeld \cup {NoKey}

(* No agent remembers an epoch older than that of a key it holds, in       *)
(* memory or in pq-psk.json, so the driver's next exchange is newer than   *)
(* every key it replaces and respond() refuses the one it was made from.   *)
EpochCoversKey ==
  \A a \in Agents :
    /\ installed[a] # NoKey => epoch[installed[a]] <= lastEpoch[a]
    /\ diskKey[a] # NoKey => epoch[diskKey[a]] <= diskEpoch[a]

(* Once the peer map keeps saying `off`, manage() leaves no PSK behind on  *)
(* the device, whatever exchange was in flight when the policy changed     *)
(* ("the PSK is cleared on the next peer map").                            *)
PolicyOffClears ==
  \A a \in Agents :
    <>[](peer[a] = "off") => <>[](device[a] = NoKey /\ installed[a] = NoKey)

(* Keys and epochs of both agents, in memory, on disk and on the device.   *)
PqInv == TypeOK /\ KeysAreShared /\ EpochCoversKey
=============================================================================
