----------------------------- MODULE MobileRelay ----------------------------
(***************************************************************************)
(* The relay session and the direct/relay hysteresis of a phone:           *)
(* blaktail-relay-proto/src/mobile.rs, PeerPath of ladder.rs and the entry *)
(* points of blaktail-ios-wg/src/relay.rs.                                 *)
(*                                                                         *)
(* The platform calls in: it polls the coordinator, routes one datagram    *)
(* per second to the peer, ticks, and hands over what its sockets receive. *)
(* One tick is one round of the ladder, whose link is what the relay       *)
(* answers over.  An OBSERVED reply may be late or lost.                   *)
(***************************************************************************)
EXTENDS Selector

CONSTANTS
  RELAY_GRACE, MOBILE_RELAY_HEALTH, FAILBACK_PROBE,
  DIRECT_SILENCE, DIRECT_RETRY_EVERY, DIRECT_PROBE_WINDOW, DIRECT_PROMOTE_HITS,
  OneWay,             \* TRUE in it: the direct path may carry from the peer only
  MaxMobileEvents     \* changes of the network or the list in a behaviour

ASSUME MobileAssumption ==
  {RELAY_GRACE, MOBILE_RELAY_HEALTH, FAILBACK_PROBE, DIRECT_SILENCE, DIRECT_RETRY_EVERY,
   DIRECT_PROBE_WINDOW, DIRECT_PROMOTE_HITS, MaxMobileEvents} \subseteq Nat \ {0}

VARIABLES
  relays,      \* advertised by the coordinator
  relayAnswers,     \* over what each relay answers: "udp", "wss" or "no"
  direct,      \* what the direct path carries: "both", "in" or "no"
  hasDirect,   \* the coordinator gave the peer's endpoint
  active,      \* the relay in use, or 0
  unseen,      \* ticks since its last OBSERVED, or since it was activated
  seenOnce,    \* last_seen is set
  failback,    \* the better relay being probed (0: none) and the ticks left
  phoneFailures,    \* the Selector's
  path,        \* PeerPath
  replies,     \* OBSERVED on their way, <<relay, link>>
  lateReplies,
  owed,        \* the peer has a datagram to answer on the direct path
  lastRoute,   \* where the last datagram went
  mobileEvents

netState == <<relays, relayAnswers, direct, hasDirect>>
mobileVars == <<netState, active, unseen, seenOnce, failback, phoneFailures, path, replies, lateReplies,
                owed, lastRoute, mobileEvents>>

NoFailback == [relay |-> 0, left |-> 0]

-----------------------------------------------------------------------------
(* PeerPath::new().  `silence` counts since unanswered_since (0: none).    *)
NewPath(has) ==
  [mode |-> IF has THEN "direct" ELSE "relay", silence |-> 0, probe |-> 0, next |-> 0, hits |-> 0]

(* PeerPath::route(): the path after it, and where the datagram goes.      *)
Demoted == [path EXCEPT !.mode = "relay", !.hits = 0, !.probe = 0, !.next = DIRECT_RETRY_EVERY]
Probing == [path EXCEPT !.probe = DIRECT_PROBE_WINDOW, !.next = DIRECT_RETRY_EVERY, !.hits = 0]
Waiting == [path EXCEPT !.silence = IF @ = 0 THEN 1 ELSE @]
(* Mutant: a silent direct path is kept.                                   *)
RouteDirectOnly ==
  CASE active = 0 -> [path |-> path, direct |-> hasDirect, relay |-> FALSE]
    [] active # 0 /\ path.mode = "direct" -> [path |-> Waiting, direct |-> TRUE, relay |-> FALSE]
    [] active # 0 /\ path.mode = "relay" /\ ~hasDirect -> [path |-> path, direct |-> FALSE, relay |-> TRUE]
    [] active # 0 /\ path.mode = "relay" /\ hasDirect /\ path.probe > 0 -> [path |-> path, direct |-> TRUE, relay |-> TRUE]
    [] active # 0 /\ path.mode = "relay" /\ hasDirect /\ path.probe = 0 /\ path.next = 0 -> [path |-> Probing, direct |-> TRUE, relay |-> TRUE]
    [] OTHER -> [path |-> path, direct |-> FALSE, relay |-> TRUE]
Route ==
  CASE active = 0 -> [path |-> path, direct |-> hasDirect, relay |-> FALSE]
    [] active # 0 /\ path.mode = "direct" /\ path.silence <= DIRECT_SILENCE -> [path |-> Waiting, direct |-> TRUE, relay |-> FALSE]
    [] active # 0 /\ path.mode = "direct" /\ path.silence > DIRECT_SILENCE -> [path |-> Demoted, direct |-> FALSE, relay |-> TRUE]
    [] active # 0 /\ path.mode = "relay" /\ ~hasDirect -> [path |-> path, direct |-> FALSE, relay |-> TRUE]
    [] active # 0 /\ path.mode = "relay" /\ hasDirect /\ path.probe > 0 -> [path |-> path, direct |-> TRUE, relay |-> TRUE]
    [] active # 0 /\ path.mode = "relay" /\ hasDirect /\ path.probe = 0 /\ path.next = 0 -> [path |-> Probing, direct |-> TRUE, relay |-> TRUE]
    [] OTHER -> [path |-> path, direct |-> FALSE, relay |-> TRUE]

(* PeerPath::direct_received().                                            *)
Received ==
  LET heard == [path EXCEPT !.silence = 0]
  IN IF path.mode # "relay" \/ ~hasDirect THEN heard
     ELSE IF path.hits + 1 >= DIRECT_PROMOTE_HITS THEN [heard EXCEPT !.mode = "direct", !.hits = 0, !.probe = 0]
     ELSE [heard EXCEPT !.hits = @ + 1]

-----------------------------------------------------------------------------
MobileInit ==
  /\ relays = Relays /\ relayAnswers = [r \in Relays |-> "udp"] /\ direct \in {"both", "no"}
  /\ hasDirect \in BOOLEAN
  /\ active = 0 /\ unseen = 0 /\ seenOnce = FALSE /\ failback = NoFailback /\ phoneFailures = NoFailures
  /\ path = NewPath(hasDirect)
  /\ replies = {} /\ lateReplies = {} /\ owed = FALSE
  /\ lastRoute = [direct |-> FALSE, relay |-> 0] /\ mobileEvents = 0

MobileEvent == mobileEvents < MaxMobileEvents /\ mobileEvents' = mobileEvents + 1

(* activate(): registers at the relay, which answers over what it can.     *)
Registered(r) == IF r # 0 /\ relayAnswers[r] # "no" THEN {<<r, relayAnswers[r]>>} ELSE {}
Activate(r) == active' = r /\ unseen' = 0 /\ seenOnce' = FALSE

(* configure(), from every peers poll: the active relay is kept while it   *)
(* is still advertised, so a poll without news matters only when a probe   *)
(* has moved the session to a relay that no longer is.  set_peer() follows *)
(* with the peer's endpoint.                                               *)
Configure(listed, has) ==
  /\ \/ MobileEvent /\ <<listed, has>> # <<relays, hasDirect>>
     \/ <<listed, has>> = <<relays, hasDirect>> /\ active \notin listed \cup {0} /\ UNCHANGED mobileEvents
  /\ relays' = listed /\ hasDirect' = has
  /\ path' = [path EXCEPT !.mode = IF has THEN @ ELSE "relay"]
  /\ IF active \in listed THEN UNCHANGED <<active, unseen, seenOnce, replies>>
     ELSE /\ Activate(Choose(listed, phoneFailures))
          /\ replies' = replies \cup Registered(Choose(listed, phoneFailures))
  /\ owed' = (owed /\ has)
  /\ UNCHANGED <<relayAnswers, direct, failback, phoneFailures, lateReplies, lastRoute>>

(* tick().                                                                 *)
Healthy == unseen < IF seenOnce THEN MOBILE_RELAY_HEALTH ELSE RELAY_GRACE
AgedPath == [path EXCEPT !.silence = IF @ = 0 THEN 0 ELSE Older(@, DIRECT_SILENCE + 1),
                     !.probe = IF @ = 0 THEN 0 ELSE @ - 1, !.next = IF @ = 0 THEN 0 ELSE @ - 1]
Passing ==
  /\ replies = {} /\ ~owed /\ lastRoute # [direct |-> FALSE, relay |-> 0]
  /\ lastRoute' = [direct |-> FALSE, relay |-> 0]
  /\ path' = AgedPath
  /\ UNCHANGED <<netState, lateReplies, owed, mobileEvents>>

TickNoRelays ==
  /\ Passing /\ relays = {} /\ Activate(0) /\ phoneFailures' = Cooled(phoneFailures)
  /\ UNCHANGED <<failback, replies>>
TickActivates ==
  /\ Passing /\ relays # {} /\ active = 0 /\ phoneFailures' = Cooled(phoneFailures)
  /\ Activate(Choose(relays, phoneFailures)) /\ replies' = Registered(Choose(relays, phoneFailures))
  /\ UNCHANGED failback
TickFailsOver ==
  /\ Passing /\ relays # {} /\ active # 0 /\ ~Healthy
  /\ phoneFailures' = Cooled(RecordFailure(phoneFailures, active))
  /\ Activate(Choose(relays, RecordFailure(phoneFailures, active)))
  /\ replies' = Registered(Choose(relays, RecordFailure(phoneFailures, active)))
  /\ UNCHANGED failback
(* The window of a failback probe is over, or a new probe is sent.         *)
TickKeeps ==
  /\ Passing /\ relays # {} /\ active # 0 /\ Healthy
  /\ unseen' = Older(unseen, MOBILE_RELAY_HEALTH + RELAY_GRACE)
  /\ LET target == FailbackTarget(active, relays, phoneFailures) IN
       \/ /\ failback.relay # 0 /\ failback.left > 1
          /\ failback' = [failback EXCEPT !.left = @ - 1] /\ phoneFailures' = Cooled(phoneFailures)
          /\ replies' = Registered(active)
       \/ /\ failback.relay # 0 /\ failback.left <= 1
          /\ failback' = NoFailback /\ phoneFailures' = Cooled(RecordFailure(phoneFailures, failback.relay))
          /\ replies' = Registered(active)
       \/ /\ failback.relay = 0 /\ target # 0
          /\ failback' = [relay |-> target, left |-> FAILBACK_PROBE] /\ phoneFailures' = Cooled(phoneFailures)
          /\ replies' = Registered(active) \cup {<<r, "udp">> : r \in {q \in {target} : relayAnswers[q] = "udp"}}
       \/ /\ failback.relay = 0 /\ target = 0
          /\ phoneFailures' = Cooled(phoneFailures) /\ replies' = Registered(active) /\ UNCHANGED failback
  /\ UNCHANGED <<active, seenOnce>>

(* inbound(): an OBSERVED of the relay being probed moves the session to   *)
(* it; one of the active relay marks it seen.  Over the WebSocket the      *)
(* relay is not told apart.                                                *)
ObserveFailback(r, link) ==
  /\ link = "udp" /\ failback.relay = r
  /\ failback' = NoFailback /\ phoneFailures' = RecordHealthy(phoneFailures, r) /\ Activate(r)
  /\ replies' = (replies \ {<<r, link>>}) \cup Registered(r)
ObserveActive(r, link) ==
  /\ ~(link = "udp" /\ failback.relay = r)
  /\ IF active # 0 /\ (link = "udp" => r = active)
     THEN unseen' = 0 /\ seenOnce' = TRUE /\ phoneFailures' = RecordHealthy(phoneFailures, active)
     ELSE UNCHANGED <<unseen, seenOnce, phoneFailures>>
  /\ replies' = replies \ {<<r, link>>}
  /\ UNCHANGED <<active, failback>>
Observed(r, link) ==
  /\ <<r, link>> \in replies \cup lateReplies
  /\ lateReplies' = lateReplies \ (IF <<r, link>> \in replies THEN {} ELSE {<<r, link>>})
  /\ ObserveFailback(r, link) \/ ObserveActive(r, link)
  /\ UNCHANGED <<netState, path, owed, lastRoute, mobileEvents>>

(* outbound(): one datagram of the peer's session.                         *)
Outbound ==
  LET route == Route
  IN /\ lastRoute = [direct |-> FALSE, relay |-> 0] /\ replies = {}
     /\ path' = route.path
     /\ lastRoute' = [direct |-> route.direct \/ ~route.relay, relay |-> IF route.relay THEN active ELSE 0]
     /\ owed' = (route.direct /\ hasDirect /\ direct # "no")
     /\ UNCHANGED <<netState, active, unseen, seenOnce, failback, phoneFailures, replies, lateReplies, mobileEvents>>
(* A datagram from the peer's direct endpoint decrypted: an answer, or one *)
(* of the peer's own.                                                      *)
DirectReceived ==
  /\ direct # "no" /\ hasDirect /\ owed' = FALSE /\ path' = Received
  /\ UNCHANGED <<netState, active, unseen, seenOnce, failback, phoneFailures, replies, lateReplies, lastRoute, mobileEvents>>

-----------------------------------------------------------------------------
RelayTurns(r, how) ==
  /\ MobileEvent /\ how # relayAnswers[r] /\ relayAnswers' = [relayAnswers EXCEPT ![r] = how]
  /\ UNCHANGED <<relays, direct, hasDirect, active, unseen, seenOnce, failback, phoneFailures, path, replies, lateReplies, owed, lastRoute>>
DirectTurns(how) ==
  /\ MobileEvent /\ how # direct /\ direct' = how /\ owed' = FALSE
  /\ UNCHANGED <<relays, relayAnswers, hasDirect, active, unseen, seenOnce, failback, phoneFailures, path, replies, lateReplies, lastRoute>>
ReplyLate(x) ==
  /\ MobileEvent /\ replies' = replies \ {x} /\ lateReplies' = lateReplies \cup {x}
  /\ UNCHANGED <<netState, active, unseen, seenOnce, failback, phoneFailures, path, owed, lastRoute>>

MobileTick == TickNoRelays \/ TickActivates \/ TickFailsOver \/ TickKeeps
MobileNext ==
  \/ MobileTick
  \/ Outbound
  \/ DirectReceived
  \/ \E x \in replies \cup lateReplies : Observed(x[1], x[2])
  \/ \E listed \in SUBSET Relays, has \in BOOLEAN : Configure(listed, has)
  \/ \E r \in Relays, how \in {"udp", "wss", "no"} : RelayTurns(r, how)
  \/ \E how \in {"both", "no"} \cup (IF TRUE \in OneWay THEN {"in"} ELSE {}) : DirectTurns(how)
  \/ \E x \in replies : ReplyLate(x)

(* The tunnel sends, ticks and polls, and a reply that was not held up     *)
(* arrives.                                                                *)
MobileFairness ==
  /\ WF_mobileVars(MobileTick \/ Outbound)
  /\ WF_mobileVars(owed /\ DirectReceived)
  /\ WF_mobileVars(Configure(relays, hasDirect))
  /\ \A r \in Relays, link \in {"udp", "wss"} : WF_mobileVars(<<r, link>> \in replies /\ Observed(r, link))
MobileSpec == MobileInit /\ [][MobileNext]_mobileVars /\ MobileFairness

-----------------------------------------------------------------------------
MobileUdp == {r \in relays : relayAnswers[r] = "udp"}
Works == (hasDirect /\ direct = "both") \/ \E r \in relays : relayAnswers[r] # "no"
Arrives ==
  \/ lastRoute.direct /\ hasDirect /\ direct = "both"
  \/ lastRoute.relay # 0 /\ relayAnswers[lastRoute.relay] # "no"

(* Once the network and the list stay as they are, the phone ends up on    *)
(* the first advertised relay that answers over UDP, whatever replies of   *)
(* earlier relays and probes come late; on a WebSocket it stays.           *)
PhoneSettles ==
  <>[](MobileUdp # {} => active # 0 /\ (active = Min(MobileUdp) \/ relayAnswers[active] = "wss"))

(* While the direct path or some relay works, the phone's datagrams get to *)
(* the peer: from some time on every one it sends, whichever path it was   *)
(* on when the other one stopped.                                          *)
PhoneReachesPeer ==
  <>[](Works /\ lastRoute # [direct |-> FALSE, relay |-> 0] => Arrives)
=============================================================================
