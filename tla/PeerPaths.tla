----------------------------- MODULE PeerPaths ------------------------------
(***************************************************************************)
(* How an agent picks its relay and the path to each peer: manage_paths()  *)
(* of blaktaild/src/main.rs and the forwarders of relay_client.rs.         *)
(*                                                                         *)
(* The link below a relay session is the subject of RelaySession; here a   *)
(* relay answers over UDP, only over its WebSocket, or not at all.  One    *)
(* tick of time is one turn of the agent's loop.                           *)
(***************************************************************************)
EXTENDS Selector

CONSTANTS
  PathPeers,
  RELAY_HEALTH, DIRECT_GRACE, DIRECT_RETRY, HANDSHAKE_FRESH,
  MaxPathEvents    \* changes of the network in a behaviour

ASSUME PathsAssumption ==
  {RELAY_HEALTH, DIRECT_GRACE, DIRECT_RETRY, HANDSHAKE_FRESH, MaxPathEvents} \subseteq Nat \ {0}

VARIABLES
  offered,     \* the coordinator advertises the relays, with a valid token
  resolves,    \* their names resolve
  answers,     \* over what each relay answers: "udp", "wss" or "no"
  peerNet,     \* of each peer: has a native endpoint, is reached there, reports an
               \* address for punching, is reached by it
  mesh,        \* the relay of the RelayMesh, or 0
  unheard,     \* turns since its last OBSERVED, or since it was started
  observed,    \* it was observed over UDP
  failures,    \* the Selector's
  peer,        \* PeerPath of each peer and where the interface sends its packets
  turnDue,     \* the loop has a turn to take
  pathEvents

relayVars == <<mesh, unheard, observed, failures>>
netVars == <<offered, resolves, answers, peerNet>>
pathVars == <<netVars, relayVars, peer, turnDue, pathEvents>>

-----------------------------------------------------------------------------
RelayHealthy == unheard < RELAY_HEALTH

(* What manage_paths() does with the relay before it looks at the peers:   *)
(* fail over, probe a better relay, or keep it.  The probe is over UDP.    *)
FailedOver == [drop |-> TRUE, failures |-> RecordFailure(failures, mesh)]
KeptRelay == [drop |-> FALSE, failures |-> failures]
Probed(r) ==
  IF answers[r] = "udp" THEN [drop |-> TRUE, failures |-> RecordHealthy(failures, mesh)]
  ELSE [drop |-> FALSE, failures |-> RecordFailure(RecordHealthy(failures, mesh), r)]
Candidates == IF resolves THEN Relays ELSE {}
Checked ==
  LET target == FailbackTarget(mesh, Candidates, failures)
  IN IF mesh = 0 THEN KeptRelay
     ELSE IF ~RelayHealthy THEN FailedOver
     ELSE IF ~observed THEN KeptRelay
     ELSE IF target # 0 THEN Probed(target)
     ELSE [drop |-> FALSE, failures |-> RecordHealthy(failures, mesh)]

-----------------------------------------------------------------------------
(* Forwarders.  The interface sends a peer's packets to its native         *)
(* endpoint, to its forwarder's port, to a port nothing listens on, or has *)
(* no endpoint.  RelayMesh::stop() and drop_forwarder().                   *)
Stopped(p) == [p EXCEPT !.forwarder = FALSE, !.kernel = IF @ = "forwarder" THEN "closed" ELSE @]
(* switch_to_relay() and switch_to_peer_direct(): the forwarder is made    *)
(* when there is none; when the interface refuses, it is dropped.          *)
SwitchTo(p, via, sets) ==
  IF sets THEN [p EXCEPT !.forwarder = TRUE, !.via = via, !.kernel = "forwarder"] ELSE Stopped(p)
Rested(p, kind) == [p EXCEPT !.kind = kind, !.age = 0]

Fresh(p) == p.handshake < HANDSHAKE_FRESH

(* path_action() and the arm of manage_paths() that carries it out.        *)
UseRelay(p, sets) == Rested(SwitchTo(p, "relay", sets), IF sets THEN "relayed" ELSE "direct")
MaintainRelay(p, sets) == IF sets THEN SwitchTo(p, "relay", TRUE) ELSE Rested(Stopped(p), "direct")
UsePeerDirect(p, fresh, sets) ==
  IF sets THEN [SwitchTo(p, "peer", TRUE) EXCEPT !.kind = "peerDirect", !.age = IF fresh THEN 0 ELSE @]
  ELSE Rested(Stopped(p), "relayed")
ProbeDirect(p, sets) ==
  IF sets THEN [Rested([Stopped(p) EXCEPT !.kernel = "native"], "probe") EXCEPT !.proved = FALSE] ELSE p
PathAction(p, net, sets) ==
  CASE p.kind = "direct" /\ ~Fresh(p) /\ p.age >= DIRECT_GRACE -> UseRelay(p, sets)
    [] p.kind = "relayed" /\ p.ack -> UsePeerDirect(p, TRUE, sets)
    [] p.kind = "relayed" /\ ~p.ack /\ p.age >= DIRECT_RETRY /\ net.native -> ProbeDirect(p, sets)
    [] p.kind = "relayed" /\ ~p.ack /\ ~(p.age >= DIRECT_RETRY /\ net.native) -> MaintainRelay(p, sets)
    [] p.kind = "probe" /\ p.proved -> Rested(p, "direct")
    [] p.kind = "probe" /\ ~p.proved /\ p.age >= DIRECT_GRACE -> UseRelay(p, sets)
    [] p.kind = "peerDirect" /\ net.reported /\ (Fresh(p) \/ p.age < DIRECT_GRACE) -> UsePeerDirect(p, Fresh(p), sets)
    [] p.kind = "peerDirect" /\ ~(net.reported /\ (Fresh(p) \/ p.age < DIRECT_GRACE)) -> UseRelay(p, sets)
    [] OTHER -> p

-----------------------------------------------------------------------------
NewPeer(net) ==
  [kind |-> "direct", age |-> 0, proved |-> FALSE, via |-> "relay", forwarder |-> FALSE, ack |-> FALSE,
   handshake |-> HANDSHAKE_FRESH, kernel |-> IF net.native THEN "native" ELSE "none"]

PathsInit ==
  /\ offered = TRUE /\ resolves = TRUE
  /\ answers = [r \in Relays |-> "udp"]
  /\ peerNet \in [PathPeers -> [native : BOOLEAN, nativeUp : {FALSE}, reported : {TRUE}, punchUp : {FALSE}]]
  /\ mesh = 0 /\ unheard = 0 /\ observed = FALSE
  /\ failures = NoFailures
  /\ peer = [p \in PathPeers |-> NewPeer(peerNet[p])]
  /\ turnDue = TRUE /\ pathEvents = 0

(* manage_paths() while relays are offered; `refused` are the peers whose  *)
(* endpoint the interface refuses to set in this turn.                     *)
ManagePaths(refused) ==
  LET checked == Checked
      kept == mesh # 0 /\ ~checked.drop
      next == IF kept THEN mesh ELSE Choose(Candidates, checked.failures)
      before == [p \in PathPeers |-> IF kept THEN peer[p] ELSE [Stopped(peer[p]) EXCEPT !.ack = FALSE]]
  IN /\ offered /\ turnDue /\ turnDue' = FALSE
     /\ mesh' = next /\ failures' = checked.failures
     /\ unheard' = IF kept THEN unheard ELSE 0
     /\ observed' = (kept /\ observed)
     /\ peer' = IF next = 0 THEN before
                ELSE [p \in PathPeers |-> PathAction(before[p], peerNet[p], p \notin refused)]
     /\ pathEvents + Cardinality(refused) <= MaxPathEvents /\ pathEvents' = pathEvents + Cardinality(refused)
     /\ UNCHANGED netVars

(* disable_relay(): native endpoints are put back by the session it stops. *)
DisableRelay ==
  /\ ~offered /\ turnDue /\ turnDue' = FALSE
  /\ mesh' = 0 /\ unheard' = 0 /\ observed' = FALSE
  /\ peer' = [p \in PathPeers |->
       LET stopped == [Rested(Stopped(peer[p]), "direct") EXCEPT !.ack = FALSE]
       IN IF mesh # 0 /\ peer[p].forwarder /\ peerNet[p].native
          THEN [stopped EXCEPT !.kernel = "native"] ELSE stopped]
  /\ UNCHANGED <<failures, pathEvents, netVars>>

(* Packets to the peer get through on the path the interface uses.         *)
Carries(p) ==
  \/ peer[p].kernel = "native" /\ peerNet[p].nativeUp
  \/ peer[p].kernel = "forwarder" /\ peer[p].via = "relay" /\ mesh # 0 /\ answers[mesh] # "no"
  \/ peer[p].kernel = "forwarder" /\ peer[p].via = "peer" /\ peerNet[p].punchUp

(* Time passes until the loop's next turn: handshakes on the paths that    *)
(* carry, answers of the relay and to the punches of each forwarder.       *)
PathTick ==
  /\ ~turnDue /\ turnDue' = TRUE
  /\ failures' = Cooled(failures)
  /\ unheard' = IF mesh # 0 /\ answers[mesh] # "no" THEN 0 ELSE Older(unheard, RELAY_HEALTH)
  /\ observed' = (mesh # 0 /\ answers[mesh] = "udp")
  /\ peer' = [p \in PathPeers |->
       [peer[p] EXCEPT !.age = Older(@, DIRECT_RETRY + DIRECT_GRACE),
                       !.ack = peer[p].forwarder /\ peerNet[p].reported /\ peerNet[p].punchUp,
                       !.proved = @ \/ Carries(p),
                       !.handshake = IF Carries(p) THEN 0 ELSE Older(@, HANDSHAKE_FRESH)]]
  /\ UNCHANGED <<mesh, pathEvents, netVars>>

-----------------------------------------------------------------------------
PathEvent == pathEvents < MaxPathEvents /\ pathEvents' = pathEvents + 1 /\ UNCHANGED <<relayVars, turnDue>>

RelayChanges(r, how) ==
  /\ PathEvent /\ how # answers[r] /\ answers' = [answers EXCEPT ![r] = how]
  /\ UNCHANGED <<offered, resolves, peerNet, peer>>
OfferChanges ==
  /\ PathEvent /\ offered' = ~offered /\ UNCHANGED <<resolves, answers, peerNet, peer>>
ResolutionChanges ==
  /\ PathEvent /\ resolves' = ~resolves /\ UNCHANGED <<offered, answers, peerNet, peer>>
ReachChanges(p, field) ==
  /\ PathEvent /\ peerNet' = [peerNet EXCEPT ![p][field] = ~@]
  /\ UNCHANGED <<offered, resolves, answers, peer>>
(* An applied peer change writes the peer's own endpoint again.            *)
PeerUpserted(p) ==
  /\ PathEvent /\ peerNet[p].native /\ peer' = [peer EXCEPT ![p].kernel = "native"]
  /\ UNCHANGED netVars

PathsNext ==
  \/ \E refused \in SUBSET PathPeers : ManagePaths(refused)
  \/ DisableRelay \/ PathTick
  \/ \E r \in Relays, how \in {"udp", "wss", "no"} : RelayChanges(r, how)
  \/ OfferChanges \/ ResolutionChanges
  \/ \E p \in PathPeers : PeerUpserted(p) \/ \E field \in {"nativeUp", "reported", "punchUp"} : ReachChanges(p, field)

(* The loop keeps turning.                                                 *)
PathsFairness == WF_pathVars(ManagePaths({})) /\ WF_pathVars(DisableRelay) /\ WF_pathVars(PathTick)

PathsSpec == PathsInit /\ [][PathsNext]_pathVars /\ PathsFairness

-----------------------------------------------------------------------------
ByUdp == {r \in Relays : answers[r] = "udp"}

(* Once the network stays as it is, the agent ends up on the first relay   *)
(* that answers it, whatever it tried before and however long each one is  *)
(* backing off, so that two agents meet on the same one.  On a WebSocket   *)
(* it stays where it is: a better relay is only probed over UDP.           *)
SettlesOnFirstRelay ==
  <>[](offered /\ resolves /\ ByUdp # {} => mesh # 0 /\ (mesh = Min(ByUdp) \/ answers[mesh] = "wss"))

(* A peer is reached again and again while a relay answers, although the   *)
(* agent leaves the relay to probe the native path, the interface refuses  *)
(* an endpoint or a peer change rewrites it.                               *)
RelayedPeersReached ==
  \A p \in PathPeers : []<>(Carries(p) \/ ~(offered /\ resolves /\ \E r \in Relays : answers[r] # "no"))
=============================================================================
