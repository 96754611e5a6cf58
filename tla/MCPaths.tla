------------------------------ MODULE MCPaths -------------------------------
(***************************************************************************)
(* Instances of how packets find a path: the Linux agent's relays and      *)
(* direct paths, the phone's, and one agent's session with a relay over    *)
(* UDP and its WebSocket fallback.                                         *)
(*                                                                         *)
(* The components share no state at this level, so `focus` picks, once and *)
(* for all, the one whose steps a behaviour shows; the others stay as they *)
(* started, and fairness is asked of the one that runs.                    *)
(***************************************************************************)
EXTENDS PeerPaths, MobileRelay, RelaySession

VARIABLE focus

pathsVars == <<pathVars, mobileVars, sessionVars, focus>>

MCPathsInit ==
  /\ focus \in {"agent", "phone", "session"}
  /\ PathsInit /\ MobileInit /\ SessionInit
  /\ focus # "agent" => \A p \in PathPeers : ~peerNet[p].native
  /\ focus # "phone" => direct = "no" /\ ~hasDirect
  /\ focus # "session" => udpNet = "up" /\ wssNet = "up"

MCPathsNext ==
  \/ /\ focus = "agent" /\ PathsNext
     /\ UNCHANGED <<mobileVars, sessionVars, focus>>
  \/ /\ focus = "phone" /\ MobileNext
     /\ UNCHANGED <<pathVars, sessionVars, focus>>
  \/ /\ focus = "session" /\ SessionNext
     /\ UNCHANGED <<pathVars, mobileVars, focus>>

(* PathsFairness, MobileFairness and SessionFairness, of the component that *)
(* runs.                                                                   *)
MCPathsFairness ==
  /\ WF_pathVars(focus = "agent" /\ ManagePaths({})) /\ WF_pathVars(focus = "agent" /\ DisableRelay)
  /\ WF_pathVars(focus = "agent" /\ PathTick)
  /\ WF_mobileVars(focus = "phone" /\ (MobileTick \/ Outbound))
  /\ WF_mobileVars(focus = "phone" /\ owed /\ DirectReceived)
  /\ WF_mobileVars(focus = "phone" /\ Configure(relays, hasDirect))
  /\ \A r \in Relays, l \in {"udp", "wss"} :
       WF_mobileVars(focus = "phone" /\ <<r, l>> \in replies /\ Observed(r, l))
  /\ WF_sessionVars(focus = "session" /\ EndRound)
  /\ WF_sessionVars(focus = "session" /\ ((\E s \in Streams : ConnectDone(s)) \/ ConnectFail))
  /\ WF_sessionVars(focus = "session" /\ HubUdpRegister) /\ WF_sessionVars(focus = "session" /\ HubUdpPing)
  /\ WF_sessionVars(focus = "session" /\ RecvObserved)
  /\ \A s \in Streams : /\ WF_sessionVars(focus = "session" /\ HubWssFrame(s))
                        /\ WF_sessionVars(focus = "session" /\ HubClosed(s))
  /\ WF_sessionVars(focus = "session" /\ Lose)

MCPathsSpec == MCPathsInit /\ [][MCPathsNext]_pathsVars /\ MCPathsFairness
-----------------------------------------------------------------------------
(* The eventualities of the three components, each of the behaviours that  *)
(* show its component: the others never leave their initial state.         *)
AgentSettles == focus = "agent" => SettlesOnFirstRelay
AgentReachesPeers == focus = "agent" => RelayedPeersReached
PhoneFindsRelay == focus = "phone" => PhoneSettles
PhonePacketsArrive == focus = "phone" => PhoneReachesPeer
SessionRegainsUdp == focus = "session" => UdpIsRegained
SessionFallsBack == focus = "session" => WssTakesOver

(* Each client ends up on the transport and relay that works best for it,  *)
(* and while some path works packets get through.                          *)
RelaysSettle ==
  /\ AgentSettles /\ PhoneFindsRelay /\ SessionRegainsUdp /\ SessionFallsBack
  /\ AgentReachesPeers /\ PhonePacketsArrive
=============================================================================
