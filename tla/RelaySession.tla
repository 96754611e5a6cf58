---------------------------- MODULE RelaySession ----------------------------
(***************************************************************************)
(* One agent's session with its relay: the link ladder that moves relay    *)
(* frames between UDP and the WebSocket fallback (blaktail-relay-proto/src/ *)
(* ladder.rs, blaktaild/src/relay_client.rs), composed with the relay of   *)
(* module RelayHub and a network that loses and delays frames.             *)
(*                                                                         *)
(* Capabilities stay valid and nobody is idle for IdleSecs here (RelayHub  *)
(* covers both), so the relay's clock stands still.  A probe round lasts 5 *)
(* or 25 seconds: a datagram that has not arrived when it ends is lost.    *)
(***************************************************************************)
EXTENDS Naturals, Sequences

CONSTANTS
  Self,        \* the agent's node id
  Udp,         \* the agent's relay socket, as the relay sees it
  Streams,     \* WebSocket connections the agent may open, one after another
  Ip,          \* the agent's IP address
  None,        \* no connection, no registration
  MaxQueue     \* bound on the frames waiting on a WebSocket

ASSUME SessionAssumption ==
  Udp \notin Streams /\ None \notin Streams \cup {Udp} /\ MaxQueue \in Nat

VARIABLES
  link,        \* LinkLadder.link
  answered,    \* LinkLadder.answered
  misses,      \* LinkLadder.misses, saturating at WSS_AFTER_UDP_MISSES
  hits,        \* LinkLadder.hits, saturating at UDP_AFTER_HITS
  wss,         \* LinkState.wss
  connecting,  \* LinkState.connecting
  alive,       \* TCP connections that are up
  queue,       \* frames on the current connection, towards the relay
  udpOut,      \* datagrams on their way to the relay
  udpIn,       \* datagrams on their way to the agent
  udpNet,      \* what the network does to UDP: "up" keeps a probe's datagrams
               \* in order and ahead of its TCP copy, "oneway" loses answers,
               \* "down" loses everything sent; the last two reorder
  wssNet       \* whether TCP 443 gets through: "up" or "down"

VARIABLES addr, expires, seen, streams, sources, now, owner, forward

ladderVars == <<link, answered, misses, hits>>
wssVars == <<wss, connecting, alive, queue>>
sessionNetVars == <<udpOut, udpIn, udpNet, wssNet>>
hubVars == <<addr, expires, seen, streams, sources, now, owner, forward>>
sessionVars == <<ladderVars, wssVars, sessionNetVars, hubVars>>

Hub == INSTANCE RelayHub
         WITH Nodes <- {Self}, UdpAddrs <- {Udp}, Ips <- {Ip},
              IpOf <- [x \in {Udp} \cup Streams |-> Ip], NoAddr <- None,
              MaxBuckets <- 1, IdleSecs <- 1, MaxNow <- 0

WSS_AFTER_UDP_MISSES == 3
UDP_AFTER_HITS == 3
CapabilityExpiry == 1

Saturating(n, top) == IF n < top THEN n + 1 ELSE top

SessionInit ==
  /\ link = "udp" /\ answered = "no" /\ misses = 0 /\ hits = 0
  /\ wss = None /\ connecting = "no" /\ alive = {} /\ queue = <<>>
  /\ udpNet \in {"up", "oneway", "down"} /\ wssNet \in {"up", "down"}
  /\ udpOut = IF udpNet = "down" THEN {} ELSE {"REGISTER", "PING"}
  /\ udpIn = {}
  /\ Hub!HubInit

-----------------------------------------------------------------------------

(* register_and_ping(): always over UDP; over the WebSocket too while it   *)
(* carries traffic and udp_proven() is false (WssLink::send drops a frame  *)
(* when its channel is full).  l, h and w are the ladder's link and hits   *)
(* and the connection as the probe finds them.                             *)
RegisterAndPing(l, h, w) ==
  /\ udpOut' = IF udpNet = "down" THEN {} ELSE {"REGISTER", "PING"}
  /\ queue' = IF w = None \/ w \notin alive' THEN <<>>
              ELSE IF l = "wss" /\ h = 0 /\ Len(queue) + 2 <= MaxQueue
              THEN queue \o <<"REGISTER", "PING">>
              ELSE queue

(* Mutant: connect only when the ladder moves to WSS, so a failed or       *)
(* broken connection is never replaced.                                    *)
ConnectOnce(l) == IF l = "wss" /\ link = "udp" THEN "yes" ELSE connecting

(* end_round(): connect when the ladder says WSS and there is no usable    *)
(* connection.                                                             *)
Connecting(l) ==
  IF l = "wss" /\ (wss = None \/ wss \notin alive) THEN "yes" ELSE connecting

(* LinkLadder::end_round().                                                *)
LadderEndRound ==
  /\ answered' = "no"
  /\ hits' = IF answered = "yes" THEN Saturating(hits, UDP_AFTER_HITS) ELSE 0
  /\ misses' = IF answered = "yes" THEN 0
               ELSE Saturating(misses, WSS_AFTER_UDP_MISSES)
  /\ link' = IF link = "udp" /\ misses' >= WSS_AFTER_UDP_MISSES THEN "wss"
             ELSE IF link = "wss" /\ hits' >= UDP_AFTER_HITS THEN "udp"
             ELSE link

(* Mutant: dropping a WssLink does not abort its task.                     *)
EndRoundLeaks ==
  /\ udpOut = {} /\ udpIn = {}
  /\ LadderEndRound
  /\ wss' = IF link' = "udp" THEN None ELSE wss
  /\ alive' = alive
  /\ connecting' = Connecting(link')
  /\ RegisterAndPing(link', hits', wss')
  /\ UNCHANGED <<udpIn, udpNet, wssNet, hubVars>>

(* The round's timer: RelayMesh::end_round, then the next probe.  Leaving  *)
(* WSS drops the WssLink, which aborts its task and closes the connection. *)
EndRound ==
  /\ udpOut = {} /\ udpIn = {}
  /\ LadderEndRound
  /\ wss' = IF link' = "udp" THEN None ELSE wss
  /\ alive' = IF link' = "udp" THEN {} ELSE alive
  /\ connecting' = Connecting(link')
  /\ RegisterAndPing(link', hits', wss')
  /\ UNCHANGED <<udpIn, udpNet, wssNet, hubVars>>

(* connect_wss() succeeds; the relay's connection task sends Open before   *)
(* any frame.  A connection nobody waits for any more is dropped again,    *)
(* and either way a probe follows.                                         *)
ConnectDone(s) ==
  /\ connecting = "yes" /\ wssNet = "up"
  /\ s \notin streams
  /\ connecting' = "no"
  /\ wss' = IF link = "wss" THEN s ELSE wss
  /\ alive' = IF link = "wss" THEN {s} ELSE alive
  /\ RegisterAndPing(link, hits, wss')
  /\ Hub!StreamOpen(s)
  /\ UNCHANGED <<ladderVars, udpIn, udpNet, wssNet>>

ConnectFail ==
  /\ connecting = "yes" /\ wssNet = "down"
  /\ connecting' = "no"
  /\ wss' = IF link = "wss" THEN None ELSE wss
  /\ UNCHANGED <<ladderVars, alive, queue, sessionNetVars, hubVars>>

(* The connection dies under the agent (idle, write timeout, network).     *)
WssBreak ==
  /\ wssNet = "down" /\ alive # {}
  /\ alive' = {}
  /\ queue' = <<>>
  /\ UNCHANGED <<ladderVars, wss, connecting, sessionNetVars, hubVars>>

-----------------------------------------------------------------------------
(* The relay handles frames.                                               *)
HubUdpRegister ==
  /\ "REGISTER" \in udpOut
  /\ udpOut' = udpOut \ {"REGISTER"}
  /\ Hub!Register(Self, CapabilityExpiry, Udp)
  /\ UNCHANGED <<ladderVars, wssVars, udpIn, udpNet, wssNet>>

HubUdpPing ==
  /\ "PING" \in udpOut
  /\ udpNet = "up" => "REGISTER" \notin udpOut
  /\ udpOut' = udpOut \ {"PING"}
  /\ \/ /\ Hub!Refresh(Self, Udp)
        /\ udpIn' = IF udpNet = "up" THEN {"OBSERVED"} ELSE udpIn
     \/ /\ addr[Self] # Udp
        /\ Hub!Refused(Udp)
        /\ udpIn' = udpIn
  /\ UNCHANGED <<ladderVars, wssVars, udpNet, wssNet>>

(* Frames of a WebSocket arrive in order.                                  *)
HubWssFrame(s) ==
  /\ s = wss /\ s \in alive /\ queue # <<>>
  /\ udpNet = "up" => udpOut = {}
  /\ queue' = Tail(queue)
  /\ \/ Head(queue) = "REGISTER" /\ Hub!Register(Self, CapabilityExpiry, s)
     \/ Head(queue) = "PING" /\ Hub!Refresh(Self, s)
     \/ Head(queue) = "PING" /\ addr[Self] # s /\ Hub!Refused(s)
  /\ UNCHANGED <<ladderVars, wss, connecting, alive, sessionNetVars>>

(* Mutant: the relay forgets a closed connection but not who used it.      *)
HubClosedKeeps(s) ==
  /\ s \notin alive /\ s \in streams
  /\ streams' = streams \ {s}
  /\ UNCHANGED <<ladderVars, wssVars, sessionNetVars, addr, expires, seen, sources, now, owner, forward>>

HubClosed(s) ==
  /\ s \notin alive
  /\ Hub!StreamClosed(s)
  /\ UNCHANGED <<ladderVars, wssVars, sessionNetVars>>

-----------------------------------------------------------------------------

(* handle_frame(OBSERVED) over UDP.                                        *)
RecvObserved ==
  /\ udpIn # {}
  /\ udpIn' = {}
  /\ answered' = "yes"
  /\ UNCHANGED <<link, misses, hits, wssVars, udpOut, udpNet, wssNet, hubVars>>

Lose ==
  /\ udpNet # "up"
  /\ \/ \E m \in udpOut : udpOut' = udpOut \ {m} /\ udpIn' = udpIn
     \/ udpIn # {} /\ udpIn' = {} /\ udpOut' = udpOut
  /\ UNCHANGED <<ladderVars, wssVars, udpNet, wssNet, hubVars>>

NetChange ==
  /\ udpNet' \in {"up", "oneway", "down"} /\ wssNet' \in {"up", "down"}
  /\ <<udpNet', wssNet'>> # <<udpNet, wssNet>>
  /\ UNCHANGED <<ladderVars, wssVars, udpOut, udpIn, hubVars>>

Deliver ==
  \/ HubUdpRegister \/ HubUdpPing \/ RecvObserved
  \/ \E s \in Streams : HubWssFrame(s) \/ HubClosed(s)

SessionNext ==
  \/ EndRound
  \/ \E s \in Streams : ConnectDone(s)
  \/ ConnectFail
  \/ WssBreak
  \/ Deliver
  \/ Lose
  \/ NetChange

SessionSpec == SessionInit /\ [][SessionNext]_sessionVars

(* Timers fire, the runtime runs its tasks, TCP delivers or fails, and a   *)
(* datagram arrives or is lost.                                            *)
SessionFairness ==
  /\ WF_sessionVars(EndRound)
  /\ WF_sessionVars(((\E s \in Streams : ConnectDone(s)) \/ ConnectFail))
  /\ WF_sessionVars(HubUdpRegister) /\ WF_sessionVars(HubUdpPing) /\ WF_sessionVars(RecvObserved)
  /\ \A s \in Streams : WF_sessionVars(HubWssFrame(s)) /\ WF_sessionVars(HubClosed(s))
  /\ WF_sessionVars(Lose)
FairSession == SessionSpec /\ SessionFairness

-----------------------------------------------------------------------------
(* Every variable has its type.                                            *)
SessionTypeOK ==
  /\ link \in {"udp", "wss"} /\ answered \in {"yes", "no"}
  /\ misses \in 0..WSS_AFTER_UDP_MISSES /\ hits \in 0..UDP_AFTER_HITS
  /\ wss \in Streams \cup {None} /\ connecting \in {"yes", "no"}
  /\ alive \subseteq Streams
  /\ queue \in Seq({"REGISTER", "PING"}) /\ Len(queue) <= MaxQueue
  /\ udpOut \subseteq {"REGISTER", "PING"} /\ udpIn \subseteq {"OBSERVED"}

(* The agent never keeps a connection open that it does not use: whatever  *)
(* order connects, link changes and breaks come in, the only live one is   *)
(* LinkState.wss.                                                          *)
NoLeakedConnection == alive \subseteq {wss}

(* When UDP works from some point on, the agent ends up on UDP and         *)
(* registered there: fallback is never permanent ("three answered rounds   *)
(* in a row promote back to UDP").                                         *)
UdpIsRegained ==
  <>[](udpNet = "up") => <>[](link = "udp" /\ addr[Self] = Udp)

(* When UDP is dropped from some point on and TCP works, the agent ends up *)
(* on a WebSocket and registered there, so relaying resumes.               *)
WssTakesOver ==
  <>[](udpNet = "down" /\ wssNet = "up") =>
    <>[](link = "wss" /\ wss \in alive /\ addr[Self] = wss)

(* The relay cannot tell this client from any other: whatever the ladder,  *)
(* the network and a reconnect do, what they make the relay's tables go    *)
(* through is a behaviour of RelayHub, so all that holds of it holds here. *)
RelayServesSession == Hub!HubSpec

(* The session's connections, at the agent and at the relay.               *)
SessionInv == SessionTypeOK /\ NoLeakedConnection
=============================================================================
