--------------------------- MODULE ControlUpdates ---------------------------
(***************************************************************************)
(* How a change at the coordinator reaches an agent: the control revision, *)
(* the long poll and its deltas (blaktail-coord/src/lib.rs), WireGuard-    *)
(* only peers and their key rotation (wg_only.rs), and the agent's sync    *)
(* loop (blaktaild/src/lib.rs, main.rs).                                   *)
(*                                                                         *)
(* One agent watches the peers Nodes.  Each peer owns one set of           *)
(* AllowedIPs, so the agent installs at most one entry per peer.  A        *)
(* rotated key is exported beside its predecessor, which gets an id of its *)
(* own from OverlapIds; ids are numbers because the agent sorts by them.   *)
(***************************************************************************)
EXTENDS Naturals, FiniteSets

CONSTANTS
  Nodes,          \* peers, by id
  OverlapIds,     \* ids for overlap rows
  MaxRevision,    \* bound on control_revision
  MaxFaults,      \* bound on lost answers, failed applies and restarts
  Rotations       \* keys a peer may rotate to: 2..Rotations

ASSUME ControlAssumption ==
  /\ Nodes \subseteq Nat /\ OverlapIds \subseteq Nat /\ Nodes \cap OverlapIds = {}
  /\ IsFiniteSet(Nodes) /\ MaxRevision \in Nat \ {0} /\ Rotations \in Nat \ {0}

VARIABLES
  nodeRows,           \* [live, key, policy, overlap (previous key and id)] per peer
  revision,       \* orgs.control_revision
  bumps,          \* row updates whose separate revision UPDATE has not run
  lostBump,       \* a coordinator stopped between the two (history)
  baseline,       \* control_views: (revision, ids) last sent to this agent
  poll,           \* the agent's request, where it is in list_updates
  node,           \* the agent: control_revision and installed peers
  saved,          \* state.json
  clean,          \* nothing failed since the last snapshot was applied (history)
  faults

controlVars == <<nodeRows, revision, bumps, lostBump, baseline, poll, node, saved, clean, faults>>

NoEntry == [id |-> 0, class |-> 0, key |-> 0, policy |-> 0]
NoOverlap == [key |-> 0, id |-> 0]
NoView == [revision |-> 0, ids |-> {}]
NoPoll == [at |-> "idle", forced |-> FALSE, revision |-> 0,
         kind |-> "none", peers |-> {}, removed |-> {}]

ControlInit ==
  /\ nodeRows = [n \in Nodes |-> [live |-> FALSE, key |-> 1, policy |-> 0, overlap |-> NoOverlap]]
  /\ revision = 1 /\ bumps = 0 /\ lostBump = FALSE /\ baseline = NoView
  /\ poll = NoPoll
  /\ node = [since |-> 0, peers |-> [n \in Nodes |-> NoEntry]] /\ saved = node
  /\ clean = TRUE /\ faults = 0

-----------------------------------------------------------------------------
(* What list_peers() exports: a row per live peer and, during an overlap,  *)
(* one with the previous key.                                              *)

Entry(i, n, k) == [id |-> i, class |-> n, key |-> k, policy |-> nodeRows[n].policy]

Exported ==
  {Entry(n, n, nodeRows[n].key) : n \in {m \in Nodes : nodeRows[m].live}}
    \cup {Entry(nodeRows[n].overlap.id, n, nodeRows[n].overlap.key) :
            n \in {m \in Nodes : nodeRows[m].live /\ nodeRows[m].overlap # NoOverlap}}

IdsOf(entries) == {e.id : e \in entries}
UsedIds == {nodeRows[n].overlap.id : n \in Nodes} \cup baseline.ids
             \cup {node.peers[n].id : n \in Nodes} \cup IdsOf(poll.peers)

-----------------------------------------------------------------------------
(* Writers.  Each bumps the revision in its own transaction.               *)

Room == revision + bumps < MaxRevision
Bump == Room /\ revision' = revision + 1
AgentUnchanged == UNCHANGED <<baseline, poll, node, saved, clean, faults>>

(* insert_peer(): a WireGuard-only peer appears.                           *)
InsertPeer(n) ==
  /\ ~nodeRows[n].live /\ nodeRows[n].policy = 0 /\ Bump
  /\ nodeRows' = [nodeRows EXCEPT ![n].live = TRUE]
  /\ AgentUnchanged /\ UNCHANGED <<bumps, lostBump>>

(* update_node_shares() and every other write that recompiles a peer's     *)
(* entry without touching its id or key.                                   *)
Recompile(n) ==
  /\ nodeRows[n].live /\ nodeRows[n].policy = 0 /\ Bump
  /\ nodeRows' = [nodeRows EXCEPT ![n].policy = 1]
  /\ AgentUnchanged /\ UNCHANGED <<bumps, lostBump>>

(* rotate_peer(): the new key is in force, the old one is exported under a *)
(* fresh id until overlap_until.                                           *)
RotatePeer(n) ==
  /\ nodeRows[n].live /\ nodeRows[n].key < Rotations /\ Bump
  /\ \E o \in OverlapIds \ UsedIds :
       nodeRows' = [nodeRows EXCEPT ![n].key = @ + 1,
                            ![n].overlap = [key |-> nodeRows[n].key, id |-> o]]
  /\ AgentUnchanged /\ UNCHANGED <<bumps, lostBump>>

(* revoke_peer(): a revoked peer never returns.                            *)
RevokePeer(n) ==
  /\ nodeRows[n].live /\ Bump
  /\ nodeRows' = [nodeRows EXCEPT ![n].live = FALSE, ![n].policy = 1]
  /\ AgentUnchanged /\ UNCHANGED <<bumps, lostBump>>

(* revoke_node(): a device revokes itself; the revision is a second        *)
(* statement outside any transaction.                                      *)
SelfRevoke(n) ==
  /\ nodeRows[n].live /\ nodeRows[n].overlap = NoOverlap /\ Room /\ bumps = 0 /\ bumps' = 1
  /\ nodeRows' = [nodeRows EXCEPT ![n].live = FALSE, ![n].policy = 1]
  /\ AgentUnchanged /\ UNCHANGED <<revision, lostBump>>

Expiring == {n \in Nodes : nodeRows[n].overlap # NoOverlap}
ClearOverlaps == nodeRows' = [n \in Nodes |-> [nodeRows[n] EXCEPT !.overlap = NoOverlap]]

(* expire_overlaps() from the poll of another agent, again two statements. *)
OtherExpires ==
  /\ Expiring # {} /\ Room /\ bumps = 0 /\ bumps' = 1 /\ ClearOverlaps
  /\ AgentUnchanged /\ UNCHANGED <<revision, lostBump>>

SecondStatement ==
  /\ bumps > 0 /\ bumps' = bumps - 1 /\ revision' = revision + 1
  /\ AgentUnchanged /\ UNCHANGED <<nodeRows, lostBump>>

-----------------------------------------------------------------------------
(* list_updates().                                                         *)

(* The request arrives; expire_overlaps() runs in every round of its loop, *)
(* as two statements, and forces a snapshot when it changed a row.         *)
PollRound ==
  /\ poll.at \in {"idle", "waiting"}
  /\ \/ /\ Expiring # {} /\ Room /\ bumps = 0 /\ bumps' = 1 /\ ClearOverlaps
        /\ poll' = [poll EXCEPT !.at = "expired", !.forced = TRUE]
     \/ /\ poll.at = "idle" /\ poll' = [poll EXCEPT !.at = "waiting"]
        /\ UNCHANGED <<nodeRows, bumps>>
  /\ UNCHANGED <<revision, lostBump, baseline, node, saved, clean, faults>>

Readable == (poll.at = "waiting") \/ (poll.at = "expired" /\ bumps = 0)

(* The revision is read before the peers are.                              *)
ReadRevision ==
  /\ Readable /\ (node.since = 0 \/ revision > node.since \/ poll.forced)
  /\ poll' = [poll EXCEPT !.at = "read", !.revision = revision]
  /\ UNCHANGED <<nodeRows, revision, bumps, lostBump, baseline, node, saved, clean, faults>>

(* The wait is over and nothing changed: 204.                              *)
NoContent ==
  /\ poll.at = "waiting" /\ node.since > 0 /\ revision <= node.since
  /\ poll' = NoPoll
  /\ UNCHANGED <<nodeRows, revision, bumps, lostBump, baseline, node, saved, clean, faults>>

(* Mutant: the remembered ids are used whatever revision the agent quotes. *)
BaselineOfAnyRevision == ~poll.forced /\ node.since > 0 /\ baseline # NoView

(* control_update_from_snapshot(): when a delta may be computed.           *)
BaselineFits == ~poll.forced /\ node.since > 0 /\ baseline.revision = node.since

(* list_peers(), remember_and_baseline() and the choice between snapshot   *)
(* and delta: a delta carries the new ids and the ids that went, nothing   *)
(* about the peers in both.                                                *)
AnswerPoll ==
  /\ poll.at = "read"
  /\ baseline' = [revision |-> poll.revision, ids |-> IdsOf(Exported)]
  /\ LET added == {e \in Exported : e.id \notin baseline.ids}
         gone == baseline.ids \ IdsOf(Exported) IN
       poll' = IF BaselineFits /\ (added # {} \/ gone # {})
               THEN [poll EXCEPT !.at = "sent", !.kind = "delta",
                                 !.peers = added, !.removed = gone]
               ELSE [poll EXCEPT !.at = "sent", !.kind = "snapshot", !.peers = Exported]
  /\ UNCHANGED <<nodeRows, revision, bumps, lostBump, node, saved, clean, faults>>

-----------------------------------------------------------------------------
(* The agent.                                                              *)

(* apply_control_peers(): a delta is merged into the installed peers.      *)
Desired ==
  IF poll.kind = "delta"
  THEN {e \in {node.peers[n] : n \in Nodes} \ {NoEntry} :
          e.id \notin poll.removed \cup IdsOf(poll.peers)} \cup poll.peers
  ELSE poll.peers

Last(entries) == CHOOSE e \in entries : \A f \in entries : f.id <= e.id
First(entries) == CHOOSE e \in entries : \A f \in entries : e.id <= f.id

(* installable_wireguard_peers(): the key on the interface stays while     *)
(* some desired entry has it; otherwise the first entry wins, which is the *)
(* current key in a snapshot and the lowest id in a merged delta.          *)
Installable(desired, kind) ==
  [n \in Nodes |->
     LET mine == {e \in desired : e.class = n}
         same == {e \in mine : node.peers[n] # NoEntry /\ e.key = node.peers[n].key}
         current == {e \in mine : kind = "snapshot" /\ e.id = n}
     IN IF same # {} THEN Last(same)
        ELSE IF mine = {} THEN NoEntry
        ELSE IF current # {} THEN First(current) ELSE First(mine)]

(* read_peers_response() and apply_peer_map(): peers and revision are      *)
(* written to state.json together.                                         *)
ApplyPeerMap ==
  /\ poll.at = "sent"
  /\ node' = [since |-> poll.revision, peers |-> Installable(Desired, poll.kind)]
  /\ saved' = node' /\ poll' = NoPoll
  /\ clean' = (clean \/ poll.kind = "snapshot")
  /\ UNCHANGED <<nodeRows, revision, bumps, lostBump, baseline, faults>>

Fault == faults < MaxFaults /\ faults' = faults + 1

(* apply_peer_map() fails at the interface: the peers stay, the revision   *)
(* has already moved.                                                      *)
ApplyFails ==
  /\ poll.at = "sent" /\ Fault
  /\ node' = [node EXCEPT !.since = poll.revision] /\ clean' = FALSE /\ poll' = NoPoll
  /\ UNCHANGED <<nodeRows, revision, bumps, lostBump, baseline, saved>>

(* The request or its answer is lost.                                      *)
LoseAnswer ==
  /\ poll.at # "idle" /\ poll' = NoPoll /\ Fault
  /\ UNCHANGED <<nodeRows, revision, bumps, lostBump, baseline, node, saved, clean>>

(* sync_once() when /updates fails too: the full list from /peers, which   *)
(* carries no revision.                                                    *)
PeersRecovery ==
  /\ poll.at = "idle" /\ Fault
  /\ node' = [node EXCEPT !.peers = Installable(Exported, "snapshot")]
  /\ saved' = node' /\ clean' = FALSE
  /\ UNCHANGED <<nodeRows, revision, bumps, lostBump, baseline, poll>>

(* restore_peers(): the agent restarts with state.json.                    *)
AgentRestart ==
  /\ node # saved /\ Fault /\ node' = saved /\ poll' = NoPoll
  /\ UNCHANGED <<nodeRows, revision, bumps, lostBump, baseline, saved, clean>>

(* The coordinator restarts, or clears its views at MAX_CONTROL_VIEWS.     *)
ViewsLost ==
  /\ baseline # NoView /\ Fault /\ baseline' = NoView
  /\ \/ UNCHANGED <<bumps, lostBump, poll>>
     \/ poll' = NoPoll /\ bumps' = 0 /\ lostBump' = (lostBump \/ bumps > 0)
  /\ UNCHANGED <<nodeRows, revision, node, saved, clean>>

-----------------------------------------------------------------------------
ControlStep ==
  \/ \E n \in Nodes : \/ InsertPeer(n) \/ Recompile(n) \/ RotatePeer(n)
                      \/ RevokePeer(n) \/ SelfRevoke(n)
  \/ OtherExpires \/ SecondStatement
  \/ PollRound \/ ReadRevision \/ NoContent \/ AnswerPoll
  \/ ApplyPeerMap \/ ApplyFails \/ LoseAnswer \/ PeersRecovery
  \/ AgentRestart \/ ViewsLost

ControlNext == ControlStep

(* sync_loop() polls forever and the coordinator answers each request.     *)
ControlFairness ==
  /\ WF_controlVars(PollRound) /\ WF_controlVars(ReadRevision)
  /\ WF_controlVars(AnswerPoll) /\ WF_controlVars(ApplyPeerMap)
  /\ WF_controlVars(SecondStatement)

ControlSpec == ControlInit /\ [][ControlNext]_controlVars /\ ControlFairness

-----------------------------------------------------------------------------
Entries == [id : Nat, class : Nat, key : Nat, policy : {0, 1}]

(* Types; the agent is never ahead of the coordinator's revision.          *)
ControlTypeOK ==
  /\ \A n \in Nodes : /\ nodeRows[n].live \in BOOLEAN /\ nodeRows[n].key \in 1 .. Rotations
                      /\ nodeRows[n].policy \in {0, 1}
  /\ revision \in 1 .. MaxRevision /\ bumps \in 0 .. 1
  /\ node.since \in 0 .. revision /\ saved.since \in 0 .. revision
  /\ \A n \in Nodes : node.peers[n] \in Entries
  /\ baseline.ids \subseteq Nodes \cup OverlapIds
  /\ poll.peers \subseteq Entries

(* No ghost peers: an agent that has acknowledged the current revision and *)
(* has applied everything since its last snapshot holds no peer that was   *)
(* revoked, whatever answers were lost and however often the coordinator   *)
(* forgot its views.  This is what makes deltas safe to merge              *)
(* (control_update_from_snapshot(), apply_control_peers()).                *)
NoGhostPeers ==
  poll.at = "idle" /\ clean /\ node.since = revision /\ bumps = 0 /\ ~lostBump =>
    \A n \in Nodes : node.peers[n] # NoEntry => nodeRows[n].live

(* The comment at installable_wireguard_peers(): the old key is kept "until*)
(* the overlap row disappears" and policy fields "come from the desired    *)
(* row".  Hence an agent that met no fault and acknowledged the current    *)
(* revision has the exported key and policy of every live peer.            *)
AgentInStep ==
  poll.at = "idle" /\ faults = 0 /\ node.since = revision /\ bumps = 0 =>
    \A n \in Nodes : nodeRows[n].live /\ nodeRows[n].overlap = NoOverlap =>
      node.peers[n] = Entry(n, n, nodeRows[n].key)

(* Every bump reaches the agent: once the coordinator is quiet the agent   *)
(* acknowledges the latest revision (list_updates(), sync_loop()).         *)
RevisionReached == []<>(node.since = revision)

(* The peer map an agent holds, whatever answers were lost.                *)
ControlInv == ControlTypeOK /\ NoGhostPeers
=============================================================================
