---------------------------- MODULE LinuxNetwork ----------------------------
(***************************************************************************)
(* What the Linux agent does to its host: the WireGuard peers and routes,  *)
(* the inbound filter, the forward allow-list with its staging chain, NAT  *)
(* and the forwarding sysctls (blaktaild/src/lib.rs, LinuxNetwork and      *)
(* apply_peer_map(); blaktaild/src/forward_filter.rs; the Up, Run, Pause   *)
(* and Down commands of blaktaild/src/main.rs).                            *)
(*                                                                         *)
(* An operation is the sequence of commands it runs; any of them can fail, *)
(* and the process can stop between two.  A chain is the version of the    *)
(* filter it was written from, with its rules in it or not yet.            *)
(***************************************************************************)
EXTENDS Naturals, SequencesExt, FiniteSets

CONSTANTS
  HostPeers, Families,
  FailAt, CrashAt,        \* commands that may fail; before which it may stop
  MaxHostOps, MaxHostFaults, MaxFilter

ASSUME LinuxAssumption ==
  /\ IsFiniteSet(HostPeers) /\ IsFiniteSet(Families)
  /\ MaxHostOps \in Nat /\ MaxHostFaults \in Nat /\ MaxFilter \in Nat

VARIABLES
  kernel,    \* the host's state
  host0,     \* its forwarding sysctls before the agent
  node,      \* NodeState in memory: peers, filter, originals, routed families
  saved,     \* state.json
  todo,      \* the commands the operation still runs
  undo,      \* what its error path runs
  guarded,   \* a filter was put in force and not cleared since
  tainted,   \* an operation failed half way since the interface was made
  ops, hostFaults

hostVars == <<kernel, host0, node, saved, todo, undo, guarded, tainted, ops, hostFaults>>

NoChain == [version |-> 0, full |-> FALSE]
NoOriginal == "none"

LinuxInit ==
  /\ host0 \in [Families -> BOOLEAN]
  /\ kernel = [peers |-> {}, routes |-> {}, acl |-> FALSE, live |-> NoChain, liveJump |-> FALSE,
               staged |-> NoChain, stagedJump |-> FALSE, accepts |-> FALSE, nat |-> FALSE,
               forwarding |-> host0]
  /\ node = [peers |-> {}, filter |-> 0, originals |-> [f \in Families |-> NoOriginal],
             routed |-> {}, up |-> FALSE]
  /\ saved = [peers |-> {}, filter |-> 0, originals |-> [f \in Families |-> NoOriginal]]
  /\ todo = <<>> /\ undo = <<>> /\ guarded = FALSE /\ tainted = FALSE
  /\ ops = 0 /\ hostFaults = 0

-----------------------------------------------------------------------------
Cmd(do, arg) == <<do, arg>>
Do(do) == <<do, 0>>
Each(S, do) == SetToSeq({Cmd(do, x) : x \in S})

(* Mutant: the live chain is taken down before the new one is ready.       *)
InstallInPlace == <<Do("dropLive"), Do("unstage"), Do("new"), Do("fill"), Do("jump"), Do("rename")>>
(* forward_filter::install().                                              *)
Install == <<Do("unstage"), Do("new"), Do("fill"), Do("jump"), Do("dropLive"), Do("rename")>>

(* apply_ingress(): the chain is cleared and written again.                *)
ApplyIngress == <<Do("aclOff"), Do("aclOn")>>

(* apply_forward_filter(): nothing to install while nothing is routed.     *)
ApplyForward(v) == IF node.routed = {} \/ v = 0 THEN <<>> ELSE Install \o <<Do("acceptsOff")>>

(* peer_diff().                                                            *)
PeerDiff(old, new) == Each(old \ new, "remove") \o Each(new \ old, "upsert")

(* configure_router() for the families in F.                               *)
Router(F) ==
  <<Do("rulesOff")>> \o Each(Families \ F, "restore") \o
  (IF F = {} THEN <<Do("clear")>>
   ELSE (IF node.filter # 0 THEN Install ELSE <<Do("clear"), Do("acceptsOn")>>)
        \o <<Do("natOn")>> \o Each(F, "enable"))
  \o <<Cmd("routed", F)>>

-----------------------------------------------------------------------------
Found(f) == IF kernel.forwarding[f] THEN "on" ELSE "off"
(* What was found the first time is what is put back.                      *)
Enabled(n, f) == [n EXCEPT !.originals[f] = IF @ = NoOriginal THEN Found(f) ELSE @]

(* What a command does to the host ...                                     *)
Effect(c, k) ==
  LET x == c[2] IN
  CASE c[1] = "setup"    -> [k EXCEPT !.peers = {}, !.routes = {}, !.acl = FALSE]
    [] c[1] = "upsert"   -> [k EXCEPT !.peers = @ \cup {x}]
    [] c[1] = "remove"   -> [k EXCEPT !.peers = @ \ {x}]
    [] c[1] = "routes"   -> [k EXCEPT !.routes = k.peers]
    [] c[1] = "aclOff"   -> [k EXCEPT !.acl = FALSE]
    [] c[1] = "aclOn"    -> [k EXCEPT !.acl = TRUE]
    [] c[1] = "unstage"  -> [k EXCEPT !.stagedJump = FALSE, !.staged = NoChain]
    [] c[1] = "new"      -> [k EXCEPT !.staged = [version |-> node.filter, full |-> FALSE]]
    [] c[1] = "fill"     -> [k EXCEPT !.staged.full = TRUE]
    [] c[1] = "jump"     -> [k EXCEPT !.stagedJump = TRUE]
    [] c[1] = "dropLive" -> [k EXCEPT !.liveJump = FALSE, !.live = NoChain]
    [] c[1] = "rename"   -> [k EXCEPT !.live = k.staged, !.liveJump = k.stagedJump,
                                      !.staged = NoChain, !.stagedJump = FALSE]
    [] c[1] = "clear"    -> [k EXCEPT !.live = NoChain, !.liveJump = FALSE,
                                      !.staged = NoChain, !.stagedJump = FALSE]
    [] c[1] = "acceptsOn"  -> [k EXCEPT !.accepts = TRUE]
    [] c[1] = "acceptsOff" -> [k EXCEPT !.accepts = FALSE]
    [] c[1] = "rulesOff" -> [k EXCEPT !.accepts = FALSE, !.nat = FALSE]
    [] c[1] = "natOn"    -> [k EXCEPT !.nat = TRUE]
    [] c[1] = "enable"   -> [k EXCEPT !.forwarding[x] = TRUE]
    [] c[1] = "restore"  -> IF node.originals[x] = "off"
                            THEN [k EXCEPT !.forwarding[x] = FALSE] ELSE k
    [] c[1] = "down"     -> [k EXCEPT !.peers = {}, !.routes = {}, !.acl = FALSE, !.live = NoChain,
                                      !.liveJump = FALSE, !.staged = NoChain, !.stagedJump = FALSE]
    [] OTHER -> k

(* A process that starts knows what state.json holds.                      *)
Reloaded == [peers |-> saved.peers, filter |-> saved.filter, originals |-> saved.originals,
             routed |-> {}, up |-> FALSE]

(* ... and to the agent's own state.                                       *)
Noted(c, n) ==
  CASE c[1] = "enable"  -> Enabled(n, c[2])
    [] c[1] = "restore" -> [n EXCEPT !.originals[c[2]] = NoOriginal]
    [] c[1] = "routed"  -> [n EXCEPT !.routed = c[2]]
    [] c[1] = "peers"   -> [n EXCEPT !.peers = c[2]]
    [] c[1] \in {"down", "exit"} -> Reloaded
    [] OTHER -> n

Saved(n) == [peers |-> n.peers, filter |-> n.filter, originals |-> n.originals]

Idle == todo = <<>>

(* The next command of the operation succeeds.                             *)
Run ==
  /\ ~Idle
  /\ LET c == Head(todo) IN
     /\ kernel' = Effect(c, kernel) /\ node' = Noted(c, node)
     /\ saved' = IF c[1] = "write" THEN Saved(node) ELSE saved
     /\ guarded' = CASE c[1] = "rename" -> TRUE [] c[1] \in {"clear", "down"} -> FALSE
                     [] OTHER -> guarded
     /\ tainted' = IF c[1] = "setup" THEN FALSE ELSE tainted
     /\ undo' = IF c[1] = "write" THEN <<Do("exit")>> ELSE undo
  /\ todo' = Tail(todo)
  /\ UNCHANGED <<host0, ops, hostFaults>>

(* It fails: a half-made staging chain and a half-written inbound filter   *)
(* are taken away, then the operation's own error path runs.               *)
Fail ==
  /\ ~Idle /\ hostFaults < MaxHostFaults
  /\ LET c == Head(todo) IN
     /\ c[1] \in FailAt
     /\ todo' = (CASE c[1] \in {"new", "fill", "jump"} -> <<Do("unstage")>>
                   [] c[1] = "aclOn" -> <<Do("aclOff")>> [] OTHER -> <<>>)
                \o undo \o <<Do("error")>>
  /\ hostFaults' = hostFaults + 1 /\ tainted' = TRUE
  /\ UNCHANGED <<kernel, host0, node, saved, undo, guarded, ops>>

(* The process stops; the host keeps what was done to it.                  *)
Crash ==
  /\ node.up /\ hostFaults < MaxHostFaults /\ (~Idle => Head(todo)[1] \in CrashAt)
  /\ todo' = <<>> /\ undo' = <<>>
  /\ node' = Reloaded
  /\ hostFaults' = hostFaults + 1
  /\ UNCHANGED <<kernel, host0, saved, guarded, tainted, ops>>

Begin(prog, onError) ==
  /\ Idle /\ ops < MaxHostOps
  /\ ops' = ops + 1 /\ todo' = prog /\ undo' = onError
  /\ UNCHANGED <<kernel, host0, saved, guarded, tainted, hostFaults>>

-----------------------------------------------------------------------------
(* Up and Run: the interface is made anew, the router is configured with   *)
(* the known allow-list, and the saved peers are restored.  A failure ends *)
(* the process; Up takes the interface down first.                         *)
Start(F, failing) ==
  /\ ~node.up
  /\ Begin(<<Do("setup")>> \o Router(F) \o <<Do("write")>> \o Each(node.peers, "upsert")
             \o <<Do("routes")>> \o ApplyIngress, <<Do("rulesOff"), failing>>)
  /\ node' = [node EXCEPT !.up = TRUE]

(* sync_once() and apply_peer_map(): a snapshot with another peer set and, *)
(* on a routing peer, a newer allow-list.                                  *)
Sync(P, v) ==
  /\ node.up /\ v \in {node.filter, node.filter + 1} /\ v <= MaxFilter
  /\ node' = [node EXCEPT !.filter = v]
  /\ Begin(PeerDiff(node.peers, P) \o <<Do("routes")>> \o ApplyIngress \o ApplyForward(v)
             \o <<Cmd("peers", P), Do("write")>>, <<>>)

(* reconcile_forwarding() of a connector changes what is routed.           *)
Reroute(F) ==
  /\ node.up /\ F # node.routed
  /\ Begin(Router(F) \o <<Do("write")>>, <<Do("rulesOff")>>)
  /\ UNCHANGED node

(* Pause and Down; state.json is left as it was.                           *)
StopNode ==
  /\ node.up
  /\ Begin(Router({}) \o <<Do("down")>>, <<>>)
  /\ UNCHANGED node

LinuxNext ==
  \/ Run \/ Fail \/ Crash \/ StopNode
  \/ \E F \in SUBSET Families :
       Reroute(F) \/ \E failing \in {Do("down"), Do("exit")} : Start(F, failing)
  \/ \E P \in SUBSET HostPeers, v \in 0..MaxFilter : Sync(P, v)

LinuxSpec == LinuxInit /\ [][LinuxNext]_hostVars

-----------------------------------------------------------------------------
(* The chain a forwarded packet meets first.                               *)
InForce ==
  IF kernel.stagedJump THEN kernel.staged ELSE IF kernel.liveJump THEN kernel.live ELSE NoChain

(* forward_filter.rs:211-212 and lib.rs:2346-2347: once an allow-list is   *)
(* in force, a whole one is, whatever replaces it and whatever fails.      *)
FilterStaysInForce == guarded => InForce.full

(* lib.rs:2175-2178: a family the node does not route has the forwarding   *)
(* sysctl the host had before.                                             *)
ForwardingRestored ==
  Idle => \A f \in Families : node.originals[f] = NoOriginal => kernel.forwarding[f] = host0[f]

(* Between operations that all succeeded, the interface has exactly the    *)
(* peers and routes of the state the next difference is taken from.        *)
PeersInStep == (Idle /\ node.up /\ ~tainted) =>
  kernel.peers = node.peers /\ kernel.routes = node.peers

(* The host's filter, sysctls and peers, whatever fails.                   *)
NetworkInv == FilterStaysInForce /\ ForwardingRestored /\ PeersInStep
=============================================================================
