------------------------------- MODULE Shares -------------------------------
(***************************************************************************)
(* Shared folders: who may publish one, who may open it, and how the rule  *)
(* travels from the organisation's policy to the listener on the sharing   *)
(* device and the folder browser on the reading device                     *)
(* (blaktail-coord/src/shares.rs and the drive half of lib.rs,             *)
(* blaktaild/src/share.rs, drive.rs and the loop of main.rs).              *)
(*                                                                         *)
(* A command line on the device rewrites shares.json and then publishes    *)
(* the list; the agent's loop does the same on its own when it replaces    *)
(* its listener.  The two are different processes that share a file.       *)
(***************************************************************************)
EXTENDS Naturals, FiniteSetsExt

CONSTANTS
    Boxes,          \* the organisation's devices
    Publishers,     \* the devices whose users run the share commands
    Labels,         \* canonical share names
    Person,         \* [Boxes -> identity of the device's user and its tags]
    Teams,          \* [group names -> members, by user id or by e-mail]
    DrivePolicies,  \* the drive sections an administrator writes
    NetPolicies,    \* what the rest of the policy lets <<from, to>> send
    Nil,            \* nothing here: no share, no drive section, no listener
    MAX_SHARES,     \* shares.json rows a device may hold
    MaxShareEdits,  \* bound on policy edits and share commands
    MaxShareFaults  \* bound on failed calls, failed binds and restarts

ASSUME SharesAssumption ==
    /\ Publishers \subseteq Boxes
    /\ MAX_SHARES \in Nat /\ MaxShareEdits \in Nat /\ MaxShareFaults \in Nat
    /\ Nil \notin [share : BOOLEAN, access : BOOLEAN, local : SUBSET (Boxes \X Labels \X {"ro", "rw"}),
                   callers : SUBSET (Boxes \X Labels \X {"ro", "rw"})]

VARIABLES
    drive,      \* the organisation's drive section, or NoDrive
    net,        \* the organisation's network rules
    row,        \* the shares the coordinator holds for each device
    file,       \* shares.json on each device
    view,       \* the last peer map each agent applied
    listener,   \* the overlay listener of each agent, or Closed
    browser,    \* the catalogue of each folder browser, or Closed
    loop,       \* where each agent's loop stands
    command,    \* the list each share command is about to publish
    shareEdits, \* policy edits and share commands so far
    shareFaults \* failures so far

shareVars == <<drive, net, row, file, view, listener, browser, loop, command,
               shareEdits, shareFaults>>

Closed == Nil   \* no listener, no browser
Unset == Nil    \* no share under this label
Ready == Nil    \* no command is running
NoDrive == Nil  \* a policy without a drive section

NoShares == [l \in Labels |-> Unset]

-----------------------------------------------------------------------------
(* Who a policy means *)

\* A group lists its members by user id or by e-mail address.
actor_in_group(actor, members) == members \cap {actor.user, actor.email} # {}

Named(selector, actor) ==
    \/ selector = "*"
    \/ selector = actor.role
    \/ selector \in actor.tags
    \/ selector \in DOMAIN Teams /\ actor_in_group(actor, Teams[selector])

actor_permitted(selectors, actor) == \E s \in selectors : Named(s, actor)

\* A side of a grant: every kind of selector that is filled in must match.
side_matches(side, actor) ==
    /\ side.roles = {} \/ actor.role \in side.roles
    /\ side.tags = {} \/ side.tags \cap actor.tags # {}
    /\ side.teams = {} \/ \E t \in side.teams : actor_in_group(actor, Teams[t])

grant_matches(grant, source, destination, label) ==
    /\ grant.same_user => source.user = destination.user
    /\ side_matches(grant.src, source)
    /\ side_matches(grant.dst, destination)
    /\ "*" \in grant.shares \/ label \in grant.shares

\* The most permissive grant wins; a read-only share caps it.
grant_access(policy, source, destination, label, ro) ==
    LET matching == {g \in policy.grants :
                        grant_matches(g, source, destination, label)}
    IN  IF matching = {} THEN "none"
        ELSE IF ~ro /\ \E g \in matching : g.access = "rw" THEN "rw" ELSE "ro"

\* validate_policy(): both lists are filled in, every grant selects someone.
validate_policy(policy) ==
    /\ policy.share # {} /\ policy.access # {}
    /\ \A g \in policy.grants :
          /\ g.shares # {}
          /\ \/ g.same_user
             \/ \E side \in {g.src, g.dst} :
                   side.roles \cup side.tags \cup side.teams # {}

-----------------------------------------------------------------------------
(* The coordinator compiles one peer map per device *)

\* canonical_shares() on the device and canonicalise() at the coordinator: one
\* row per label and a bounded number of them.
canonical_shares(list) == Cardinality({l \in Labels : list[l] # Unset}) <= MAX_SHARES

canonicalise(list) == Cardinality({l \in Labels : list[l] # Unset}) <= MAX_SHARES

Shared(list) == {l \in Labels : list[l] # Unset /\ list[l].enabled}

\* allows(): some traffic passes, so the two devices see each other.
Sees(from, to) == net[<<from, to>>] # "nothing"

drive_share_visible(from, to, label, ro) ==
    \/ drive = NoDrive
    \/ /\ actor_permitted(drive.share, Person[to])
       /\ grant_access(drive, Person[from], Person[to], label, ro) # "none"

\* What `from` may send to `to` on the share port: the rules themselves, then
\* grant_share_ports() with the shares of the peer the entry is about.
ShareTcp(from, to) ==
    CASE net[<<from, to>>] = "all" -> TRUE
      [] net[<<from, to>>] = "denied" -> FALSE
      [] OTHER -> \E l \in Shared(row[from]) :
                     drive_share_visible(to, from, l, row[from][l].ro)

(* Mutant: the two ends of the grant are swapped.                          *)
PublishedSwapped(b) ==
    UNION {{[node |-> p, label |-> l, ro |-> row[p][l].ro,
             access |-> IF drive = NoDrive THEN "flag"
                        ELSE grant_access(drive, Person[p], Person[b], l, row[p][l].ro)] :
              l \in {m \in Shared(row[p]) : drive_share_visible(b, p, m, row[p][m].ro)}} :
           p \in {q \in Boxes \ {b} : Sees(b, q)}}

\* load_published() lists the enabled shares of the devices b sees;
\* compile_drive() keeps the visible shares and stamps each with its access.
Published(b) ==
    UNION {{[node |-> p, label |-> l, ro |-> row[p][l].ro,
             access |-> IF drive = NoDrive THEN "flag"
                        ELSE grant_access(drive, Person[b], Person[p], l, row[p][l].ro)] :
              l \in {m \in Shared(row[p]) : drive_share_visible(b, p, m, row[p][m].ro)}} :
           p \in {q \in Boxes \ {b} : Sees(b, q)}}

\* The device's own half: what it may do, and what each caller gets.
Grants(b, callers) ==
    LET Right(p, l) == grant_access(drive, Person[p], Person[b], l, row[b][l].ro)
    IN  UNION {{<<p, l, Right(p, l)>> : l \in {m \in Shared(row[b]) : Right(p, m) # "none"}} : p \in callers}

compile_drive(b) ==
    IF drive = NoDrive THEN NoDrive
    ELSE LET mayShare == actor_permitted(drive.share, Person[b])
         IN  [share   |-> mayShare,
              access  |-> actor_permitted(drive.access, Person[b]),
              local   |-> IF mayShare THEN Grants(b, {b}) ELSE {},
              callers |-> Grants(b, {p \in Boxes \ {b} : Sees(p, b)})]

PeerMap(b) ==
    [peers   |-> {p \in Boxes \ {b} : Sees(b, p)},
     ports   |-> {p \in Boxes \ {b} : Sees(b, p) /\ ShareTcp(p, b)},
     shares  |-> Published(b),
     drive   |-> compile_drive(b)]

\* update_node_shares(): a device outside the share list may only withdraw.
\* The actor it checks carries no e-mail address.
MayPublish(b, list) ==
    \/ Shared(list) = {}
    \/ drive = NoDrive
    \/ actor_permitted(drive.share, [Person[b] EXCEPT !.email = ""])

Store(b, list) == row' = IF canonicalise(list) /\ MayPublish(b, list) THEN [row EXCEPT ![b] = list] ELSE row

-----------------------------------------------------------------------------
(* The agent: the gate of its listener, the catalogue of its browser *)

share_gate(v) ==
    IF v.drive = NoDrive THEN [enforce |-> FALSE, local |-> {}, callers |-> {}]
    ELSE [enforce |-> TRUE, local |-> v.drive.local, callers |-> v.drive.callers]

Blocked(v) == v.drive # NoDrive /\ ~v.drive.share

\* ShareGate::view(): what a connection from `peer` is shown, and whether it
\* may write there.
GateView(open, b, peer) ==
    LET rights == IF peer = b THEN open.gate.local ELSE open.gate.callers
    IN  IF ~open.gate.enforce
        THEN {[label |-> l, ro |-> open.shares[l].ro] : l \in Shared(open.shares)}
        ELSE {[label |-> l, ro |-> open.shares[l].ro \/ <<peer, l, "rw">> \notin rights] :
                l \in {m \in Shared(open.shares) : \E a \in {"ro", "rw"} :
                            <<peer, m, a>> \in rights}}

\* local_mode() and published_mode()
catalog(b) ==
    LET v == view[b]
        mine == {l \in Shared(file[b]) :
                    v.drive = NoDrive \/ \E a \in {"ro", "rw"} : <<b, l, a>> \in v.drive.local}
        theirs == {s \in v.shares : s.node \in v.peers
                                    /\ (v.drive # NoDrive => s.access # "flag")}
    IN  {[node |-> b, label |-> l,
          ro |-> file[b][l].ro \/ (v.drive # NoDrive /\ <<b, l, "rw">> \notin v.drive.local)] :
            l \in mine}
        \cup {[node |-> s.node, label |-> s.label,
               ro |-> s.ro \/ (v.drive # NoDrive /\ s.access # "rw")] : s \in theirs}

\* ShareServer::matches(): the listener is kept when the enabled shares and
\* the gate print the same.
Enabled(list) == [l \in Labels |-> IF l \in Shared(list) THEN list[l] ELSE Unset]

ServerMatches(b) ==
    /\ listener[b] # Closed
    /\ listener[b].shares = Enabled(file[b])
    /\ listener[b].gate = share_gate(view[b])

-----------------------------------------------------------------------------
(* The administrator and the share commands *)

MayEdit == shareEdits < MaxShareEdits /\ shareEdits' = shareEdits + 1

WritePolicy ==
    /\ MayEdit
    /\ \E policy \in DrivePolicies \cup {NoDrive}, rules \in NetPolicies :
          /\ policy # NoDrive => validate_policy(policy)
          /\ drive' = policy
          /\ net' = rules
    /\ UNCHANGED <<row, file, view, listener, browser, loop, command, shareFaults>>

\* A command saves shares.json and then publishes the list it left there.
Save(b, list) ==
    /\ MayEdit
    /\ command[b] = Ready
    /\ canonical_shares(list)
    /\ file' = [file EXCEPT ![b] = list]
    /\ command' = [command EXCEPT ![b] = list]
    /\ UNCHANGED <<drive, net, row, view, listener, browser, loop, shareFaults>>

\* enable_share(); drive_share() always publishes the folder as writable
DriveShare(b) == \E l \in Labels :
    Save(b, [file[b] EXCEPT ![l] = [enabled |-> TRUE, ro |-> FALSE]])

EnableShare(b) == \E l \in Labels, ro \in BOOLEAN :
    Save(b, [file[b] EXCEPT ![l] = [enabled |-> TRUE, ro |-> ro]])

\* disable_share(): one share, or every share of the device
DisableShare(b) == \E ls \in {{l} : l \in Labels} \cup {Labels} :
    /\ \E l \in ls : file[b][l] # Unset
    /\ Save(b, [l \in Labels |-> IF l \in ls /\ file[b][l] # Unset
                                THEN [file[b][l] EXCEPT !.enabled = FALSE] ELSE file[b][l]])

Unshare(b) == \E l \in Labels :
    /\ file[b][l] # Unset
    /\ Save(b, [file[b] EXCEPT ![l] = Unset])

Rename(b) == \E l \in Labels, m \in Labels :
    /\ file[b][l] # Unset
    /\ file[b][m] = Unset
    /\ Save(b, [file[b] EXCEPT ![m] = file[b][l], ![l] = Unset])

\* publish_drive(): the call reaches the coordinator, or the command reports
\* an error to its user.
CommandPublish(b) ==
    /\ command[b] # Ready
    /\ command' = [command EXCEPT ![b] = Ready]
    /\ \/ Store(b, command[b]) /\ UNCHANGED shareFaults
       \/ /\ shareFaults < MaxShareFaults /\ shareFaults' = shareFaults + 1
          /\ UNCHANGED row
    /\ UNCHANGED <<drive, net, file, view, listener, browser, loop, shareEdits>>

-----------------------------------------------------------------------------
(* One turn of the agent's loop: sync, manage_shares, manage_drive *)

Fault == shareFaults < MaxShareFaults /\ shareFaults' = shareFaults + 1

SyncPeers(b) ==
    /\ loop[b].at = "sync"
    /\ loop' = [loop EXCEPT ![b].at = "shares"]
    /\ \/ view' = [view EXCEPT ![b] = PeerMap(b)] /\ UNCHANGED shareFaults
       \/ Fault /\ UNCHANGED view
    /\ UNCHANGED <<drive, net, row, file, listener, browser, command, shareEdits>>

\* manage_shares(): stop when nothing is shared or the policy forbids it, keep
\* a listener that matches, otherwise replace it.  The old socket may still
\* hold the port when the new one binds.
manage_shares(b) ==
    /\ loop[b].at = "shares"
    /\ \/ /\ Shared(file[b]) = {} \/ Blocked(view[b])
          /\ listener' = [listener EXCEPT ![b] = Closed]
          /\ loop' = [loop EXCEPT ![b].at = "drive"]
          /\ UNCHANGED shareFaults
       \/ /\ Shared(file[b]) # {} /\ ~Blocked(view[b]) /\ ServerMatches(b)
          /\ loop' = [loop EXCEPT ![b].at = "drive"]
          /\ UNCHANGED <<listener, shareFaults>>
       \/ /\ Shared(file[b]) # {} /\ ~Blocked(view[b]) /\ ~ServerMatches(b)
          /\ \/ /\ listener' = [listener EXCEPT ![b] =
                        [shares |-> Enabled(file[b]), gate |-> share_gate(view[b])]]
                /\ loop' = [loop EXCEPT ![b] = [at |-> "publish", list |-> file[b]]]
                /\ UNCHANGED shareFaults
             \/ /\ Fault
                /\ listener' = [listener EXCEPT ![b] = Closed]
                /\ loop' = [loop EXCEPT ![b].at = "drive"]
    /\ UNCHANGED <<drive, net, row, file, view, browser, command, shareEdits>>

\* The list read before the bind is published after it; a failure is logged.
PublishAfterBind(b) ==
    /\ loop[b].at = "publish"
    /\ \/ Store(b, loop[b].list) /\ UNCHANGED shareFaults
       \/ Fault /\ UNCHANGED row
    /\ loop' = [loop EXCEPT ![b] = [at |-> "drive", list |-> NoShares]]
    /\ UNCHANGED <<drive, net, file, view, listener, browser, command, shareEdits>>

manage_drive(b) ==
    /\ loop[b].at = "drive"
    /\ loop' = [loop EXCEPT ![b].at = "sync"]
    /\ \/ /\ browser' = [browser EXCEPT ![b] =
                IF view[b].drive # NoDrive /\ ~view[b].drive.access THEN Closed
                ELSE catalog(b)]
          /\ UNCHANGED shareFaults
       \/ /\ Fault
          /\ view[b].drive # NoDrive => view[b].drive.access
          /\ browser[b] # catalog(b)
          /\ browser' = [browser EXCEPT ![b] = Closed]
    /\ UNCHANGED <<drive, net, row, file, view, listener, command, shareEdits>>

\* The agent process restarts; its state file keeps the last peer map.
RestartAgent(b) ==
    /\ Fault
    /\ listener' = [listener EXCEPT ![b] = Closed]
    /\ browser' = [browser EXCEPT ![b] = Closed]
    /\ loop' = [loop EXCEPT ![b] = [at |-> "sync", list |-> NoShares]]
    /\ UNCHANGED <<drive, net, row, file, view, command, shareEdits>>

-----------------------------------------------------------------------------
SharesInit ==
    /\ drive = NoDrive
    /\ net \in NetPolicies
    /\ row = [b \in Boxes |-> NoShares]
    /\ file = [b \in Boxes |-> NoShares]
    /\ view = [b \in Boxes |-> [peers |-> {}, ports |-> {}, shares |-> {}, drive |-> NoDrive]]
    /\ listener = [b \in Boxes |-> Closed]
    /\ browser = [b \in Boxes |-> Closed]
    /\ loop = [b \in Boxes |-> [at |-> "sync", list |-> NoShares]]
    /\ command = [b \in Boxes |-> Ready]
    /\ shareEdits = 0
    /\ shareFaults = 0

Turn(b) == SyncPeers(b) \/ manage_shares(b) \/ PublishAfterBind(b) \/ manage_drive(b)

SharesNext ==
    \/ WritePolicy
    \/ \E b \in Publishers :
          \/ EnableShare(b) \/ DriveShare(b) \/ DisableShare(b) \/ Unshare(b) \/ Rename(b)
          \/ CommandPublish(b)
    \/ \E b \in Boxes : Turn(b) \/ RestartAgent(b)

\* The loop runs as long as the agent does, and a command finishes.
SharesFairness ==
    /\ \A b \in Boxes : WF_shareVars(Turn(b))
    /\ \A b \in Publishers : WF_shareVars(CommandPublish(b))

SharesSpec == SharesInit /\ [][SharesNext]_shareVars /\ SharesFairness

-----------------------------------------------------------------------------
(* Properties *)

\* An agent that has nothing left to do for the present policy and list.
Settled(b) ==
    /\ loop[b].at = "sync" /\ view[b] = PeerMap(b)
    /\ file[b] = row[b] /\ command[b] = Ready

\* The listener its agent would open for the present list and peer map.
Serving(b) ==
    /\ listener[b] # Closed
    /\ listener[b] = [shares |-> Enabled(file[b]), gate |-> share_gate(view[b])]

\* The folder a reading device is offered is the folder the sharing device
\* serves it, with the same right to write: the coordinator compiles the two
\* sides apart (compile_drive: published against callers), and each agent
\* works its own out again (published_mode against ShareGate::view).
AdvertisedIsServed ==
    \A c \in Boxes, s \in Boxes :
        Settled(c) /\ Settled(s) /\ browser[c] = catalog(c)
            /\ Serving(s) =>
            {[label |-> e.label, ro |-> e.ro] : e \in {f \in browser[c] : f.node = s}}
                = IF c = s \/ Sees(c, s) THEN GateView(listener[s], s, c) ELSE {}

\* Once nobody edits the policy or the shares and calls stop failing, every
\* agent's listener is open exactly where its user shares something and the
\* policy allows it, with the gate of the present policy (manage_shares keeps
\* a listener only while its print matches).
ListenerSettles ==
    \A b \in Boxes : <>[](IF Shared(file[b]) = {} \/ Blocked(view[b])
                          THEN listener[b] = Closed
                          ELSE /\ Serving(b)
                               /\ view[b].drive = compile_drive(b))

\* A peer that is offered a share can open its port: policy that lets a peer
\* see the device also opens the share port on it, unless a rule denies it.
OfferedIsReachable ==
    \A c \in Boxes, s \in Boxes :
        c \in view[s].peers /\ Settled(c) /\ Settled(s) /\ net[<<c, s>>] # "denied"
            /\ (\E e \in view[c].shares : e.node = s) => c \in view[s].ports
=============================================================================
