------------------------------- MODULE HostDns ------------------------------
(***************************************************************************)
(* How the Linux agent points the host's resolver at its stub and puts it  *)
(* back: manage_magic_dns() and shutdown_magic_dns() of                    *)
(* blaktaild/src/main.rs, the platform calls of blaktaild/src/dns.rs, and  *)
(* the down command.                                                       *)
(*                                                                         *)
(* The agent may be killed at any step, also in the middle of a copy.  A   *)
(* person may edit resolv.conf between the agent's passes.                 *)
(***************************************************************************)
EXTENDS Naturals

CONSTANTS
  Tools,        \* what the host offers: "resolved", "resolvconf", "file", "link"
  DnsKills,     \* outcomes \E ranges over: may the agent be killed
  MaxDnsEvents

ASSUME HostDnsAssumption == MaxDnsEvents \in Nat

VARIABLES
  managed,      \* organisation_dns_managed() of the adopted snapshot
  address,      \* state_ip()
  tool,         \* which of the host's tools works now
  running,      \* the agent's process
  stub,         \* address the stub is bound to, 0 for none
  mode, savedMode, \* dns_mode, in memory and in state.json
  phase,        \* where the pass or the command stands
  half,         \* a file operation is between its two steps
  linked,       \* tools that hold an entry of ours
  resolv, backup,  \* /etc/resolv.conf and resolv.conf.before-blaktail
  users,        \* what a person last put into resolv.conf
  dnsEvents

hostDnsVars == <<managed, address, tool, running, stub, mode, savedMode, phase, half, linked,
                 resolv, backup, users, dnsEvents>>

HostDnsInit ==
  /\ managed \in BOOLEAN /\ tool \in Tools
  /\ address = 1 /\ stub = 0
  /\ running = FALSE /\ mode = "none" /\ savedMode = "none"
  /\ phase = "rest" /\ half = FALSE /\ linked = {}
  /\ resolv = "original" /\ backup = "none" /\ users = "original"
  /\ dnsEvents = 0

-----------------------------------------------------------------------------
(* What follows the platform call of the phase: manage_magic_dns(),        *)
(* shutdown_magic_dns() and Command::Down.                                 *)
Then(p) == phase' = p /\ half' = FALSE
Stays == UNCHANGED <<running, stub, mode, savedMode>>
Persist(m) == mode' = m /\ savedMode' = m
Return(ok, m) ==
  \/ /\ phase = "stale" /\ ~ok /\ Then("rest") /\ Stays
  \/ /\ phase = "stale" /\ ok /\ Then("create")
     /\ stub' = 0 /\ mode' = "none" /\ UNCHANGED <<running, savedMode>>
  \/ /\ phase = "create" /\ Then("refresh")
     /\ stub' = address /\ Persist(IF ok THEN m ELSE "listener-only")
     /\ UNCHANGED running
  \/ /\ phase = "refresh" /\ managed /\ Then("rest") /\ Stays
  \/ /\ phase = "refresh" /\ ~managed /\ Then("rest")
     /\ IF ok THEN Persist("listener-only")
              ELSE UNCHANGED <<mode, savedMode>>
     /\ UNCHANGED <<running, stub>>
  \/ /\ phase = "stop" /\ Then("rest")
     /\ running' = FALSE /\ stub' = 0
     /\ IF ok THEN Persist("none") ELSE UNCHANGED <<mode, savedMode>>
  \/ /\ phase = "down" /\ Then("rest") /\ Stays

-----------------------------------------------------------------------------
(* configure_platform_dns(): systemd-resolved, then resolvconf, then the   *)
(* file itself, never through a symbolic link.                             *)
ConfigureByTool ==
  /\ tool \in {"resolved", "resolvconf"}
  /\ linked' = linked \cup {tool} /\ Return(TRUE, tool)
  /\ UNCHANGED <<resolv, backup>>
(* configure_resolv_conf_at(): what it refuses.                            *)
RefusesFile ==
  \/ tool = "link"
  \/ backup # "none" /\ resolv # "ours"
  \/ backup = "none" /\ resolv = "ours"
ConfigureRefused ==
  /\ tool \in {"file", "link"} /\ ~half /\ RefusesFile
  /\ Return(FALSE, "none") /\ UNCHANGED <<linked, resolv, backup>>
Copies == backup = "none"
CopyAway ==
  /\ tool = "file" /\ ~half /\ ~RefusesFile
  /\ half' = TRUE
  /\ backup' = IF Copies THEN resolv ELSE backup
  /\ UNCHANGED <<running, stub, mode, savedMode, phase, linked, resolv>>
(* write_atomic(): a temporary file renamed over resolv.conf; when that    *)
(* fails the backup this call made is removed.                             *)
WriteManaged(ok) ==
  /\ tool = "file" /\ half
  /\ resolv' = IF ok THEN "ours" ELSE resolv
  /\ backup' = IF ~ok /\ resolv # "ours" THEN "none" ELSE backup
  /\ Return(ok, "file") /\ UNCHANGED linked
Configure == ConfigureByTool \/ ConfigureRefused \/ CopyAway \/ \E ok \in BOOLEAN : WriteManaged(ok)

(* remove_platform_dns(): the mode says what to undo; a tool that no       *)
(* longer works fails.                                                     *)
RemoveByTool(m) ==
  /\ m \in {"resolved", "resolvconf"}
  /\ linked' = IF tool = m THEN linked \ {m} ELSE linked
  /\ Return(tool = m, m) /\ UNCHANGED <<resolv, backup>>
RemoveNothing(m) ==
  /\ m \in {"none", "listener-only"} \/ (m = "file" /\ backup = "none")
  /\ Return(TRUE, m) /\ UNCHANGED <<linked, resolv, backup>>
(* restore_resolv_conf(): copy back, then remove the backup.               *)
RestoreRefused(m) ==
  /\ m = "file" /\ ~half /\ backup # "none" /\ resolv # "ours"
  /\ Return(FALSE, m) /\ UNCHANGED <<linked, resolv, backup>>
(* Mutant: the backup is gone before the copy.                             *)
CopyBackMoves(m) ==
  /\ m = "file" /\ ~half /\ backup # "none" /\ resolv = "ours"
  /\ backup' = "none" /\ half' = TRUE
  /\ UNCHANGED <<running, stub, mode, savedMode, phase, linked, resolv>>
CopyBack(m) ==
  /\ m = "file" /\ ~half /\ backup # "none" /\ resolv = "ours"
  /\ resolv' = backup /\ half' = TRUE
  /\ UNCHANGED <<running, stub, mode, savedMode, phase, linked, backup>>
DropBackup(m) ==
  /\ m = "file" /\ half /\ backup' = "none"
  /\ Return(TRUE, m) /\ UNCHANGED <<linked, resolv>>
RemoveSystemDns(m) ==
  RemoveByTool(m) \/ (~half /\ RemoveNothing(m)) \/ RestoreRefused(m) \/ CopyBack(m) \/ DropBackup(m)

-----------------------------------------------------------------------------
Rest == UNCHANGED <<managed, address, tool, users, dnsEvents>>
Files == UNCHANGED <<linked, resolv, backup>>

(* sync_loop() calls manage_magic_dns() after each poll.                   *)
Pass ==
  /\ running /\ phase = "rest"
  /\ Then(IF stub \notin {0, address} THEN "stale" ELSE IF stub = 0 THEN "create" ELSE "refresh")
  /\ Stays /\ Files /\ Rest
RemoveStale == phase = "stale" /\ RemoveSystemDns(mode) /\ Rest
(* MagicDns::spawn() may fail to bind; the pass ends there.                *)
BindFails == phase = "create" /\ ~half /\ Then("rest") /\ Stays /\ Files /\ Rest
CreateManaged == phase = "create" /\ managed /\ Configure /\ Rest
CreateUnmanaged == phase = "create" /\ ~managed /\ Return(FALSE, "none") /\ Files /\ Rest
RefreshManaged == phase = "refresh" /\ managed /\ Configure /\ Rest
RefreshUnmanaged ==
  /\ phase = "refresh" /\ ~managed
  /\ \/ mode \notin {"none", "listener-only"} /\ RemoveSystemDns(mode)
     \/ /\ mode \in {"none", "listener-only"} /\ Then("rest")
        /\ Stays /\ Files
  /\ Rest

(* A stop signal between passes; shutdown_magic_dns() does nothing without *)
(* a stub.                                                                 *)
Stop == running /\ phase = "rest" /\ stub # 0 /\ Then("stop") /\ Stays /\ Files /\ Rest
StopIdle ==
  /\ running /\ phase = "rest" /\ stub = 0
  /\ running' = FALSE /\ UNCHANGED <<stub, mode, savedMode, phase, half>> /\ Files /\ Rest
ShutDown == phase = "stop" /\ RemoveSystemDns(mode) /\ Rest
(* The down command reads state.json.                                      *)
Down == ~running /\ phase = "rest" /\ Then("down") /\ Stays /\ Files /\ Rest
DownRemoves == phase = "down" /\ RemoveSystemDns(savedMode) /\ Rest

StartAgent ==
  /\ ~running /\ phase = "rest"
  /\ running' = TRUE /\ mode' = savedMode
  /\ UNCHANGED <<stub, savedMode, phase, half>> /\ Files /\ Rest

-----------------------------------------------------------------------------
Spend == dnsEvents < MaxDnsEvents /\ dnsEvents' = dnsEvents + 1
Between == phase = "rest" /\ UNCHANGED <<running, stub, mode, savedMode, phase, half, backup, linked>>
(* A poll brings another managed flag or another address.                  *)
Publish ==
  /\ Between /\ Spend /\ managed' = ~managed
  /\ UNCHANGED <<address, tool, resolv, users>>
Renumber ==
  /\ Between /\ Spend /\ address' = 3 - address
  /\ UNCHANGED <<managed, tool, resolv, users>>
ToolChanges ==
  /\ Between /\ Spend /\ tool' \in Tools \ {tool}
  /\ UNCHANGED <<managed, address, resolv, users>>
EditByHand ==
  /\ Between /\ Spend /\ resolv' = "edited" /\ users' = "edited"
  /\ UNCHANGED <<managed, address, tool>>
(* Killed, perhaps while one file is being copied over another.            *)
Kill(torn) ==
  /\ torn \in DnsKills /\ (running \/ phase = "down") /\ Spend
  /\ running' = FALSE /\ stub' = 0 /\ Then("rest")
  /\ backup' = IF torn /\ phase \in {"create", "refresh"} /\ managed /\ tool = "file"
                    /\ ~half /\ ~RefusesFile /\ Copies
               THEN "torn" ELSE backup
  /\ resolv' = IF /\ torn /\ phase \in {"stale", "refresh", "stop", "down"} /\ ~(phase = "refresh" /\ managed)
                  /\ (IF phase = "down" THEN savedMode ELSE mode) = "file"
                  /\ ~half /\ backup # "none" /\ resolv = "ours"
               THEN "torn" ELSE resolv
  /\ mode' = savedMode
  /\ UNCHANGED <<savedMode, linked, managed, address, tool, users>>

HostDnsNext ==
  \/ Pass \/ RemoveStale \/ BindFails \/ CreateManaged \/ CreateUnmanaged
  \/ RefreshManaged \/ RefreshUnmanaged
  \/ Stop \/ StopIdle \/ ShutDown \/ Down \/ DownRemoves \/ StartAgent
  \/ Publish \/ Renumber \/ ToolChanges \/ EditByHand
  \/ \E torn \in BOOLEAN : Kill(torn)

HostDnsSpec == HostDnsInit /\ [][HostDnsNext]_hostDnsVars

-----------------------------------------------------------------------------
(* What a person last wrote into resolv.conf is in the file or in the      *)
(* backup beside it, wherever the agent is killed, whatever it finds when  *)
(* it returns, and also when the file was edited while the agent held it.  *)
UsersFileIsKept == users \in {resolv, backup}

=============================================================================
