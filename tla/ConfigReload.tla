----------------------------- MODULE ConfigReload ---------------------------
(***************************************************************************)
(* Configuration of one daemon: blaktail-config/src/lib.rs and the SIGHUP  *)
(* task each daemon runs (blaktail-coord, blaktail-relay and blaktaild     *)
(* main.rs).                                                               *)
(*                                                                         *)
(* Of each section the model keeps one field: "own" for a setting of this  *)
(* service, "other" for one of another service, "shared" for the schema    *)
(* version and profile, "filter" for diagnostics.  A setting is 0 when it  *)
(* fails validation.  A secret is named by the configuration and read from *)
(* its file.                                                               *)
(***************************************************************************)
EXTENDS Naturals

CONSTANTS
  Absent,        \* the file or the environment does not give the field
  SecretFiles,   \* paths a secret reference may name
  SwapsWhileStarting, \* TRUE in it: a secret may be replaced between the load and the read
  MaxConfigEdits

ASSUME ConfigAssumption == MaxConfigEdits \in Nat /\ SwapsWhileStarting \subseteq BOOLEAN

Settings == {"shared", "filter", "own", "other"}
GivenValues == {0, 1, 2, Absent}
Contents == {0, 1, 2}   \* 0: too short to be accepted

VARIABLES
  toml,       \* settings of the TOML file, and the secret file it names
  env,        \* the process's environment
  contents,   \* of each secret file
  daemon,     \* "down", "loaded" or "running"
  handle,   \* ConfigHandle
  inUse,      \* what the running daemon was started with
  logFilter,     \* the tracing filter in force
  reloadAnswer,     \* of the last reload, while nothing was edited since
  configEdits

configVars == <<toml, env, contents, daemon, handle, inUse, logFilter, reloadAnswer, configEdits>>

-----------------------------------------------------------------------------
(* RootConfig::default() and the defaults of the sections.                 *)
Default(f) == 1
(* apply_environment(): a variable that is set wins over the file; those   *)
(* of other services are not read.                                         *)
FromEnvironment(f) == IF f = "other" THEN Absent ELSE env[f]
Setting(f) ==
  IF FromEnvironment(f) # Absent THEN FromEnvironment(f)
  ELSE IF toml.settings[f] # Absent THEN toml.settings[f] ELSE Default(f)
(* set_secret(): the file's own reference, or that of the environment.     *)
Reference == IF env["secret"] # Absent THEN env["secret"] ELSE toml.secret
(* fingerprint_secret().                                                   *)
Fingerprint(path) == contents[path]
(* LoadedConfig::load().                                                   *)
LoadedConfig == [settings |-> [f \in Settings |-> Setting(f)], secret |-> Reference, print |-> Fingerprint(Reference)]

(* validate_diagnostics(), and the checks of the daemon's own section.     *)
ValidDiagnostics == Setting("filter") # 0
ValidService == Setting("own") # 0 /\ contents[Reference] # 0
(* violations(): the schema version must be in the file.                   *)
Validate == toml.settings["shared"] \notin {0, Absent} /\ Setting("shared") # 0 /\ ValidDiagnostics /\ ValidService

-----------------------------------------------------------------------------
ConfigInit ==
  /\ toml = [settings |-> [f \in Settings |-> IF f = "shared" THEN 1 ELSE Absent],
             secret |-> CHOOSE s \in SecretFiles : TRUE]
  /\ env = [f \in Settings \cup {"secret"} |-> Absent]
  /\ contents = [s \in SecretFiles |-> 1]
  /\ daemon = "down" /\ logFilter = 1 /\ reloadAnswer = "none" /\ configEdits = 0
  /\ handle = LoadedConfig
  /\ inUse = [settings |-> handle.settings, secret |-> 1]

(* The daemon starts: load, validate, then read its secrets and listen.    *)
LoadConfig ==
  /\ daemon = "down" /\ Validate
  /\ daemon' = "loaded" /\ handle' = LoadedConfig /\ logFilter' = Setting("filter")
  /\ reloadAnswer' = "none"
  /\ UNCHANGED <<toml, env, contents, inUse, configEdits>>
(* secret() reads the file again.                                          *)
ReadSecrets ==
  /\ daemon = "loaded" /\ daemon' = "running"
  /\ inUse' = [settings |-> handle.settings, secret |-> contents[handle.secret]]
  /\ UNCHANGED <<toml, env, contents, handle, logFilter, reloadAnswer, configEdits>>
ExitDaemon ==
  /\ daemon # "down" /\ daemon' = "down" /\ reloadAnswer' = "none"
  /\ UNCHANGED <<toml, env, contents, handle, inUse, logFilter, configEdits>>

(* reload_plan_for_service(): the fields of this service that differ, and  *)
(* the shared ones.                                                        *)
RestartFields(next) ==
  {f \in {"shared", "own"} : next.settings[f] # handle.settings[f]}
    \cup {f \in {"secret"} : <<next.secret, next.print>> # <<handle.secret, handle.print>>}
SafeFields(next) == {f \in {"filter"} : next.settings[f] # handle.settings[f]}
ReloadPlan(next) ==
  IF RestartFields(next) # {} THEN "restart_required"
  ELSE IF SafeFields(next) # {} THEN "safe" ELSE "no_change"

(* Mutant: the whole candidate becomes active.                             *)
CommitWholeCandidate(next) == handle' = next
(* commit_safe_for_service(): diagnostics only.                            *)
CommitSafe(next) == handle' = [handle EXCEPT !.settings["filter"] = next.settings["filter"]]

(* SIGHUP.                                                                 *)
ReloadRejected ==
  /\ daemon = "running" /\ ~Validate /\ reloadAnswer' = "rejected"
  /\ UNCHANGED <<toml, env, contents, daemon, handle, inUse, logFilter, configEdits>>
ReloadRefused ==
  /\ daemon = "running" /\ Validate /\ ReloadPlan(LoadedConfig) # "safe" /\ reloadAnswer' = ReloadPlan(LoadedConfig)
  /\ UNCHANGED <<toml, env, contents, daemon, handle, inUse, logFilter, configEdits>>
(* The filter is replaced first; when that fails nothing is committed.     *)
ReloadFilterFails ==
  /\ daemon = "running" /\ Validate /\ ReloadPlan(LoadedConfig) = "safe" /\ reloadAnswer' = "rejected"
  /\ UNCHANGED <<toml, env, contents, daemon, handle, inUse, logFilter, configEdits>>
ReloadSafe ==
  /\ daemon = "running" /\ Validate /\ ReloadPlan(LoadedConfig) = "safe"
  /\ logFilter' = Setting("filter") /\ CommitSafe(LoadedConfig) /\ reloadAnswer' = "safe"
  /\ UNCHANGED <<toml, env, contents, daemon, inUse, configEdits>>

-----------------------------------------------------------------------------
ConfigEdited == configEdits < MaxConfigEdits /\ configEdits' = configEdits + 1 /\ reloadAnswer' = "none"
EditSetting(f, v) ==
  /\ ConfigEdited /\ v # toml.settings[f] /\ toml' = [toml EXCEPT !.settings[f] = v]
  /\ UNCHANGED <<env, contents, daemon, handle, inUse, logFilter>>
EditReference(s) ==
  /\ ConfigEdited /\ s # toml.secret /\ toml' = [toml EXCEPT !.secret = s]
  /\ UNCHANGED <<env, contents, daemon, handle, inUse, logFilter>>
RotateSecret(s, c) ==
  /\ ConfigEdited /\ (daemon = "loaded" => TRUE \in SwapsWhileStarting)
  /\ c # contents[s] /\ contents' = [contents EXCEPT ![s] = c]
  /\ UNCHANGED <<toml, env, daemon, handle, inUse, logFilter>>
(* A running process keeps the environment it was started with.            *)
EditEnvironment(f, v) ==
  /\ ConfigEdited /\ daemon = "down" /\ v # env[f] /\ env' = [env EXCEPT ![f] = v]
  /\ UNCHANGED <<toml, contents, daemon, handle, inUse, logFilter>>

ConfigNext ==
  \/ LoadConfig \/ ReadSecrets \/ ExitDaemon
  \/ ReloadRejected \/ ReloadRefused \/ ReloadFilterFails \/ ReloadSafe
  \/ \E f \in Settings, v \in GivenValues : EditSetting(f, v) \/ EditEnvironment(f, v)
  \/ \E s \in SecretFiles : EditReference(s) \/ EditEnvironment("secret", s)
  \/ \E s \in SecretFiles, c \in Contents : RotateSecret(s, c)

ConfigSpec == ConfigInit /\ [][ConfigNext]_configVars

-----------------------------------------------------------------------------
(* What a daemon started now would use of the settings that concern it.    *)
FreshStart == [shared |-> Setting("shared"), own |-> Setting("own"), secret |-> contents[Reference]]
RunsWith == [shared |-> inUse.settings["shared"], own |-> inUse.settings["own"], secret |-> inUse.secret]

(* While nothing was edited since, a reload that found no change or only   *)
(* safe ones means the daemon already runs what a restart would give it,   *)
(* and one that asks for a restart means it does not, except that two      *)
(* secret files may hold the same secret.                                  *)
ReloadTellsTheTruth ==
  /\ reloadAnswer \in {"no_change", "safe"} => RunsWith = FreshStart /\ logFilter = Setting("filter")
  /\ reloadAnswer = "restart_required" => RunsWith # FreshStart \/ handle.secret # Reference

(* The snapshot the daemon holds names the settings and the filter it runs *)
(* with, after any sequence of accepted and refused reloads.               *)
SnapshotIsActive ==
  daemon = "running" => handle.settings["filter"] = logFilter
                        /\ \A f \in {"shared", "own", "other"} : handle.settings[f] = inUse.settings[f]

(* What a reload says and what it leaves in use.                           *)
ReloadInv == ReloadTellsTheTruth /\ SnapshotIsActive
=============================================================================
